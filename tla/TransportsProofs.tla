--------------------------- MODULE TransportsProofs ---------------------------
(* Proofs about Transports, for every configuration of the uploaders, every   *)
(* set of callers and of events.                                           *)
EXTENDS Transports, FilteringProofs, FiniteSetTheorems, TLAPS

(* The elements of sequences. *)
LEMMA SetOfNone == \A X : <<>> \in Seq(X) /\ ToSet(<<>>) = {} /\ Distinct(<<>>)
  BY DEF ToSet, Distinct

\* A sequence of one element.
LEMMA SetOfOne ==
  ASSUME NEW X, NEW e \in X
  PROVE  <<e>> \in Seq(X) /\ ToSet(<<e>>) = {e} /\ Distinct(<<e>>) /\ <<e>> # <<>>
  BY DEF ToSet, Distinct

\* The elements of a sequence.
LEMMA SetOfSeq ==
  ASSUME NEW X, NEW s \in Seq(X)
  PROVE  ToSet(s) \subseteq X /\ (ToSet(s) = {} <=> s = <<>>)
<1>1. /\ Len(s) \in Nat /\ DOMAIN s = 1..Len(s) /\ \A i \in 1..Len(s) : s[i] \in X
      /\ s # <<>> => 1 \in 1..Len(s)
  BY LenProperties, EmptySeq
<1>2. s # <<>> => s[1] \in ToSet(s)
  BY <1>1 DEF ToSet
<1>3. QED
  BY <1>1, <1>2, SetOfNone DEF ToSet

\* The elements of a concatenation.
LEMMA SetOfConcat ==
  ASSUME NEW X, NEW s \in Seq(X), NEW t \in Seq(X)
  PROVE  s \o t \in Seq(X) /\ ToSet(s \o t) = ToSet(s) \cup ToSet(t)
<1>1. PICK u \in Seq(X) : u = s \o t
  BY ConcatProperties
<1>2. /\ Len(s) \in Nat /\ Len(t) \in Nat /\ Len(u) = Len(s) + Len(t)
      /\ DOMAIN s = 1..Len(s) /\ DOMAIN t = 1..Len(t) /\ DOMAIN u = 1..(Len(s) + Len(t))
      /\ \A i \in 1..(Len(s) + Len(t)) : u[i] = IF i <= Len(s) THEN s[i] ELSE t[i - Len(s)]
  BY <1>1, ConcatProperties, LenProperties
<1>3. ASSUME NEW i \in DOMAIN s PROVE i \in DOMAIN u /\ u[i] = s[i]
  BY <1>2
<1>4. ASSUME NEW i \in DOMAIN t PROVE i + Len(s) \in DOMAIN u /\ u[i + Len(s)] = t[i]
  BY <1>2
<1>5. ASSUME NEW i \in DOMAIN u PROVE u[i] \in ToSet(s) \cup ToSet(t)
  <2>1. CASE i <= Len(s)
    <3>1. i \in DOMAIN s /\ u[i] = s[i]
      BY <1>2, <2>1
    <3>2. QED
      BY <3>1 DEF ToSet
  <2>2. CASE ~ (i <= Len(s))
    <3>1. i - Len(s) \in DOMAIN t /\ u[i] = t[i - Len(s)]
      BY <1>2, <2>2
    <3>2. QED
      BY <3>1 DEF ToSet
  <2>3. QED
    BY <2>1, <2>2
<1>6. ToSet(u) = ToSet(s) \cup ToSet(t)
  BY <1>3, <1>4, <1>5 DEF ToSet
<1>7. QED
  BY <1>1, <1>6

\* A concatenation repeats nothing if its parts do not and share nothing.
LEMMA DistinctConcat ==
  ASSUME NEW X, NEW s \in Seq(X), NEW t \in Seq(X)
  PROVE  Distinct(s \o t) <=> Distinct(s) /\ Distinct(t) /\ ToSet(s) \cap ToSet(t) = {}
<1>1. PICK u \in Seq(X) : u = s \o t
  BY ConcatProperties
<1>2. /\ Len(s) \in Nat /\ Len(t) \in Nat /\ Len(u) = Len(s) + Len(t)
      /\ DOMAIN s = 1..Len(s) /\ DOMAIN t = 1..Len(t) /\ DOMAIN u = 1..(Len(s) + Len(t))
      /\ \A i \in 1..(Len(s) + Len(t)) : u[i] = IF i <= Len(s) THEN s[i] ELSE t[i - Len(s)]
  BY <1>1, ConcatProperties, LenProperties
<1>3. ASSUME NEW i \in DOMAIN s PROVE i \in Nat /\ i \in DOMAIN u /\ u[i] = s[i] /\ i <= Len(s)
  BY <1>2
<1>4. ASSUME NEW i \in DOMAIN t
      PROVE  i \in Nat /\ i >= 1 /\ i + Len(s) \in DOMAIN u /\ u[i + Len(s)] = t[i]
  BY <1>2
<1>5. ASSUME NEW i \in DOMAIN u
      PROVE  \/ i \in DOMAIN s /\ u[i] = s[i]
             \/ i - Len(s) \in DOMAIN t /\ u[i] = t[i - Len(s)] /\ i \in Nat
  BY <1>2
<1>6. ASSUME Distinct(u) PROVE Distinct(s) /\ Distinct(t) /\ ToSet(s) \cap ToSet(t) = {}
  <2>1. Distinct(s)
    BY <1>3, <1>6 DEF Distinct
  <2>2. ASSUME NEW i \in DOMAIN t, NEW j \in DOMAIN t, t[i] = t[j] PROVE i = j
    <3>1. i + Len(s) = j + Len(s)
      BY <1>4, <1>6, <2>2 DEF Distinct
    <3>2. QED
      BY <3>1, <1>2, <1>4
  <2>3. ASSUME NEW i \in DOMAIN s, NEW j \in DOMAIN t, s[i] = t[j] PROVE FALSE
    <3>1. i = j + Len(s)
      BY <1>3, <1>4, <1>6, <2>3 DEF Distinct
    <3>2. QED
      BY <3>1, <1>2, <1>3, <1>4
  <2>4. QED
    BY <2>1, <2>2, <2>3 DEF Distinct, ToSet
<1>7. ASSUME Distinct(s), Distinct(t), ToSet(s) \cap ToSet(t) = {} PROVE Distinct(u)
  <2>1. SUFFICES ASSUME NEW i \in DOMAIN u, NEW j \in DOMAIN u, u[i] = u[j] PROVE i = j
    BY DEF Distinct
  <2>2. ASSUME NEW k \in DOMAIN s, NEW l \in DOMAIN t, s[k] = t[l] PROVE FALSE
    BY <1>7, <2>2 DEF ToSet
  <2>3. CASE i \in DOMAIN s /\ u[i] = s[i] /\ j \in DOMAIN s /\ u[j] = s[j]
    BY <1>7, <2>1, <2>3 DEF Distinct
  <2>4. CASE /\ i - Len(s) \in DOMAIN t /\ u[i] = t[i - Len(s)] /\ i \in Nat
             /\ j - Len(s) \in DOMAIN t /\ u[j] = t[j - Len(s)] /\ j \in Nat
    <3>1. i - Len(s) = j - Len(s)
      BY <1>7, <2>1, <2>4 DEF Distinct
    <3>2. QED
      BY <3>1, <2>4, <1>2
  <2>5. QED
    BY <1>5, <2>1, <2>2, <2>3, <2>4
<1>8. QED
  BY <1>1, <1>6, <1>7

\* A sequence is its head and its tail.
LEMMA SetOfTail ==
  ASSUME NEW X, NEW s \in Seq(X), s # <<>>
  PROVE  /\ Head(s) \in X /\ Tail(s) \in Seq(X) /\ s = <<Head(s)>> \o Tail(s)
         /\ ToSet(s) = {Head(s)} \cup ToSet(Tail(s))
<1>1. Head(s) \in X /\ Tail(s) \in Seq(X) /\ s = <<Head(s)>> \o Tail(s)
  OBVIOUS
<1>2. PICK e \in X, t \in Seq(X) : e = Head(s) /\ t = Tail(s)
  BY <1>1
<1>3. PICK one \in Seq(X) : one = <<e>> /\ ToSet(one) = {e}
  BY SetOfOne
<1>4. ToSet(one \o t) = ToSet(one) \cup ToSet(t)
  BY SetOfConcat
<1>5. QED
  BY <1>1, <1>2, <1>3, <1>4

\* A sequence is its first m elements and the others.
LEMMA SetOfSplit ==
  ASSUME NEW X, NEW s \in Seq(X), NEW m \in 0..Len(s)
  PROVE  /\ SubSeq(s, 1, m) \in Seq(X) /\ SubSeq(s, m + 1, Len(s)) \in Seq(X)
         /\ Len(SubSeq(s, 1, m)) = m
         /\ s = SubSeq(s, 1, m) \o SubSeq(s, m + 1, Len(s))
<1>1. Len(s) \in Nat /\ \A i \in 1..Len(s) : s[i] \in X
  BY LenProperties
<1>2. SubSeq(s, 1, m) \in Seq(X) /\ Len(SubSeq(s, 1, m)) = m
  BY <1>1, SubSeqProperties
<1>3. SubSeq(s, m + 1, Len(s)) \in Seq(X)
  BY <1>1, SubSeqProperties
<1>4. s = SubSeq(s, 1, m) \o SubSeq(s, m + 1, Len(s))
  <2>1. 1 \in 1..(Len(s) + 1) /\ m \in (1 - 1)..Len(s) /\ Len(s) \in m..Len(s)
    BY <1>1
  <2>2. SubSeq(s, 1, m) \o SubSeq(s, m + 1, Len(s)) = SubSeq(s, 1, Len(s))
    BY <2>1, ConcatAdjacentSubSeq
  <2>3. QED
    BY <2>2, SubSeqFull
<1>5. QED
  BY <1>2, <1>3, <1>4

\* The elements of a filtered sequence.
LEMMA SetOfDropping ==
  ASSUME NEW X, NEW s \in Seq(X), NEW S
  PROVE  /\ Dropping(s, S) \in Seq(X) /\ Len(Dropping(s, S)) <= Len(s)
         /\ ToSet(Dropping(s, S)) = ToSet(s) \ S
         /\ Distinct(s) => Distinct(Dropping(s, S))
<1>1. PICK t : t = Dropping(s, S)
  OBVIOUS
<1>2. t \in Seq(X) /\ Len(t) <= Len(s)
      /\ \A x : (\E i \in DOMAIN t : t[i] = x) <=> x \notin S /\ \E i \in DOMAIN s : s[i] = x
  BY <1>1, DroppingElements
<1>3. ToSet(t) = ToSet(s) \ S
  BY <1>2 DEF ToSet
<1>4. Distinct(s) => Distinct(t)
  BY <1>1, DroppingDistinct
<1>5. QED
  BY <1>1, <1>2, <1>3, <1>4

-----------------------------------------------------------------------------
(* Calls that wait for room and continuations, and the events they carry.  *)
Job == [call: Call, hops: Nat \ {0}, then: {"enqueue", "flush", "message", "event"}]

CallEvents(c) == ToSet(c.items) \cup ToSet(c.rest)
JobEvents(j) == IF j.then = "enqueue" THEN CallEvents(j.call) ELSE ToSet(j.call.rest)

InCalls(b) == UNION {CallEvents(b[i]) : i \in DOMAIN b}
InJobs(m) == UNION {JobEvents(m[i]) : i \in DOMAIN m}

\* A call that goes on with a message has one, and one that goes on with
\* nothing or with a flush has none; no call carries an event twice.
CallOK(c) ==
  /\ c.then # "nothing" => c.hops > 0
  /\ c.then = "message" => c.rest # <<>>
  /\ c.then \in {"nothing", "flush"} => c.rest = <<>>
  /\ Distinct(c.items) /\ Distinct(c.rest) /\ ToSet(c.items) \cap ToSet(c.rest) = {}

JobOK(j) ==
  /\ j.then = "enqueue" => CallOK(j.call)
  /\ j.then = "message" => j.call.rest # <<>>
  /\ j.then = "flush" => j.call.rest = <<>>
  /\ Distinct(j.call.rest)

\* No two of them carry the same event.
CallsOK(b) ==
  /\ \A i \in DOMAIN b : CallOK(b[i])
  /\ \A i, j \in DOMAIN b : i # j => CallEvents(b[i]) \cap CallEvents(b[j]) = {}

JobsOK(m) ==
  /\ \A i \in DOMAIN m : JobOK(m[i])
  /\ \A i, j \in DOMAIN m : i # j => JobEvents(m[i]) \cap JobEvents(m[j]) = {}

\* No calls carry nothing.
LEMMA NoCalls == <<>> \in Seq(Call) /\ CallsOK(<<>>) /\ InCalls(<<>>) = {}
  BY DEF CallsOK, InCalls

\* No jobs carry nothing.
LEMMA NoJobs == <<>> \in Seq(Job) /\ JobsOK(<<>>) /\ InJobs(<<>>) = {}
  BY DEF JobsOK, InJobs

\* What a single job carries.
LEMMA OneJob ==
  ASSUME NEW j \in Job, JobOK(j)
  PROVE  <<j>> \in Seq(Job) /\ JobsOK(<<j>>) /\ InJobs(<<j>>) = JobEvents(j)
  BY DEF JobsOK, InJobs

\* The fields of a call, and that it carries events.
LEMMA CallEventsAreEvents ==
  ASSUME NEW c \in Call
  PROVE  /\ c.items \in Seq(Events) /\ c.rest \in Seq(Events)
         /\ c.by \in Callers /\ c.then \in {"nothing", "flush", "message", "event"}
         /\ c.hops \in Nat
         /\ CallEvents(c) \subseteq Events
<1>1. /\ c.items \in Seq(Events) /\ c.rest \in Seq(Events)
      /\ c.by \in Callers /\ c.then \in {"nothing", "flush", "message", "event"}
      /\ c.hops \in Nat
  BY DEF Call
<1>2. QED
  BY <1>1, SetOfSeq DEF CallEvents

\* One more call waits.
LEMMA CallsAppend ==
  ASSUME NEW b \in Seq(Call), CallsOK(b), NEW c \in Call, CallOK(c),
         CallEvents(c) \cap InCalls(b) = {}
  PROVE  /\ Append(b, c) \in Seq(Call) /\ CallsOK(Append(b, c))
         /\ InCalls(Append(b, c)) = InCalls(b) \cup CallEvents(c)
<1>1. PICK d \in Seq(Call) : d = Append(b, c)
  BY AppendProperties
<1>2. /\ Len(b) \in Nat /\ Len(d) = Len(b) + 1 /\ DOMAIN b = 1..Len(b)
      /\ DOMAIN d = 1..(Len(b) + 1)
      /\ \A i \in 1..Len(b) : d[i] = b[i]
      /\ d[Len(b) + 1] = c
  BY <1>1, AppendProperties, LenProperties
<1>3. PICK last \in Nat : last = Len(b) + 1
  BY <1>2
<1>4. /\ DOMAIN d = DOMAIN b \cup {last} /\ last \notin DOMAIN b /\ d[last] = c
      /\ \A i \in DOMAIN b : d[i] = b[i]
  BY <1>2, <1>3
<1>5. InCalls(d) = InCalls(b) \cup CallEvents(c)
  BY <1>4 DEF InCalls
<1>6. \A i \in DOMAIN d : CallOK(d[i])
  BY <1>4 DEF CallsOK
<1>7. \A i \in DOMAIN b : CallEvents(c) \cap CallEvents(b[i]) = {}
  BY DEF InCalls
<1>8. ASSUME NEW i \in DOMAIN d, NEW j \in DOMAIN d, i # j
      PROVE  CallEvents(d[i]) \cap CallEvents(d[j]) = {}
  <2>1. CASE i \in DOMAIN b /\ j \in DOMAIN b
    BY <1>4, <1>8, <2>1 DEF CallsOK
  <2>2. CASE i = last /\ j \in DOMAIN b
    BY <1>4, <1>7, <2>2
  <2>3. CASE i \in DOMAIN b /\ j = last
    BY <1>4, <1>7, <2>3
  <2>4. QED
    BY <1>4, <1>8, <2>1, <2>2, <2>3
<1>9. QED
  BY <1>1, <1>5, <1>6, <1>8 DEF CallsOK

\* Continuations after others.
LEMMA JobsConcat ==
  ASSUME NEW m \in Seq(Job), JobsOK(m), NEW n \in Seq(Job), JobsOK(n),
         InJobs(m) \cap InJobs(n) = {}
  PROVE  /\ m \o n \in Seq(Job) /\ JobsOK(m \o n)
         /\ InJobs(m \o n) = InJobs(m) \cup InJobs(n)
<1>1. PICK u \in Seq(Job) : u = m \o n
  BY ConcatProperties
<1>2. /\ Len(m) \in Nat /\ Len(n) \in Nat /\ Len(u) = Len(m) + Len(n)
      /\ DOMAIN m = 1..Len(m) /\ DOMAIN n = 1..Len(n) /\ DOMAIN u = 1..(Len(m) + Len(n))
      /\ \A i \in 1..(Len(m) + Len(n)) : u[i] = IF i <= Len(m) THEN m[i] ELSE n[i - Len(m)]
  BY <1>1, ConcatProperties, LenProperties
<1>3. ASSUME NEW i \in DOMAIN m PROVE i \in DOMAIN u /\ u[i] = m[i]
  BY <1>2
<1>4. ASSUME NEW i \in DOMAIN n PROVE i + Len(m) \in DOMAIN u /\ u[i + Len(m)] = n[i]
  BY <1>2
<1>5. ASSUME NEW i \in DOMAIN u
      PROVE  \/ i \in DOMAIN m /\ u[i] = m[i]
             \/ i - Len(m) \in DOMAIN n /\ u[i] = n[i - Len(m)] /\ i \in Nat
  BY <1>2
<1>6. InJobs(u) = InJobs(m) \cup InJobs(n)
  <2>1. InJobs(m) \subseteq InJobs(u)
    BY <1>3 DEF InJobs
  <2>2. InJobs(n) \subseteq InJobs(u)
    BY <1>4 DEF InJobs
  <2>3. InJobs(u) \subseteq InJobs(m) \cup InJobs(n)
    BY <1>5 DEF InJobs
  <2>4. QED
    BY <2>1, <2>2, <2>3
<1>7. \A i \in DOMAIN u : JobOK(u[i])
  BY <1>5 DEF JobsOK
<1>8. \A i \in DOMAIN m, j \in DOMAIN n : JobEvents(m[i]) \cap JobEvents(n[j]) = {}
  BY DEF InJobs
<1>9. ASSUME NEW i \in DOMAIN u, NEW j \in DOMAIN u, i # j
      PROVE  JobEvents(u[i]) \cap JobEvents(u[j]) = {}
  <2>1. CASE i \in DOMAIN m /\ u[i] = m[i] /\ j \in DOMAIN m /\ u[j] = m[j]
    BY <1>9, <2>1 DEF JobsOK
  <2>2. CASE /\ i - Len(m) \in DOMAIN n /\ u[i] = n[i - Len(m)] /\ i \in Nat
             /\ j - Len(m) \in DOMAIN n /\ u[j] = n[j - Len(m)] /\ j \in Nat
    <3>1. i - Len(m) # j - Len(m)
      BY <1>2, <1>9, <2>2
    <3>2. QED
      BY <2>2, <3>1 DEF JobsOK
  <2>3. CASE i \in DOMAIN m /\ u[i] = m[i] /\ j - Len(m) \in DOMAIN n /\ u[j] = n[j - Len(m)]
    BY <1>8, <2>3
  <2>4. CASE j \in DOMAIN m /\ u[j] = m[j] /\ i - Len(m) \in DOMAIN n /\ u[i] = n[i - Len(m)]
    BY <1>8, <2>4
  <2>5. QED
    BY <1>5, <2>1, <2>2, <2>3, <2>4
<1>10. QED
  BY <1>1, <1>6, <1>7, <1>9 DEF JobsOK

\* The first continuation and the others.
LEMMA JobsHead ==
  ASSUME NEW m \in Seq(Job), JobsOK(m), m # <<>>
  PROVE  /\ Head(m) \in Job /\ JobOK(Head(m)) /\ Tail(m) \in Seq(Job) /\ JobsOK(Tail(m))
         /\ InJobs(m) = JobEvents(Head(m)) \cup InJobs(Tail(m))
         /\ JobEvents(Head(m)) \cap InJobs(Tail(m)) = {}
<1>1. PICK j \in Job, t \in Seq(Job) : j = Head(m) /\ t = Tail(m)
  BY HeadTailProperties
<1>2. /\ Len(m) \in Nat \ {0} /\ DOMAIN m = 1..Len(m) /\ DOMAIN t = 1..(Len(m) - 1)
      /\ \A i \in 1..(Len(m) - 1) : t[i] = m[i + 1]
  BY <1>1, HeadTailProperties, LenProperties, EmptySeq
<1>3. 1 \in DOMAIN m /\ j = m[1]
  BY <1>1, <1>2
<1>4. ASSUME NEW i \in DOMAIN t PROVE i \in Nat /\ i + 1 \in DOMAIN m /\ i + 1 # 1 /\ t[i] = m[i + 1]
  BY <1>2
<1>5. ASSUME NEW i \in DOMAIN m, i # 1 PROVE i - 1 \in DOMAIN t /\ m[i] = t[i - 1]
  BY <1>2, <1>5
<1>6. JobOK(j) /\ \A i \in DOMAIN t : JobOK(t[i])
  BY <1>3, <1>4 DEF JobsOK
<1>7. ASSUME NEW i \in DOMAIN t PROVE JobEvents(j) \cap JobEvents(t[i]) = {}
  BY <1>3, <1>4 DEF JobsOK
<1>8. ASSUME NEW i \in DOMAIN t, NEW k \in DOMAIN t, i # k
      PROVE  JobEvents(t[i]) \cap JobEvents(t[k]) = {}
  <2>1. i + 1 # k + 1
    BY <1>4, <1>8
  <2>2. QED
    BY <1>4, <2>1 DEF JobsOK
<1>9. InJobs(m) = JobEvents(j) \cup InJobs(t)
  <2>1. InJobs(t) \subseteq InJobs(m)
    BY <1>4 DEF InJobs
  <2>2. JobEvents(j) \subseteq InJobs(m)
    BY <1>3 DEF InJobs
  <2>3. InJobs(m) \subseteq JobEvents(j) \cup InJobs(t)
    BY <1>3, <1>5 DEF InJobs
  <2>4. QED
    BY <2>1, <2>2, <2>3
<1>10. JobEvents(j) \cap InJobs(t) = {}
  BY <1>7 DEF InJobs
<1>11. QED
  BY <1>1, <1>6, <1>8, <1>9, <1>10 DEF JobsOK

\* Those that wait are released.
LEMMA JobsReleased ==
  ASSUME blocked \in Seq(Call), CallsOK(blocked)
  PROVE  Released \in Seq(Job) /\ JobsOK(Released) /\ InJobs(Released) = InCalls(blocked)
<1>1. PICK r : r = Released
  OBVIOUS
<1>2. DOMAIN blocked = 1..Len(blocked) /\ Len(blocked) \in Nat
      /\ \A i \in DOMAIN blocked : blocked[i] \in Call
  BY LenProperties
<1>3. DOMAIN r = DOMAIN blocked
  BY <1>1 DEF Released
<1>4. ASSUME NEW i \in DOMAIN blocked
      PROVE  /\ r[i] \in Job /\ r[i].then = "enqueue" /\ r[i].call = blocked[i]
             /\ JobEvents(r[i]) = CallEvents(blocked[i])
  <2>1. r[i] = [call |-> blocked[i], hops |-> 1, then |-> "enqueue"]
    BY <1>1 DEF Released, Continuation
  <2>2. r[i].then = "enqueue" /\ r[i].call = blocked[i]
    BY <2>1
  <2>3. r[i] \in Job
    BY <1>2, <2>1 DEF Job
  <2>4. QED
    BY <2>2, <2>3 DEF JobEvents
<1>5. r \in Seq(Job)
  <2>1. r = [i \in 1..Len(blocked) |-> r[i]]
    BY <1>1, <1>2 DEF Released
  <2>2. QED
    BY <1>2, <1>4, <2>1
<1>6. ASSUME NEW i \in DOMAIN blocked PROVE JobOK(r[i])
  BY <1>4 DEF JobOK, CallsOK, CallOK
<1>7. JobsOK(r)
  BY <1>3, <1>4, <1>6 DEF JobsOK, CallsOK
<1>8. InJobs(r) = InCalls(blocked)
  BY <1>3, <1>4 DEF InJobs, InCalls
<1>9. QED
  BY <1>1, <1>5, <1>7, <1>8

\* What a call of enqueue goes on with.
LEMMA JobsReturn ==
  ASSUME NEW c \in Call, CallOK(c)
  PROVE  Return(c) \in Seq(Job) /\ JobsOK(Return(c)) /\ InJobs(Return(c)) = ToSet(c.rest)
<1>1. CASE c.then = "nothing"
  <2>1. Return(c) = <<>> /\ c.rest = <<>>
    BY <1>1 DEF Return, CallOK
  <2>2. QED
    BY <2>1, NoJobs, SetOfNone
<1>2. CASE c.then # "nothing"
  <2>1. PICK j : j = Continuation(c, c.hops, c.then)
    OBVIOUS
  <2>2. j = [call |-> c, hops |-> c.hops, then |-> c.then]
    BY <2>1 DEF Continuation
  <2>3. j.then = c.then /\ j.call = c /\ c.then \in {"flush", "message", "event"}
        /\ c.hops \in Nat \ {0}
    BY <1>2, <2>2, CallEventsAreEvents DEF CallOK
  <2>4. j \in Job
    BY <2>2, <2>3 DEF Job
  <2>5. JobOK(j) /\ JobEvents(j) = ToSet(c.rest)
    BY <2>3 DEF JobOK, CallOK, JobEvents
  <2>6. Return(c) = <<j>>
    BY <1>2, <2>1 DEF Return
  <2>7. QED
    BY <2>4, <2>5, <2>6, OneJob
<1>3. QED
  BY <1>1, <1>2

-----------------------------------------------------------------------------
(* The drain loop.                                                         *)

\* The events that are queued, with those of the request in flight.
Queued == batch \o pending

\* The queue is well formed: a drain runs when it must, a request has events
\* that can be serialized, and no event is queued twice.
QueueOK ==
  /\ pending \in Seq(Events) /\ batch \in Seq(Events) /\ Len(batch) <= config.batch
  /\ drain \in {"idle", "send", "sleep"}
  /\ drain = "send" <=> batch # <<>>
  /\ DrainRuns
  /\ arrived \in BOOLEAN
  /\ arrived => ToSet(batch) \subseteq ToSet(received)
  /\ Distinct(Queued)
  /\ ToSet(batch) \cap config.bad = {}

\* After a step in which s was to be queued and gone were given up, each event
\* of s is queued, in the order of s, or given up because it cannot be
\* serialized; flushes return only when nothing is queued.
Handled(s, gone) ==
  /\ QueueOK'
  /\ ToSet(Queued') \subseteq ToSet(s)
  /\ ToSet(Queued') \cup lost' = ToSet(s) \cup lost \cup gone
  /\ lost' \subseteq lost \cup gone \cup config.bad
  /\ flushers' = flushers \/ (flushers' = {} /\ Queued' = <<>>)
  /\ \A S : Dropping(Queued', config.bad \cup S) = Dropping(s, config.bad \cup S)

\* The fields of a configuration.
LEMMA ConfigIsConfig ==
  ASSUME config \in Configs
  PROVE  /\ config.batch \in Nat \ {0} /\ config.queue \in Nat \ {0} /\ config.retries \in Nat
         /\ config.bad \subseteq Events
         /\ config.measured \in BOOLEAN
         /\ ~config.measured => config.bad = {}
<1>1. config \in Config
  BY ConstantsAssumption
<1>2. /\ config.batch \in Nat \ {0} /\ config.queue \in Nat \ {0} /\ config.retries \in Nat
      /\ config.bad \subseteq Events
  BY <1>1 DEF Config
<1>3. config.measured \in BOOLEAN
  BY <1>1, Zenon DEF Config
<1>4. ~config.measured => config.bad = {}
  BY ConstantsAssumption
<1>5. QED
  BY <1>2, <1>3, <1>4

\* takeBatch leaves out the events that cannot be serialized, in their order.
LEMMA SendableIs ==
  ASSUME NEW s \in Seq(Events)
  PROVE  /\ Sendable(s) \in Seq(Events) /\ ToSet(Sendable(s)) = ToSet(s) \ config.bad
         /\ Distinct(s) => Distinct(Sendable(s))
         /\ \A S : Dropping(Sendable(s), config.bad \cup S) = Dropping(s, config.bad \cup S)
<1>1. /\ Sendable(s) \in Seq(Events) /\ ToSet(Sendable(s)) = ToSet(s) \ config.bad
      /\ Distinct(s) => Distinct(Sendable(s))
  BY SetOfDropping DEF Sendable
<1>2. ASSUME NEW S
      PROVE  Dropping(Sendable(s), config.bad \cup S) = Dropping(s, config.bad \cup S)
  <2>1. Dropping(Dropping(s, config.bad), config.bad \cup S)
          = Dropping(s, config.bad \cup (config.bad \cup S))
    BY DroppingTwice
  <2>2. config.bad \cup (config.bad \cup S) = config.bad \cup S
    OBVIOUS
  <2>3. QED
    BY <2>1, <2>2 DEF Sendable
<1>3. QED
  BY <1>1, <1>2

\* A batch is not too large, and only the last events can all be bad.
LEMMA TakesIs ==
  ASSUME config \in Configs, NEW p \in Seq(Events), p # <<>>, NEW m \in Takes(p)
  PROVE  /\ m \in 1..Len(p)
         /\ Len(Sendable(SubSeq(p, 1, m))) <= config.batch
         /\ Sendable(SubSeq(p, 1, m)) = <<>> => m = Len(p)
<1>1. Len(p) \in Nat \ {0} /\ config.batch \in Nat \ {0}
  BY ConfigIsConfig, LenProperties, EmptySeq
<1>2. CASE ~config.measured
  <2>1. m = IF Len(p) < config.batch THEN Len(p) ELSE config.batch
    BY <1>2 DEF Takes
  <2>2. m \in 1..Len(p) /\ m <= config.batch /\ m \in 0..Len(p)
    BY <1>1, <2>1
  <2>3. PICK t \in Seq(Events) : t = SubSeq(p, 1, m) /\ Len(t) = m
    BY <2>2, SetOfSplit
  <2>4. Dropping(t, {}) = t
    BY DroppingNothing
  <2>5. Sendable(t) = t
    BY <1>2, <2>4, ConfigIsConfig DEF Sendable
  <2>6. t # <<>>
    BY <2>2, <2>3, EmptySeq
  <2>7. QED
    BY <2>2, <2>3, <2>5, <2>6
<1>3. CASE config.measured
  <2> DEFINE n == Len(Sendable(SubSeq(p, 1, m)))
  <2>1. /\ m \in 1..Len(p)
        /\ \/ n = config.batch
           \/ n \in 1..(config.batch - 1)
           \/ n = 0 /\ m = Len(p)
    BY <1>3 DEF Takes
  <2>2. n <= config.batch
    BY <1>1, <2>1
  <2>3. Sendable(SubSeq(p, 1, m)) = <<>> => n = 0
    BY EmptySeq
  <2>4. n = 0 => m = Len(p)
    BY <1>1, <2>1
  <2>5. QED
    BY <2>1, <2>2, <2>3, <2>4
<1>4. QED
  BY <1>2, <1>3

\* A pass of drain's loop accounts for the events it finds pending.
LEMMA LoopStep ==
  ASSUME config \in Configs, UNCHANGED <<config, closed, received>>,
         NEW p \in Seq(Events), Distinct(p), NEW gone, Loop(p, gone)
  PROVE  Handled(p, gone)
<1>1. arrived' = FALSE
  BY DEF Loop
<1>2. <<>> \o p = p
  BY ConcatEmptySeq
<1>3. CASE p = <<>> \/ closed
  <2>1. /\ pending' = p /\ batch' = <<>> /\ drain' = "idle"
        /\ flushers' = IF p = <<>> THEN {} ELSE flushers
        /\ lost' = lost \cup gone
    BY <1>3 DEF Loop, Exit
  <2>2. Queued' = p
    BY <1>2, <2>1 DEF Queued
  <2>3. QueueOK'
    <3>1. batch' \in Seq(Events) /\ Len(batch') <= config'.batch
      BY <2>1, ConfigIsConfig, EmptySeq
    <3>2. DrainRuns'
      BY <1>3, <2>1 DEF DrainRuns
    <3>3. ToSet(batch') = {}
      BY <2>1, SetOfNone
    <3>4. Distinct(Queued')
      BY <2>2
    <3>5. QED
      BY <1>1, <2>1, <3>1, <3>2, <3>3, <3>4 DEF QueueOK
  <2>4. QED
    BY <2>1, <2>2, <2>3 DEF Handled
<1>4. CASE ~ (p = <<>> \/ closed)
  <2>1. PICK m \in Takes(p) :
          /\ lost' = lost \cup gone \cup (ToSet(SubSeq(p, 1, m)) \ ToSet(Sendable(SubSeq(p, 1, m))))
          /\ IF Sendable(SubSeq(p, 1, m)) = <<>>
             THEN Exit(SubSeq(p, m + 1, Len(p)))
             ELSE /\ pending' = SubSeq(p, m + 1, Len(p))
                  /\ batch' = Sendable(SubSeq(p, 1, m)) /\ drain' = "send"
                  /\ UNCHANGED flushers
    BY <1>4 DEF Loop
  <2>2. /\ m \in 1..Len(p) /\ Len(Sendable(SubSeq(p, 1, m))) <= config.batch
        /\ Sendable(SubSeq(p, 1, m)) = <<>> => m = Len(p)
    BY <1>4, TakesIs
  <2>3. m \in 0..Len(p) /\ Len(p) \in Nat
    BY <2>2, LenProperties
  <2>4. PICK t \in Seq(Events), r \in Seq(Events) :
          t = SubSeq(p, 1, m) /\ r = SubSeq(p, m + 1, Len(p)) /\ p = t \o r
    <3>1. /\ SubSeq(p, 1, m) \in Seq(Events) /\ SubSeq(p, m + 1, Len(p)) \in Seq(Events)
          /\ p = SubSeq(p, 1, m) \o SubSeq(p, m + 1, Len(p))
      BY <2>3, SetOfSplit
    <3>2. QED
      BY <3>1
  <2>5. PICK s \in Seq(Events) : s = Sendable(t)
    BY SendableIs
  <2>6. /\ ToSet(s) = ToSet(t) \ config.bad /\ (Distinct(t) => Distinct(s))
        /\ \A S : Dropping(s, config.bad \cup S) = Dropping(t, config.bad \cup S)
    BY <2>5, SendableIs
  <2>7. s = <<>> => r = <<>>
    <3>1. SUFFICES ASSUME m = Len(p) PROVE r = <<>>
      BY <2>2, <2>4, <2>5
    <3>2. m + 1 \in Int /\ Len(p) \in Int /\ Len(p) < m + 1
      BY <2>3, <3>1
    <3>3. QED
      BY <2>4, <3>2, SubSeqEmpty
  <2>8. lost' = lost \cup gone \cup (ToSet(t) \ ToSet(s))
    BY <2>1, <2>4, <2>5
  <2>9. pending' = r /\ batch' = s
    BY <2>1, <2>4, <2>5, <2>7 DEF Exit
  <2>10. /\ drain' = IF s = <<>> THEN "idle" ELSE "send"
         /\ flushers' = IF s = <<>> THEN {} ELSE flushers
    BY <2>1, <2>4, <2>5, <2>7 DEF Exit
  <2>11. Distinct(t) /\ Distinct(r) /\ ToSet(t) \cap ToSet(r) = {}
    <3>1. Distinct(t \o r) <=> Distinct(t) /\ Distinct(r) /\ ToSet(t) \cap ToSet(r) = {}
      BY DistinctConcat
    <3>2. QED
      BY <2>4, <3>1
  <2>12. Queued' = s \o r
    BY <2>9 DEF Queued
  <2>13. ToSet(s \o r) = ToSet(s) \cup ToSet(r) /\ ToSet(p) = ToSet(t) \cup ToSet(r)
    <3>1. ToSet(t \o r) = ToSet(t) \cup ToSet(r)
      BY SetOfConcat
    <3>2. ToSet(s \o r) = ToSet(s) \cup ToSet(r)
      BY SetOfConcat
    <3>3. QED
      BY <2>4, <3>1, <3>2
  <2>14. Distinct(s \o r)
    BY <2>6, <2>11, DistinctConcat
  <2>15. ASSUME NEW S
         PROVE  Dropping(s \o r, config.bad \cup S) = Dropping(p, config.bad \cup S)
    <3>1. PICK B : B = config.bad \cup S
      OBVIOUS
    <3>2. Dropping(s, B) = Dropping(t, B)
      BY <2>6, <3>1
    <3>3. Dropping(s \o r, B) = Dropping(s, B) \o Dropping(r, B)
      BY DroppingConcat
    <3>4. Dropping(t \o r, B) = Dropping(t, B) \o Dropping(r, B)
      BY DroppingConcat
    <3>5. QED
      BY <2>4, <3>1, <3>2, <3>3, <3>4
  <2>16. s = <<>> => s \o r = <<>>
    BY <2>7, ConcatEmptySeq
  <2>17. QueueOK'
    <3>1. pending' \in Seq(Events) /\ batch' \in Seq(Events) /\ Len(batch') <= config'.batch
      BY <2>2, <2>4, <2>5, <2>9
    <3>2. drain' \in {"idle", "send", "sleep"} /\ (drain' = "send" <=> batch' # <<>>)
      BY <2>9, <2>10
    <3>3. DrainRuns'
      BY <2>7, <2>9, <2>10 DEF DrainRuns
    <3>4. Distinct(Queued')
      BY <2>12, <2>14
    <3>5. ToSet(batch') \cap config'.bad = {}
      BY <2>6, <2>9
    <3>6. QED
      BY <1>1, <3>1, <3>2, <3>3, <3>4, <3>5 DEF QueueOK
  <2>18. /\ ToSet(Queued') \subseteq ToSet(p)
         /\ ToSet(Queued') \cup lost' = ToSet(p) \cup lost \cup gone
         /\ lost' \subseteq lost \cup gone \cup config.bad
    BY <2>6, <2>8, <2>12, <2>13
  <2>19. flushers' = flushers \/ (flushers' = {} /\ Queued' = <<>>)
    BY <2>10, <2>12, <2>16
  <2>20. QED
    BY <2>12, <2>15, <2>17, <2>18, <2>19 DEF Handled
<1>5. QED
  BY <1>3, <1>4

-----------------------------------------------------------------------------
(* What the uploader's own steps keep.                                     *)
AreApart(A, B, C) == A \cap B = {} /\ A \cap C = {} /\ B \cap C = {}

\* m is what the queue of continuations holds.
CarriedOK(m) ==
  /\ blocked \in Seq(Call) /\ CallsOK(blocked)
  /\ m \in Seq(Job) /\ JobsOK(m)
  /\ AreApart(ToSet(Queued), InCalls(blocked), InJobs(m))

FlowOf(m) == ToSet(Queued) \cup InCalls(blocked) \cup InJobs(m)

\* What a flush waits for is queued, came out, or was given up.
FlushersOK ==
  /\ flushers \subseteq [by: Callers, owed: SUBSET Events]
  /\ \A f \in flushers : f.owed \subseteq ToSet(Queued) \cup ToSet(received) \cup lost

FailuresOK == failures \in Nat /\ (failures = 0 \/ failures < config.retries)

OutcomeOK == closed \in BOOLEAN /\ received \in Seq(Events) /\ lost \subseteq Events

CoreOK(m) ==
  config \in Configs /\ QueueOK /\ CarriedOK(m) /\ FlushersOK /\ FailuresOK /\ OutcomeOK

ReturnsWhenSent ==
  \A f \in flushers \ flushers' : closed' \/ f.owed \subseteq ToSet(received') \cup lost'

\* What the two ends of the upload see of the queue.
Chan == Dropping(Queued, config.bad \cup ToSet(received))

\* A step that queues nothing new: nothing happens, events at the front come
\* out, or events are given up.
LineStep ==
  \/ Chan' = Chan /\ received' = received
  \/ \E n \in 1..Len(Chan) : /\ received' = received \o SubSeq(Chan, 1, n)
                             /\ Chan' = SubSeq(Chan, n + 1, Len(Chan))
  \/ \E given \in SUBSET ToSet(Chan) : Chan' = Dropping(Chan, given) /\ received' = received

\* Any step: or events are queued behind the others.
ChannelStep ==
  LineStep \/ \E t \in Seq(Events) : Chan' = Chan \o t /\ received' = received

StepOK == ReturnsWhenSent /\ ChannelStep

\* A step keeps all this, and of the events it starts from all are on their
\* way still, came out, or were given up: for a reason, or as they are due.
Moved(all, due) ==
  /\ CoreOK(micro)'
  /\ FlowOf(micro)' \subseteq all
  /\ FlowOf(micro)' \cup ToSet(received') \cup lost' = all \cup ToSet(received) \cup lost
  /\ lost' \subseteq lost \cup config.bad \cup due
  /\ StepOK

\* The uploader's queue, batch first, holds every event once.
LEMMA QueuedIs ==
  ASSUME QueueOK
  PROVE  /\ Queued \in Seq(Events) /\ ToSet(Queued) = ToSet(batch) \cup ToSet(pending)
         /\ ToSet(Queued) \subseteq Events
         /\ pending \in Seq(Events) /\ batch \in Seq(Events)
         /\ Distinct(pending) /\ Distinct(batch) /\ ToSet(batch) \cap ToSet(pending) = {}
<1>1. pending \in Seq(Events) /\ batch \in Seq(Events) /\ Distinct(batch \o pending)
  BY DEF QueueOK, Queued
<1>2. Queued \in Seq(Events) /\ ToSet(Queued) = ToSet(batch) \cup ToSet(pending)
  BY <1>1, SetOfConcat DEF Queued
<1>3. Distinct(pending) /\ Distinct(batch) /\ ToSet(batch) \cap ToSet(pending) = {}
  BY <1>1, DistinctConcat
<1>4. QED
  BY <1>1, <1>2, <1>3, SetOfSeq

\* A step that leaves queue and deliveries alone is a stutter of the channel.
LEMMA StillChannel ==
  ASSUME UNCHANGED <<config, received>>, Queued' = Queued
  PROVE  LineStep /\ ChannelStep
  BY DEF LineStep, ChannelStep, Chan

\* Events are queued behind the others, and perhaps sent for the first time.
LEMMA QueuedChannel ==
  ASSUME QueueOK, UNCHANGED <<config, received>>, NEW items \in Seq(Events),
         Handled(Queued \o items, {})
  PROVE  /\ ChannelStep
         /\ Chan' = Chan \o Dropping(items, config.bad \cup ToSet(received))
<1>1. PICK S : S = config.bad \cup ToSet(received)
  OBVIOUS
<1>2. Dropping(Queued', S) = Dropping(Queued \o items, S)
  BY <1>1 DEF Handled
<1>3. Queued \in Seq(Events)
  BY QueuedIs
<1>4. Dropping(Queued \o items, S) = Dropping(Queued, S) \o Dropping(items, S)
  BY <1>3, DroppingConcat
<1>5. Chan' = Dropping(Queued', S) /\ Chan = Dropping(Queued, S)
  BY <1>1 DEF Chan
<1>6. PICK t \in Seq(Events) : t = Dropping(items, S)
  BY SetOfDropping
<1>7. QED
  BY <1>1, <1>2, <1>4, <1>5, <1>6 DEF ChannelStep

\* Dropping one of two disjoint halves leaves the other.
LEMMA DropOne ==
  ASSUME NEW s \in Seq(Events), NEW t \in Seq(Events), ToSet(s) \cap ToSet(t) = {}
  PROVE  Dropping(s \o t, ToSet(s)) = t /\ Dropping(s \o t, ToSet(t)) = s
<1>1. ASSUME NEW S PROVE Dropping(s \o t, S) = Dropping(s, S) \o Dropping(t, S)
  BY DroppingConcat
<1>2. PICK S, T : S = ToSet(s) /\ T = ToSet(t)
  OBVIOUS
<1>3. /\ \A i \in DOMAIN s : s[i] \in S /\ s[i] \notin T
      /\ \A i \in DOMAIN t : t[i] \in T /\ t[i] \notin S
  BY <1>2 DEF ToSet
<1>4. Dropping(s, S) = <<>> /\ Dropping(t, T) = <<>>
  BY <1>3, DroppingAll
<1>5. Dropping(s, T) = s /\ Dropping(t, S) = t
  BY <1>3, DroppingNothing
<1>6. <<>> \o t = t /\ s \o <<>> = s
  BY ConcatEmptySeq
<1>7. Dropping(s \o t, S) = t /\ Dropping(s \o t, T) = s
  BY <1>1, <1>4, <1>5, <1>6
<1>8. QED
  BY <1>2, <1>7

\* A filter of the queue filters batch and pending.
LEMMA QueuedDropping ==
  ASSUME QueueOK
  PROVE  \A S : Dropping(Queued, S) = Dropping(batch, S) \o Dropping(pending, S)
  BY QueuedIs, DroppingConcat DEF Queued

\* What is on its way is what is left of the batch and then of what is pending.
LEMMA ChanIs ==
  ASSUME QueueOK
  PROVE  \E b, p \in Seq(Events) :
           /\ b = Dropping(batch, config.bad \cup ToSet(received))
           /\ p = Dropping(pending, config.bad \cup ToSet(received))
           /\ Chan = b \o p /\ ToSet(b) \cap ToSet(p) = {}
           /\ ToSet(b) = ToSet(batch) \ ToSet(received)
           /\ ToSet(p) \subseteq ToSet(pending)
           /\ b = Dropping(batch, ToSet(received))
           /\ Chan \in Seq(Events) /\ ToSet(Chan) = ToSet(b) \cup ToSet(p)
<1>1. PICK S : S = config.bad \cup ToSet(received)
  OBVIOUS
<1>2. /\ batch \in Seq(Events) /\ pending \in Seq(Events)
      /\ ToSet(batch) \cap ToSet(pending) = {} /\ ToSet(batch) \cap config.bad = {}
  BY QueuedIs DEF QueueOK
<1>3. PICK b \in Seq(Events) : b = Dropping(batch, S) /\ ToSet(b) = ToSet(batch) \ S
  BY <1>2, SetOfDropping
<1>4. PICK p \in Seq(Events) : p = Dropping(pending, S) /\ ToSet(p) = ToSet(pending) \ S
  BY <1>2, SetOfDropping
<1>5. Chan = b \o p
  <2>1. Dropping(Queued, S) = Dropping(batch, S) \o Dropping(pending, S)
    BY QueuedDropping
  <2>2. QED
    BY <1>1, <1>3, <1>4, <2>1 DEF Chan
<1>6. b = Dropping(batch, ToSet(received))
  <2>1. \A i \in DOMAIN batch : batch[i] \notin config.bad
    BY <1>2 DEF ToSet
  <2>2. Dropping(batch, config.bad) = batch
    BY <1>2, <2>1, DroppingNothing
  <2>3. Dropping(Dropping(batch, config.bad), ToSet(received)) = Dropping(batch, S)
    BY <1>1, <1>2, DroppingTwice
  <2>4. QED
    BY <1>3, <2>2, <2>3
<1>7. /\ ToSet(b) = ToSet(batch) \ ToSet(received) /\ ToSet(p) \subseteq ToSet(pending)
      /\ ToSet(b) \cap ToSet(p) = {}
  BY <1>1, <1>2, <1>3, <1>4
<1>8. b \o p \in Seq(Events) /\ ToSet(b \o p) = ToSet(b) \cup ToSet(p)
  BY SetOfConcat
<1>9. QED
  BY <1>1, <1>3, <1>4, <1>5, <1>6, <1>7, <1>8

\* The batch is done with: what the server does not have of it is given up.
LEMMA DoneChannel ==
  ASSUME QueueOK, UNCHANGED <<config, received>>, NEW gone, Handled(pending, gone)
  PROVE  LineStep /\ ChannelStep
<1>1. PICK b, p \in Seq(Events) :
        /\ p = Dropping(pending, config.bad \cup ToSet(received))
        /\ Chan = b \o p /\ ToSet(b) \cap ToSet(p) = {}
        /\ ToSet(Chan) = ToSet(b) \cup ToSet(p)
  BY ChanIs
<1>2. Chan' = p
  BY <1>1 DEF Chan, Handled
<1>3. Dropping(b \o p, ToSet(b)) = p
  BY <1>1, DropOne
<1>4. PICK given \in SUBSET ToSet(Chan) : given = ToSet(b)
  BY <1>1
<1>5. Chan' = Dropping(Chan, given)
  BY <1>1, <1>2, <1>3, <1>4
<1>6. QED
  BY <1>5 DEF LineStep, ChannelStep

\* What is pending is given up.
LEMMA CloseChannel ==
  ASSUME QueueOK, UNCHANGED <<config, received>>, Queued' = batch
  PROVE  LineStep /\ ChannelStep
<1>1. PICK b, p \in Seq(Events) :
        /\ b = Dropping(batch, config.bad \cup ToSet(received))
        /\ Chan = b \o p /\ ToSet(b) \cap ToSet(p) = {}
        /\ ToSet(Chan) = ToSet(b) \cup ToSet(p)
  BY ChanIs
<1>2. Chan' = b
  BY <1>1 DEF Chan
<1>3. Dropping(b \o p, ToSet(p)) = b
  BY <1>1, DropOne
<1>4. PICK given \in SUBSET ToSet(Chan) : given = ToSet(p)
  BY <1>1
<1>5. Chan' = Dropping(Chan, given)
  BY <1>1, <1>2, <1>3, <1>4
<1>6. QED
  BY <1>5 DEF LineStep, ChannelStep

\* The first part of a concatenation can be cut off again.
LEMMA ConcatParts ==
  ASSUME NEW X, NEW s \in Seq(X), NEW t \in Seq(X), s # <<>>
  PROVE  /\ Len(s) \in 1..Len(s \o t) /\ SubSeq(s \o t, 1, Len(s)) = s
         /\ SubSeq(s \o t, Len(s) + 1, Len(s \o t)) = t
<1>1. /\ Len(s) \in Nat \ {0} /\ Len(t) \in Nat /\ Len(s \o t) = Len(s) + Len(t)
      /\ s \o t \in Seq(X)
  BY ConcatProperties, LenProperties, EmptySeq
<1>2. SubSeq(s \o t, 1, Len(s)) = s
  <2>1. 1 \in 1..Len(s) /\ Len(s) \in 1..Len(s)
    BY <1>1
  <2>2. SubSeq(s \o t, 1, Len(s)) = SubSeq(s, 1, Len(s))
    BY <2>1, SubSeqOfConcat1
  <2>3. QED
    BY <2>2, SubSeqFull
<1>3. SubSeq(s \o t, Len(s) + 1, Len(s) + Len(t)) = t
  <2>1. CASE t = <<>>
    <3>1. Len(t) = 0
      BY <2>1, EmptySeq
    <3>2. Len(s) + 1 \in Int /\ Len(s) + Len(t) \in Int /\ Len(s) + Len(t) < Len(s) + 1
      BY <1>1, <3>1
    <3>3. QED
      BY <2>1, <3>2, SubSeqEmpty
  <2>2. CASE t # <<>>
    <3>1. Len(t) \in Nat \ {0}
      BY <2>2, EmptySeq
    <3>2. /\ Len(s) + 1 \in Len(s) + 1 .. Len(s) + Len(t)
          /\ Len(s) + Len(t) \in Len(s) + 1 .. Len(s) + Len(t)
          /\ Len(s) + 1 - Len(s) = 1 /\ Len(s) + Len(t) - Len(s) = Len(t)
      BY <1>1, <3>1
    <3>3. SubSeq(s \o t, Len(s) + 1, Len(s) + Len(t))
            = SubSeq(t, Len(s) + 1 - Len(s), Len(s) + Len(t) - Len(s))
      BY <3>2, SubSeqOfConcat2
    <3>4. QED
      BY <3>2, <3>3, SubSeqFull
  <2>3. QED
    BY <2>1, <2>2
<1>4. QED
  BY <1>1, <1>2, <1>3

\* The server takes what it does not have of the batch.
LEMMA ArriveChannel ==
  ASSUME QueueOK, UNCHANGED config, Queued' = Queued, received \in Seq(Events),
         received' = received \o Dropping(batch, ToSet(received))
  PROVE  LineStep /\ ChannelStep
<1>1. PICK b, p \in Seq(Events) :
        /\ p = Dropping(pending, config.bad \cup ToSet(received))
        /\ Chan = b \o p /\ ToSet(b) \cap ToSet(p) = {}
        /\ ToSet(b) = ToSet(batch) \ ToSet(received)
        /\ ToSet(p) \subseteq ToSet(pending)
        /\ b = Dropping(batch, ToSet(received))
  BY ChanIs
<1>2. /\ batch \in Seq(Events) /\ pending \in Seq(Events)
      /\ ToSet(batch) \cap ToSet(pending) = {}
  BY QueuedIs
<1>3. PICK S, T, R, B : /\ S = config.bad \cup ToSet(received) /\ T = config.bad \cup ToSet(received')
                        /\ R = ToSet(received) /\ B = ToSet(batch)
  OBVIOUS
<1>4. ToSet(received') = R \cup ToSet(b)
  BY <1>1, <1>3, SetOfConcat
<1>5. T = S \cup B
  BY <1>1, <1>3, <1>4
<1>6. Chan' = p
  <2>1. Chan' = Dropping(Queued, T)
    BY <1>3 DEF Chan
  <2>2. Dropping(Queued, T) = Dropping(batch, T) \o Dropping(pending, T)
    BY QueuedDropping
  <2>3. Dropping(batch, T) = <<>>
    <3>1. \A i \in DOMAIN batch : batch[i] \in T
      BY <1>3, <1>5 DEF ToSet
    <3>2. QED
      BY <1>2, <3>1, DroppingAll
  <2>4. Dropping(Dropping(pending, S), B) = Dropping(pending, T)
    BY <1>2, <1>5, DroppingTwice
  <2>5. Dropping(p, B) = p
    <3>1. \A i \in DOMAIN p : p[i] \notin B
      BY <1>1, <1>2, <1>3 DEF ToSet
    <3>2. QED
      BY <3>1, DroppingNothing
  <2>6. Dropping(pending, T) = p
    BY <1>1, <1>3, <2>4, <2>5
  <2>7. QED
    BY <2>1, <2>2, <2>3, <2>6, ConcatEmptySeq
<1>7. received' = received \o b
  BY <1>1
<1>8. CASE b = <<>>
  <2>1. Chan = p /\ received' = received
    BY <1>1, <1>7, <1>8, ConcatEmptySeq
  <2>2. QED
    BY <1>6, <2>1 DEF LineStep, ChannelStep
<1>9. CASE b # <<>>
  <2>1. PICK c, n : c = b \o p /\ n = Len(b)
    OBVIOUS
  <2>2. n \in 1..Len(c) /\ SubSeq(c, 1, n) = b /\ SubSeq(c, n + 1, Len(c)) = p
    BY <1>9, <2>1, ConcatParts
  <2>3. n \in 1..Len(Chan) /\ received' = received \o SubSeq(Chan, 1, n)
        /\ Chan' = SubSeq(Chan, n + 1, Len(Chan))
    BY <1>1, <1>6, <1>7, <2>1, <2>2
  <2>4. QED
    BY <2>3 DEF LineStep, ChannelStep
<1>10. QED
  BY <1>8, <1>9

\* What a flush waits for is delivered or given up when drain takes it off its list.
LEMMA FlushersStep ==
  ASSUME FlushersOK, OutcomeOK, config \in Configs, UNCHANGED <<config, closed, received>>,
         NEW s, NEW gone, Handled(s, gone),
         ToSet(s) \subseteq Events, gone \subseteq Events,
         ToSet(Queued) \subseteq ToSet(s) \cup gone \cup ToSet(received)
  PROVE  FlushersOK' /\ OutcomeOK' /\ ReturnsWhenSent
<1>1. PICK q : q = ToSet(Queued')
  OBVIOUS
<1>2. /\ q \cup lost' = ToSet(s) \cup lost \cup gone
      /\ lost' \subseteq lost \cup gone \cup config.bad
      /\ flushers' = flushers \/ (flushers' = {} /\ q = {})
  BY <1>1, SetOfNone DEF Handled
<1>3. ToSet(Queued) \cup ToSet(received) \cup lost \subseteq q \cup ToSet(received) \cup lost'
  BY <1>2
<1>4. ASSUME NEW f \in flushers
      PROVE  f.owed \subseteq q \cup ToSet(received) \cup lost'
  BY <1>3 DEF FlushersOK
<1>5. FlushersOK'
  BY <1>1, <1>2, <1>4 DEF FlushersOK
<1>6. ReturnsWhenSent
  BY <1>2, <1>4 DEF ReturnsWhenSent
<1>7. lost' \subseteq Events
  BY <1>2, ConfigIsConfig DEF OutcomeOK
<1>8. QED
  BY <1>5, <1>6, <1>7 DEF OutcomeOK

\* Adding events and starting drain accounts for all of them.
LEMMA KickStep ==
  ASSUME config \in Configs, QueueOK, FailuresOK, UNCHANGED <<config, closed, received>>,
         NEW items \in Seq(Events), Distinct(Queued \o items), Kick(pending \o items)
  PROVE  Handled(Queued \o items, {}) /\ FailuresOK'
<1>1. PICK p \in Seq(Events) : p = pending \o items
  BY QueuedIs, ConcatProperties
<1>2. Queued \o items = batch \o p
  BY <1>1, QueuedIs, ConcatAssociative DEF Queued
<1>3. CASE drain = "idle"
  <2>1. batch = <<>> /\ Loop(p, {}) /\ failures' = 0
    BY <1>1, <1>3 DEF Kick, QueueOK
  <2>2. Queued \o items = p
    BY <1>2, <2>1, ConcatEmptySeq
  <2>3. Handled(p, {})
    BY <2>1, <2>2, LoopStep
  <2>4. QED
    BY <2>1, <2>2, <2>3 DEF FailuresOK
<1>4. CASE drain # "idle"
  <2>1. pending' = p /\ UNCHANGED <<batch, drain, failures, flushers, arrived, lost>>
    BY <1>1, <1>4 DEF Kick
  <2>2. Queued' = Queued \o items
    BY <1>2, <2>1 DEF Queued
  <2>3. QueueOK'
    BY <1>4, <2>1, <2>2 DEF QueueOK, DrainRuns
  <2>4. FailuresOK'
    BY <2>1 DEF FailuresOK
  <2>5. QED
    BY <2>1, <2>2, <2>3, <2>4 DEF Handled
<1>5. QED
  BY <1>3, <1>4

\* enqueue: the events of the call are queued, wait, or are dropped by an
\* uploader that is closed.
LEMMA EnqueueStep ==
  ASSUME NEW m, CoreOK(m), NEW call \in Call, CallOK(call),
         CallEvents(call) \cap FlowOf(m) = {}, Enqueue(call, m)
  PROVE  Moved(FlowOf(m) \cup CallEvents(call), IF closed THEN ToSet(call.items) ELSE {})
<1>1. PICK Q, C, J, I, R :
        /\ Q = ToSet(Queued) /\ C = InCalls(blocked) /\ J = InJobs(m)
        /\ I = ToSet(call.items) /\ R = ToSet(call.rest)
  OBVIOUS
<1>2. /\ AreApart(Q, C, J) /\ FlowOf(m) = Q \cup C \cup J
      /\ CallEvents(call) = I \cup R /\ I \cap R = {} /\ (I \cup R) \cap (Q \cup C \cup J) = {}
  BY <1>1 DEF CoreOK, CarriedOK, FlowOf, CallEvents, CallOK
<1>3. /\ config \in Configs /\ QueueOK /\ FlushersOK /\ FailuresOK /\ OutcomeOK
      /\ blocked \in Seq(Call) /\ CallsOK(blocked) /\ m \in Seq(Job) /\ JobsOK(m)
  BY DEF CoreOK, CarriedOK
<1>4. UNCHANGED <<config, closed, received>>
  BY DEF Enqueue
<1>5. call.items \in Seq(Events) /\ I \subseteq Events /\ R \subseteq Events
  BY <1>1, CallEventsAreEvents, SetOfSeq
<1>6. /\ m \o Return(call) \in Seq(Job) /\ JobsOK(m \o Return(call))
      /\ InJobs(m \o Return(call)) = J \cup R
  <2>1. PICK r \in Seq(Job) : r = Return(call) /\ JobsOK(r) /\ InJobs(r) = R
    BY <1>1, JobsReturn
  <2>2. InJobs(m) \cap InJobs(r) = {}
    BY <1>1, <1>2, <2>1
  <2>3. QED
    BY <1>1, <1>3, <2>1, <2>2, JobsConcat
<1>7. CASE call.items = <<>> \/ closed
  <2>1. /\ micro' = m \o Return(call) /\ lost' = lost \cup I
        /\ UNCHANGED <<pending, batch, drain, failures, blocked, flushers, arrived>>
    BY <1>1, <1>7 DEF Enqueue
  <2>2. Queued' = Queued
    BY <2>1 DEF Queued
  <2>3. QueueOK'
    BY <1>3, <1>4, <2>1, <2>2 DEF QueueOK, DrainRuns
  <2>4. InCalls(blocked)' = C /\ InJobs(micro)' = J \cup R /\ ToSet(Queued)' = Q
    BY <1>1, <1>6, <2>1, <2>2
  <2>5. CarriedOK(micro)'
    <3>1. blocked' \in Seq(Call) /\ CallsOK(blocked)'
      BY <1>3, <2>1
    <3>2. micro' \in Seq(Job) /\ JobsOK(micro)'
      BY <1>6, <2>1
    <3>3. AreApart(ToSet(Queued), InCalls(blocked), InJobs(micro))'
      BY <1>2, <2>4 DEF AreApart
    <3>4. QED
      BY <3>1, <3>2, <3>3 DEF CarriedOK
  <2>6. FlushersOK'
    BY <1>3, <1>4, <2>1, <2>2 DEF FlushersOK
  <2>7. FailuresOK' /\ OutcomeOK'
    BY <1>3, <1>4, <1>5, <2>1 DEF FailuresOK, OutcomeOK
  <2>8. FlowOf(micro)' = Q \cup C \cup J \cup R
    BY <2>4 DEF FlowOf
  <2>9. I = {} \/ closed
    BY <1>1, <1>7, SetOfNone
  <2>10. StepOK
    <3>1. ReturnsWhenSent
      BY <2>1 DEF ReturnsWhenSent
    <3>2. ChannelStep
      BY <1>4, <2>2, StillChannel
    <3>3. QED
      BY <3>1, <3>2 DEF StepOK
  <2>11. CoreOK(micro)'
    BY <1>3, <1>4, <2>3, <2>5, <2>6, <2>7 DEF CoreOK
  <2>12. /\ FlowOf(micro)' \subseteq FlowOf(m) \cup CallEvents(call)
         /\ FlowOf(micro)' \cup ToSet(received') \cup lost'
              = FlowOf(m) \cup CallEvents(call) \cup ToSet(received) \cup lost
    BY <1>2, <1>4, <2>1, <2>8
  <2>13. lost' \subseteq lost \cup config.bad \cup (IF closed THEN ToSet(call.items) ELSE {})
    BY <1>1, <2>1, <2>9
  <2>14. QED
    BY <2>10, <2>11, <2>12, <2>13 DEF Moved
<1>8. CASE ~ (call.items = <<>> \/ closed) /\ ~Fits(call.items)
  <2>1. /\ blocked' = Append(blocked, call) /\ micro' = m
        /\ UNCHANGED <<pending, batch, drain, failures, flushers, arrived, lost>>
    BY <1>8 DEF Enqueue
  <2>2. Queued' = Queued
    BY <2>1 DEF Queued
  <2>3. QueueOK'
    BY <1>3, <1>4, <2>1, <2>2 DEF QueueOK, DrainRuns
  <2>4. /\ blocked' \in Seq(Call) /\ CallsOK(blocked')
        /\ InCalls(blocked') = C \cup I \cup R
    <3>1. CallEvents(call) \cap InCalls(blocked) = {}
      BY <1>1, <1>2
    <3>2. QED
      BY <1>1, <1>2, <1>3, <2>1, <3>1, CallsAppend
  <2>5. InCalls(blocked)' = C \cup I \cup R /\ InJobs(micro)' = J /\ ToSet(Queued)' = Q
    BY <1>1, <2>1, <2>2, <2>4
  <2>6. CarriedOK(micro)'
    <3>1. AreApart(ToSet(Queued), InCalls(blocked), InJobs(micro))'
      BY <1>2, <2>5 DEF AreApart
    <3>2. QED
      BY <1>3, <2>1, <2>4, <3>1 DEF CarriedOK
  <2>7. FlushersOK' /\ FailuresOK' /\ OutcomeOK' /\ StepOK
    <3>1. FlushersOK'
      BY <1>3, <1>4, <2>1, <2>2 DEF FlushersOK
    <3>2. FailuresOK' /\ OutcomeOK'
      BY <1>3, <1>4, <2>1 DEF FailuresOK, OutcomeOK
    <3>3. StepOK
      <4>1. ReturnsWhenSent
        BY <2>1 DEF ReturnsWhenSent
      <4>2. ChannelStep
        BY <1>4, <2>2, StillChannel
      <4>3. QED
        BY <4>1, <4>2 DEF StepOK
    <3>4. QED
      BY <3>1, <3>2, <3>3
  <2>8. CoreOK(micro)'
    BY <1>3, <1>4, <2>3, <2>6, <2>7 DEF CoreOK
  <2>9. FlowOf(micro)' = Q \cup C \cup I \cup R \cup J
    BY <2>5 DEF FlowOf
  <2>10. /\ FlowOf(micro)' \subseteq FlowOf(m) \cup CallEvents(call)
         /\ FlowOf(micro)' \cup ToSet(received') \cup lost'
              = FlowOf(m) \cup CallEvents(call) \cup ToSet(received) \cup lost
    BY <1>2, <1>4, <2>1, <2>9
  <2>11. lost' \subseteq lost \cup config.bad \cup (IF closed THEN ToSet(call.items) ELSE {})
    BY <2>1
  <2>12. QED
    BY <2>7, <2>8, <2>10, <2>11 DEF Moved
<1>9. CASE ~ (call.items = <<>> \/ closed) /\ Fits(call.items)
  <2>1. /\ micro' = m \o Return(call) /\ Kick(pending \o call.items)
        /\ UNCHANGED blocked
    BY <1>9 DEF Enqueue
  <2>2. PICK s \in Seq(Events) : s = Queued \o call.items /\ ToSet(s) = Q \cup I
    <3>1. Queued \in Seq(Events)
      BY <1>3, QueuedIs
    <3>2. /\ Queued \o call.items \in Seq(Events)
          /\ ToSet(Queued \o call.items) = ToSet(Queued) \cup ToSet(call.items)
      BY <1>5, <3>1, SetOfConcat
    <3>3. QED
      BY <1>1, <3>2
  <2>3. Distinct(Queued \o call.items)
    <3>1. Distinct(Queued) /\ Distinct(call.items) /\ ToSet(Queued) \cap ToSet(call.items) = {}
      BY <1>1, <1>2, <1>3 DEF QueueOK, CallOK
    <3>2. QED
      BY <1>3, <1>5, <3>1, QueuedIs, DistinctConcat
  <2>4. Handled(s, {}) /\ FailuresOK'
    BY <1>3, <1>4, <1>5, <2>1, <2>2, <2>3, KickStep
  <2>5. FlushersOK' /\ OutcomeOK' /\ ReturnsWhenSent
    <3>1. ToSet(s) \subseteq Events /\ ToSet(Queued) \subseteq ToSet(s) \cup {} \cup ToSet(received)
      BY <1>1, <2>2, SetOfSeq
    <3>2. QED
      BY <1>3, <1>4, <2>4, <3>1, FlushersStep
  <2>6. PICK q : q = ToSet(Queued)'
    OBVIOUS
  <2>7. /\ q \subseteq Q \cup I /\ q \cup lost' = Q \cup I \cup lost
        /\ lost' \subseteq lost \cup config.bad
    BY <2>2, <2>4, <2>6 DEF Handled
  <2>8. InCalls(blocked)' = C /\ InJobs(micro)' = J \cup R
    BY <1>1, <1>6, <2>1
  <2>9. CarriedOK(micro)'
    <3>1. blocked' \in Seq(Call) /\ CallsOK(blocked)'
      BY <1>3, <2>1
    <3>2. micro' \in Seq(Job) /\ JobsOK(micro)'
      BY <1>6, <2>1
    <3>3. AreApart(ToSet(Queued), InCalls(blocked), InJobs(micro))'
      BY <1>2, <2>6, <2>7, <2>8 DEF AreApart
    <3>4. QED
      BY <3>1, <3>2, <3>3 DEF CarriedOK
  <2>10. QueueOK'
    BY <2>4 DEF Handled
  <2>11. CoreOK(micro)'
    BY <1>3, <1>4, <2>4, <2>5, <2>9, <2>10 DEF CoreOK
  <2>12. FlowOf(micro)' = q \cup C \cup J \cup R
    BY <2>6, <2>8 DEF FlowOf
  <2>13. /\ FlowOf(micro)' \subseteq FlowOf(m) \cup CallEvents(call)
         /\ FlowOf(micro)' \cup ToSet(received') \cup lost'
              = FlowOf(m) \cup CallEvents(call) \cup ToSet(received) \cup lost
    BY <1>2, <1>4, <2>7, <2>12
  <2>14. ChannelStep
    BY <1>3, <1>4, <1>5, <2>2, <2>4, QueuedChannel
  <2>15. QED
    BY <2>5, <2>7, <2>11, <2>13, <2>14 DEF Moved, StepOK
<1>10. QED
  BY <1>7, <1>8, <1>9

\* A flush that is called: it waits for what is queued.
LEMMA FlushStep ==
  ASSUME NEW m, CoreOK(m), NEW by \in Callers, Flush(by, m)
  PROVE  /\ Moved(FlowOf(m), {}) /\ UNCHANGED <<pending, batch, lost>>
         /\ \/ Queued = <<>>
            \/ \E f \in flushers' : f.by = by
<1>1. /\ config \in Configs /\ QueueOK /\ FlushersOK /\ FailuresOK /\ OutcomeOK
      /\ CarriedOK(m)
  BY DEF CoreOK
<1>2. /\ micro' = m
      /\ flushers' = IF pending = <<>> /\ drain = "idle" THEN flushers
                     ELSE flushers \cup {[by |-> by, owed |-> ToSet(pending) \cup ToSet(batch)]}
      /\ UNCHANGED <<config, pending, batch, drain, failures, closed, blocked, arrived, received,
                     lost>>
  BY DEF Flush, server
<1>3. Queued' = Queued
  BY <1>2 DEF Queued
<1>4. QueueOK'
  BY <1>1, <1>2, <1>3 DEF QueueOK, DrainRuns
<1>5. InCalls(blocked)' = InCalls(blocked) /\ InJobs(micro)' = InJobs(m)
      /\ ToSet(Queued)' = ToSet(Queued)
  BY <1>2, <1>3
<1>6. CarriedOK(micro)'
  <2>1. AreApart(ToSet(Queued), InCalls(blocked), InJobs(micro))'
    BY <1>1, <1>5 DEF AreApart, CarriedOK
  <2>2. QED
    BY <1>1, <1>2, <2>1 DEF CarriedOK
<1>7. FlushersOK'
  <2>1. PICK f : f = [by |-> by, owed |-> ToSet(pending) \cup ToSet(batch)]
    OBVIOUS
  <2>2. f.owed = ToSet(Queued) /\ f.owed \subseteq Events
    BY <1>1, <2>1, QueuedIs
  <2>3. f \in [by: Callers, owed: SUBSET Events]
    BY <2>1, <2>2
  <2>4. flushers' \subseteq flushers \cup {f}
    BY <1>2, <2>1
  <2>5. QED
    BY <1>1, <1>2, <1>3, <2>2, <2>3, <2>4 DEF FlushersOK
<1>8. FailuresOK' /\ OutcomeOK'
  BY <1>1, <1>2 DEF FailuresOK, OutcomeOK
<1>9. StepOK
  <2>1. ReturnsWhenSent
    BY <1>2 DEF ReturnsWhenSent
  <2>2. ChannelStep
    BY <1>2, <1>3, StillChannel
  <2>3. QED
    BY <2>1, <2>2 DEF StepOK
<1>10. FlowOf(micro)' = FlowOf(m)
  BY <1>5 DEF FlowOf
<1>11. CoreOK(micro)'
  BY <1>1, <1>2, <1>4, <1>6, <1>7, <1>8 DEF CoreOK
<1>12. Moved(FlowOf(m), {})
  BY <1>2, <1>9, <1>10, <1>11 DEF Moved
<1>13. \/ Queued = <<>>
       \/ \E f \in flushers' : f.by = by
  <2>1. CASE pending = <<>> /\ drain = "idle"
    <3>1. batch = <<>>
      BY <1>1, <2>1 DEF QueueOK
    <3>2. QED
      BY <2>1, <3>1, SetOfNone, ConcatEmptySeq DEF Queued
  <2>2. CASE ~ (pending = <<>> /\ drain = "idle")
    <3>1. PICK f : f = [by |-> by, owed |-> ToSet(pending) \cup ToSet(batch)] /\ f \in flushers'
      BY <1>2, <2>2
    <3>2. f.by = by
      BY <3>1
    <3>3. QED
      BY <3>1, <3>2
  <2>3. QED
    BY <2>1, <2>2
<1>14. QED
  BY <1>2, <1>12, <1>13

\* close: what is pending is given up, and those that wait are released.
LEMMA CloseStep ==
  ASSUME CoreOK(micro), NEW gone, gone \subseteq Events, Close(gone)
  PROVE  /\ CoreOK(micro)' /\ StepOK /\ closed'
         /\ FlowOf(micro)' \subseteq FlowOf(micro)
         /\ FlowOf(micro)' \cup ToSet(received') \cup lost'
              = FlowOf(micro) \cup ToSet(received) \cup lost \cup gone
<1>1. PICK Q, C, J, P, B :
        /\ Q = ToSet(Queued) /\ C = InCalls(blocked) /\ J = InJobs(micro)
        /\ P = ToSet(pending) /\ B = ToSet(batch)
  OBVIOUS
<1>2. /\ config \in Configs /\ QueueOK /\ FlushersOK /\ FailuresOK /\ OutcomeOK
      /\ blocked \in Seq(Call) /\ CallsOK(blocked) /\ micro \in Seq(Job) /\ JobsOK(micro)
      /\ AreApart(Q, C, J) /\ FlowOf(micro) = Q \cup C \cup J
      /\ Q = B \cup P /\ Q \subseteq Events
  BY <1>1, QueuedIs DEF CoreOK, CarriedOK, FlowOf
<1>3. /\ closed' = TRUE
      /\ lost' = lost \cup gone \cup (P \ ToSet(received))
      /\ pending' = <<>> /\ flushers' = {}
      /\ micro' = micro \o Released /\ blocked' = <<>>
      /\ UNCHANGED <<config, batch, drain, failures, arrived, received>>
  BY <1>1 DEF Close, server
<1>4. Queued' = batch
  <2>1. batch \in Seq(Events)
    BY <1>2, QueuedIs
  <2>2. QED
    BY <1>3, <2>1, ConcatEmptySeq DEF Queued
<1>5. QueueOK'
  <2>1. Distinct(Queued')
    BY <1>2, <1>4, QueuedIs
  <2>2. pending' \in Seq(Events)
    BY <1>3, SetOfNone
  <2>3. QED
    BY <1>2, <1>3, <2>1, <2>2 DEF QueueOK, DrainRuns
<1>6. micro' \in Seq(Job) /\ JobsOK(micro') /\ InJobs(micro') = J \cup C
  <2>1. PICK r \in Seq(Job) : r = Released /\ JobsOK(r) /\ InJobs(r) = C
    BY <1>1, <1>2, JobsReleased
  <2>2. InJobs(micro) \cap InJobs(r) = {}
    BY <1>1, <1>2, <2>1 DEF AreApart
  <2>3. QED
    BY <1>1, <1>2, <1>3, <2>1, <2>2, JobsConcat
<1>7. blocked' \in Seq(Call) /\ CallsOK(blocked') /\ InCalls(blocked') = {}
  BY <1>3, NoCalls
<1>8. ToSet(Queued)' = B /\ InCalls(blocked)' = {} /\ InJobs(micro)' = J \cup C
  BY <1>1, <1>4, <1>6, <1>7
<1>9. CarriedOK(micro)'
  <2>1. AreApart(ToSet(Queued), InCalls(blocked), InJobs(micro))'
    BY <1>2, <1>8 DEF AreApart
  <2>2. QED
    BY <1>6, <1>7, <2>1 DEF CarriedOK
<1>10. FlushersOK' /\ FailuresOK' /\ ReturnsWhenSent
  BY <1>2, <1>3 DEF FlushersOK, FailuresOK, ReturnsWhenSent
<1>11. OutcomeOK'
  BY <1>2, <1>3 DEF OutcomeOK
<1>12. FlowOf(micro)' = B \cup C \cup J
  BY <1>8 DEF FlowOf
<1>13. ChannelStep
  BY <1>2, <1>3, <1>4, CloseChannel
<1>14. QED
  BY <1>2, <1>3, <1>5, <1>9, <1>10, <1>11, <1>12, <1>13 DEF CoreOK, StepOK

\* The server takes the batch.
LEMMA ArriveStep ==
  ASSUME CoreOK(micro), Arrive
  PROVE  Moved(FlowOf(micro), {})
<1>1. /\ config \in Configs /\ QueueOK /\ FlushersOK /\ FailuresOK /\ OutcomeOK
      /\ CarriedOK(micro)
  BY DEF CoreOK
<1>2. /\ arrived' = TRUE
      /\ received' = received \o Dropping(batch, ToSet(received))
      /\ UNCHANGED <<config, pending, batch, drain, failures, closed, blocked, micro, flushers,
                     lost>>
  BY DEF Arrive, uploader
<1>3. batch \in Seq(Events) /\ received \in Seq(Events) /\ ToSet(batch) \subseteq ToSet(Queued)
  BY <1>1, QueuedIs DEF OutcomeOK
<1>4. PICK d \in Seq(Events) :
        d = Dropping(batch, ToSet(received)) /\ ToSet(d) = ToSet(batch) \ ToSet(received)
  BY <1>3, SetOfDropping
<1>5. received' \in Seq(Events) /\ ToSet(received') = ToSet(received) \cup ToSet(d)
  BY <1>2, <1>3, <1>4, SetOfConcat
<1>6. ToSet(received') = ToSet(received) \cup ToSet(batch)
  BY <1>4, <1>5
<1>7. Queued' = Queued
  BY <1>2 DEF Queued
<1>8. QueueOK'
  BY <1>1, <1>2, <1>6, <1>7 DEF QueueOK, DrainRuns
<1>9. CarriedOK(micro)' /\ FlowOf(micro)' = FlowOf(micro)
  BY <1>1, <1>2, <1>7 DEF CarriedOK, FlowOf
<1>10. FlushersOK'
  BY <1>1, <1>2, <1>6, <1>7 DEF FlushersOK
<1>11. FailuresOK' /\ OutcomeOK' /\ ReturnsWhenSent
  BY <1>1, <1>2, <1>5 DEF FailuresOK, OutcomeOK, ReturnsWhenSent
<1>12. FlowOf(micro)' \cup ToSet(received') \cup lost'
         = FlowOf(micro) \cup ToSet(received) \cup lost
  BY <1>2, <1>3, <1>6, <1>9 DEF FlowOf
<1>13. ChannelStep
  BY <1>1, <1>2, <1>3, <1>7, ArriveChannel
<1>14. QED
  BY <1>1, <1>2, <1>8, <1>9, <1>10, <1>11, <1>12, <1>13 DEF Moved, CoreOK, StepOK

\* A batch is done with: the server has it, or it is given up; those that wait
\* for room are released.
LEMMA DoneStep ==
  ASSUME CoreOK(micro), micro = <<>>, FailuresOK',
         micro' = Released, blocked' = <<>>, Loop(pending, ToSet(batch) \ ToSet(received)),
         UNCHANGED <<config, closed, received>>
  PROVE  Moved(FlowOf(micro), ToSet(batch) \ ToSet(received))
<1>1. /\ config \in Configs /\ QueueOK /\ FlushersOK /\ FailuresOK /\ OutcomeOK
      /\ blocked \in Seq(Call) /\ CallsOK(blocked)
  BY DEF CoreOK, CarriedOK
<1>2. PICK Q, C, P, B, G, q :
        /\ Q = ToSet(Queued) /\ C = InCalls(blocked) /\ P = ToSet(pending) /\ B = ToSet(batch)
        /\ G = ToSet(batch) \ ToSet(received) /\ q = ToSet(Queued)'
  OBVIOUS
<1>3. /\ Q = B \cup P /\ Q \subseteq Events /\ pending \in Seq(Events) /\ Distinct(pending)
  BY <1>1, <1>2, QueuedIs
<1>4. /\ Q \cap C = {} /\ FlowOf(micro) = Q \cup C
  BY <1>2, NoJobs DEF CoreOK, CarriedOK, AreApart, FlowOf
<1>5. Handled(pending, G)
  BY <1>1, <1>2, <1>3, LoopStep
<1>6. FlushersOK' /\ OutcomeOK' /\ ReturnsWhenSent
  <2>1. /\ ToSet(pending) \subseteq Events /\ G \subseteq Events
        /\ ToSet(Queued) \subseteq ToSet(pending) \cup G \cup ToSet(received)
    BY <1>2, <1>3
  <2>2. QED
    BY <1>1, <1>5, <2>1, FlushersStep
<1>7. /\ QueueOK' /\ q \subseteq P /\ q \cup lost' = P \cup lost \cup G
      /\ lost' \subseteq lost \cup G \cup config.bad
  BY <1>2, <1>5 DEF Handled
<1>8. micro' \in Seq(Job) /\ JobsOK(micro') /\ InJobs(micro)' = C
  BY <1>1, <1>2, JobsReleased
<1>9. blocked' \in Seq(Call) /\ CallsOK(blocked') /\ InCalls(blocked)' = {}
  BY NoCalls
<1>10. CarriedOK(micro)'
  <2>1. AreApart(ToSet(Queued), InCalls(blocked), InJobs(micro))'
    BY <1>2, <1>3, <1>4, <1>7, <1>8, <1>9 DEF AreApart
  <2>2. QED
    BY <1>8, <1>9, <2>1 DEF CarriedOK
<1>11. FlowOf(micro)' = q \cup C
  BY <1>2, <1>8, <1>9 DEF FlowOf
<1>12. CoreOK(micro)'
  BY <1>1, <1>6, <1>7, <1>10 DEF CoreOK
<1>13. /\ FlowOf(micro)' \subseteq FlowOf(micro)
       /\ FlowOf(micro)' \cup ToSet(received') \cup lost'
            = FlowOf(micro) \cup ToSet(received) \cup lost
       /\ lost' \subseteq lost \cup config.bad \cup G
  BY <1>2, <1>3, <1>4, <1>7, <1>11
<1>14. ChannelStep
  BY <1>1, <1>5, DoneChannel
<1>15. QED
  BY <1>2, <1>6, <1>12, <1>13, <1>14 DEF Moved, StepOK

\* An answered request gives up only what the server did not take.
LEMMA ReturnStep ==
  ASSUME CoreOK(micro), SendReturns
  PROVE  /\ Moved(FlowOf(micro), ToSet(batch) \ ToSet(received))
         /\ config.refuses \/ ToSet(batch) \ ToSet(received) = {}
<1>1. /\ micro = <<>> /\ failures' = 0 /\ micro' = Released /\ blocked' = <<>>
      /\ Loop(pending, ToSet(batch) \ ToSet(received))
      /\ UNCHANGED <<config, closed, received>>
      /\ arrived \/ config.refuses
  BY DEF SendReturns, Idle
<1>2. FailuresOK'
  BY <1>1 DEF FailuresOK
<1>3. arrived => ToSet(batch) \subseteq ToSet(received)
  BY DEF CoreOK, QueueOK
<1>4. QED
  BY <1>1, <1>2, <1>3, DoneStep

\* A failed request is requeued, or given up after the last retry.
LEMMA FailStep ==
  ASSUME CoreOK(micro), SendFails
  PROVE  \/ Moved(FlowOf(micro), ToSet(batch) \ ToSet(received)) /\ config.retries # 0
         \/ Moved(FlowOf(micro), {})
<1>1. micro = <<>> /\ UNCHANGED <<config, closed, received>>
  BY DEF SendFails, Idle
<1>2. CASE LastFailure
  <2>1. /\ failures' = 0 /\ micro' = Released /\ blocked' = <<>>
        /\ Loop(pending, ToSet(batch) \ ToSet(received))
    BY <1>2 DEF SendFails
  <2>2. FailuresOK'
    BY <2>1 DEF FailuresOK
  <2>3. config.retries # 0
    BY <1>2 DEF LastFailure
  <2>4. QED
    BY <1>1, <2>1, <2>2, <2>3, DoneStep
<1>3. CASE ~LastFailure
  <2>1. /\ config \in Configs /\ QueueOK /\ FlushersOK /\ FailuresOK /\ OutcomeOK
        /\ CarriedOK(micro)
    BY DEF CoreOK
  <2>2. /\ failures' = IF config.retries = 0 THEN 0 ELSE failures + 1
        /\ pending' = Queued /\ batch' = <<>> /\ drain' = "sleep" /\ arrived' = FALSE
        /\ UNCHANGED <<blocked, micro, flushers, lost>>
    BY <1>3 DEF SendFails, Requeued, Queued
  <2>3. FailuresOK'
    <3>1. failures \in Nat /\ config.retries \in Nat
      BY <2>1, ConfigIsConfig DEF FailuresOK
    <3>2. config.retries # 0 => failures + 1 < config.retries
      BY <1>3, <3>1 DEF LastFailure
    <3>3. QED
      BY <1>1, <2>2, <3>1, <3>2 DEF FailuresOK
  <2>4. Queued' = Queued
    <3>1. Queued \in Seq(Events)
      BY <2>1, QueuedIs
    <3>2. <<>> \o Queued = Queued
      BY <3>1, ConcatEmptySeq
    <3>3. Queued' = batch' \o pending'
      BY DEF Queued
    <3>4. QED
      BY <2>2, <3>2, <3>3
  <2>5. QueueOK'
    <3>1. pending' \in Seq(Events) /\ batch' \in Seq(Events) /\ Len(batch') <= config'.batch
      BY <1>1, <2>1, <2>2, QueuedIs, ConfigIsConfig, EmptySeq
    <3>2. ToSet(batch') = {}
      BY <2>2, SetOfNone
    <3>3. Distinct(Queued')
      BY <2>1, <2>4 DEF QueueOK
    <3>4. QED
      BY <2>2, <3>1, <3>2, <3>3 DEF QueueOK, DrainRuns
  <2>6. CarriedOK(micro)' /\ FlowOf(micro)' = FlowOf(micro)
    BY <2>1, <2>2, <2>4 DEF CarriedOK, FlowOf
  <2>7. FlushersOK' /\ OutcomeOK' /\ ReturnsWhenSent
    BY <1>1, <2>1, <2>2, <2>4 DEF FlushersOK, OutcomeOK, ReturnsWhenSent
  <2>8. ChannelStep
    BY <1>1, <2>4, StillChannel
  <2>9. Moved(FlowOf(micro), {})
    BY <1>1, <2>1, <2>2, <2>3, <2>5, <2>6, <2>7, <2>8 DEF Moved, CoreOK, StepOK
  <2>10. QED
    BY <2>9
<1>4. QED
  BY <1>2, <1>3

\* The end of the sleep before a retry loses nothing.
LEMMA WakeStep ==
  ASSUME CoreOK(micro), WakeUp
  PROVE  Moved(FlowOf(micro), {})
<1>1. /\ config \in Configs /\ QueueOK /\ FlushersOK /\ FailuresOK /\ OutcomeOK
      /\ CarriedOK(micro)
  BY DEF CoreOK
<1>2. /\ drain = "sleep" /\ Loop(pending, {})
      /\ UNCHANGED <<config, failures, closed, blocked, micro, received>>
  BY DEF WakeUp
<1>3. pending \in Seq(Events) /\ Distinct(pending) /\ batch = <<>>
  BY <1>1, <1>2, QueuedIs DEF QueueOK
<1>4. Queued = pending
  BY <1>3, ConcatEmptySeq DEF Queued
<1>5. Handled(pending, {})
  BY <1>1, <1>2, <1>3, LoopStep
<1>6. PICK Q, q, C, J :
        Q = ToSet(Queued) /\ q = ToSet(Queued)' /\ C = InCalls(blocked) /\ J = InJobs(micro)
  OBVIOUS
<1>7. FlushersOK' /\ OutcomeOK' /\ ReturnsWhenSent
  <2>1. ToSet(pending) \subseteq Events /\ {} \subseteq Events
        /\ ToSet(Queued) \subseteq ToSet(pending) \cup {} \cup ToSet(received)
    BY <1>3, <1>4, SetOfSeq
  <2>2. QED
    BY <1>1, <1>2, <1>5, <2>1, FlushersStep
<1>8. /\ QueueOK' /\ q \subseteq Q /\ q \cup lost' = Q \cup lost
      /\ lost' \subseteq lost \cup config.bad
  BY <1>4, <1>5, <1>6 DEF Handled
<1>9. InCalls(blocked)' = C /\ InJobs(micro)' = J
  BY <1>2, <1>6
<1>10. CarriedOK(micro)'
  <2>1. AreApart(Q, C, J)
    BY <1>1, <1>6 DEF CarriedOK
  <2>2. AreApart(ToSet(Queued), InCalls(blocked), InJobs(micro))'
    BY <1>6, <1>8, <1>9, <2>1 DEF AreApart
  <2>3. QED
    BY <1>1, <1>2, <2>2 DEF CarriedOK
<1>11. FlowOf(micro)' = q \cup C \cup J /\ FlowOf(micro) = Q \cup C \cup J
  BY <1>6, <1>9 DEF FlowOf
<1>12. FailuresOK'
  BY <1>1, <1>2 DEF FailuresOK
<1>13. CoreOK(micro)'
  BY <1>1, <1>2, <1>7, <1>8, <1>10, <1>12 DEF CoreOK
<1>14. ChannelStep
  BY <1>1, <1>2, <1>4, <1>5, DoneChannel
<1>15. QED
  BY <1>2, <1>7, <1>8, <1>11, <1>13, <1>14 DEF Moved, StepOK

-----------------------------------------------------------------------------
(* Continuations.                                                          *)

\* When the first continuation is taken, what it carries is on its way apart.
LEMMA HeadCore ==
  ASSUME CoreOK(micro), micro # <<>>
  PROVE  /\ Head(micro) \in Job /\ JobOK(Head(micro)) /\ CoreOK(Tail(micro))
         /\ FlowOf(micro) = FlowOf(Tail(micro)) \cup JobEvents(Head(micro))
         /\ JobEvents(Head(micro)) \cap FlowOf(Tail(micro)) = {}
<1>1. CarriedOK(micro)
  BY DEF CoreOK
<1>2. PICK j, t, E, J, Q, C :
        /\ j \in Job /\ t \in Seq(Job)
        /\ j = Head(micro) /\ t = Tail(micro) /\ JobOK(j) /\ JobsOK(t)
        /\ E = JobEvents(j) /\ J = InJobs(t) /\ InJobs(micro) = E \cup J /\ E \cap J = {}
        /\ Q = ToSet(Queued) /\ C = InCalls(blocked)
  BY <1>1, JobsHead DEF CarriedOK
<1>3. AreApart(Q, C, E \cup J)
  BY <1>1, <1>2 DEF CarriedOK
<1>4. CarriedOK(t)
  BY <1>1, <1>2, <1>3 DEF CarriedOK, AreApart
<1>5. FlowOf(micro) = Q \cup C \cup E \cup J /\ FlowOf(t) = Q \cup C \cup J
  BY <1>2 DEF FlowOf
<1>6. E \cap FlowOf(t) = {}
  BY <1>2, <1>3, <1>5 DEF AreApart
<1>7. QED
  BY <1>2, <1>4, <1>5, <1>6 DEF CoreOK

\* Nothing changes but the continuations, and these carry the same events.
LEMMA RequeueStep ==
  ASSUME NEW m, CoreOK(m), NEW n \in Seq(Job), JobsOK(n), NEW E, InJobs(n) = InJobs(m) \cup E,
         E \cap FlowOf(m) = {}, micro' = n,
         UNCHANGED <<config, pending, batch, drain, failures, closed, blocked, flushers, server,
                     lost>>
  PROVE  Moved(FlowOf(m) \cup E, {})
<1>1. /\ config \in Configs /\ QueueOK /\ FlushersOK /\ FailuresOK /\ OutcomeOK
      /\ CarriedOK(m)
  BY DEF CoreOK
<1>2. UNCHANGED <<config, pending, batch, drain, failures, closed, blocked, flushers, arrived,
                  received, lost>>
  BY DEF server
<1>3. Queued' = Queued
  BY <1>2 DEF Queued
<1>4. QueueOK'
  BY <1>1, <1>2, <1>3 DEF QueueOK, DrainRuns
<1>5. FlushersOK' /\ FailuresOK' /\ OutcomeOK' /\ ReturnsWhenSent
  BY <1>1, <1>2, <1>3 DEF FlushersOK, FailuresOK, OutcomeOK, ReturnsWhenSent
<1>6. PICK Q, C, J : Q = ToSet(Queued) /\ C = InCalls(blocked) /\ J = InJobs(m)
  OBVIOUS
<1>7. AreApart(Q, C, J) /\ FlowOf(m) = Q \cup C \cup J
  BY <1>1, <1>6 DEF CarriedOK, FlowOf
<1>8. ToSet(Queued)' = Q /\ InCalls(blocked)' = C /\ InJobs(micro)' = J \cup E
  BY <1>2, <1>3, <1>6
<1>9. CarriedOK(micro)'
  <2>1. AreApart(ToSet(Queued), InCalls(blocked), InJobs(micro))'
    BY <1>7, <1>8 DEF AreApart
  <2>2. QED
    BY <1>1, <1>2, <2>1 DEF CarriedOK
<1>10. FlowOf(micro)' = FlowOf(m) \cup E
  BY <1>7, <1>8 DEF FlowOf
<1>11. CoreOK(micro)'
  BY <1>1, <1>2, <1>4, <1>5, <1>9 DEF CoreOK
<1>12. ChannelStep
  BY <1>2, <1>3, StillChannel
<1>13. QED
  BY <1>2, <1>5, <1>10, <1>11, <1>12 DEF Moved, StepOK

\* A step the uploader takes no part in loses nothing.
LEMMA StillStep ==
  ASSUME CoreOK(micro), UNCHANGED uvars
  PROVE  Moved(FlowOf(micro), {})
<1>1. micro \in Seq(Job) /\ JobsOK(micro) /\ InJobs(micro) = InJobs(micro) \cup {}
  BY DEF CoreOK, CarriedOK
<1>2. micro' = micro /\ UNCHANGED <<config, pending, batch, drain, failures, closed, blocked,
                                    flushers, server, lost>>
  BY DEF uvars, uploader
<1>3. Moved(FlowOf(micro) \cup {}, {})
  BY <1>1, <1>2, RequeueStep
<1>4. FlowOf(micro) \cup {} = FlowOf(micro)
  OBVIOUS
<1>5. QED
  BY <1>3, <1>4

\* One more continuation.
LEMMA AppendStep ==
  ASSUME NEW m, CoreOK(m), NEW j \in Job, JobOK(j), JobEvents(j) \cap FlowOf(m) = {},
         micro' = Append(m, j),
         UNCHANGED <<config, pending, batch, drain, failures, closed, blocked, flushers, server,
                     lost>>
  PROVE  Moved(FlowOf(m) \cup JobEvents(j), {})
<1>1. m \in Seq(Job) /\ JobsOK(m)
  BY DEF CoreOK, CarriedOK
<1>2. PICK one, E : /\ one \in Seq(Job) /\ one = <<j>> /\ JobsOK(one)
                    /\ InJobs(one) = E /\ E = JobEvents(j)
  BY OneJob
<1>3. InJobs(m) \cap InJobs(one) = {}
  BY <1>2 DEF FlowOf
<1>4. m \o one \in Seq(Job) /\ JobsOK(m \o one) /\ InJobs(m \o one) = InJobs(m) \cup E
  <2>1. JobsOK(m) /\ JobsOK(one) /\ m \in Seq(Job) /\ one \in Seq(Job)
    BY <1>1, <1>2
  <2>2. /\ m \o one \in Seq(Job) /\ JobsOK(m \o one)
        /\ InJobs(m \o one) = InJobs(m) \cup InJobs(one)
    BY <1>3, <2>1, JobsConcat
  <2>3. QED
    BY <1>2, <2>2
<1>5. micro' = m \o one
  BY <1>1, <1>2, AppendIsConcat
<1>6. QED
  BY <1>2, <1>4, <1>5, RequeueStep

\* A turn of the job queue moves no event.
LEMMA TurnStep ==
  ASSUME CoreOK(micro), Turn
  PROVE  Moved(FlowOf(micro), {})
<1>1. /\ micro # <<>> /\ Head(micro).hops > 1
      /\ micro' = Append(Tail(micro), [Head(micro) EXCEPT !.hops = @ - 1])
      /\ UNCHANGED <<config, pending, batch, drain, failures, closed, blocked, flushers, server,
                     lost>>
  BY DEF Turn
<1>2. PICK j \in Job : j = Head(micro)
  BY <1>1, HeadCore
<1>3. PICK m : m = Tail(micro)
  OBVIOUS
<1>4. /\ JobOK(j) /\ CoreOK(m) /\ FlowOf(micro) = FlowOf(m) \cup JobEvents(j)
      /\ JobEvents(j) \cap FlowOf(m) = {}
  BY <1>1, <1>2, <1>3, HeadCore
<1>5. PICK k : k = [j EXCEPT !.hops = @ - 1]
  OBVIOUS
<1>6. k \in Job /\ k.call = j.call /\ k.then = j.then
  <2>1. j.hops \in Nat \ {0} /\ j.hops > 1
    BY <1>1, <1>2 DEF Job
  <2>2. PICK h \in Nat \ {0} : h = j.hops - 1
    BY <2>1
  <2>3. k = [j EXCEPT !.hops = h]
    BY <1>5, <2>2
  <2>4. QED
    BY <2>2, <2>3 DEF Job
<1>7. JobOK(k) /\ JobEvents(k) = JobEvents(j)
  BY <1>4, <1>6 DEF JobOK, JobEvents
<1>8. micro' = Append(m, k)
  BY <1>1, <1>2, <1>3, <1>5
<1>9. Moved(FlowOf(m) \cup JobEvents(k), {})
  BY <1>1, <1>4, <1>6, <1>7, <1>8, AppendStep
<1>10. QED
  BY <1>4, <1>7, <1>9

\* A caller that looks for room again loses its events only after close.
LEMMA RecheckStep ==
  ASSUME CoreOK(micro), Recheck
  PROVE  \E due : Moved(FlowOf(micro), due) /\ (due = {} \/ closed)
<1>1. micro # <<>> /\ Head(micro).then = "enqueue" /\ Enqueue(Head(micro).call, Tail(micro))
  BY DEF Recheck, Runs
<1>2. PICK j \in Job : j = Head(micro)
  BY <1>1, HeadCore
<1>3. PICK m : m = Tail(micro)
  OBVIOUS
<1>4. /\ JobOK(j) /\ CoreOK(m) /\ FlowOf(micro) = FlowOf(m) \cup JobEvents(j)
      /\ JobEvents(j) \cap FlowOf(m) = {}
  BY <1>1, <1>2, <1>3, HeadCore
<1>5. PICK call \in Call : call = j.call
  BY DEF Job
<1>6. CallOK(call) /\ JobEvents(j) = CallEvents(call) /\ Enqueue(call, m)
  BY <1>1, <1>2, <1>3, <1>4, <1>5 DEF JobOK, JobEvents
<1>7. Moved(FlowOf(m) \cup CallEvents(call), IF closed THEN ToSet(call.items) ELSE {})
  BY <1>4, <1>6, EnqueueStep
<1>8. QED
  BY <1>4, <1>6, <1>7

-----------------------------------------------------------------------------
(* The owners and the callers of uploaders.                                *)
BufferOK ==
  /\ buffer \in Seq(Events) /\ Distinct(buffer)
  /\ timer \in BOOLEAN /\ closing \in BOOLEAN
  /\ author \in Seq(Users) /\ Written \subseteq Events
  /\ closed => closing
  /\ ~MayLose => lost \subseteq config.bad

\* Each event that was written is held back, on its way, has come out or was
\* given up, and nothing else is; what is held back is nowhere else.
EveryEventIsSomewhere ==
  /\ ToSet(buffer) \cap FlowOf(micro) = {}
  /\ FlowOf(micro) \cup ToSet(buffer) \cup ToSet(received) \cup lost = Written

FlowInv == CoreOK(micro) /\ BufferOK /\ EveryEventIsSomewhere

\* The events of a write are new.
LEMMA FreshIs ==
  ASSUME author \in Seq(Users), Written \subseteq Events, NEW p \in Users, NEW n \in Nat \ {0},
         Writes(p, n)
  PROVE  /\ Fresh(n) \in Seq(Events) /\ Distinct(Fresh(n)) /\ Fresh(n) # <<>>
         /\ ToSet(Fresh(n)) \cap Written = {} /\ Written' = Written \cup ToSet(Fresh(n))
         /\ author' \in Seq(Users) /\ Written' \subseteq Events
<1>1. PICK k \in Nat : k = Len(author) /\ Written = 1..k
  BY LenProperties DEF Written
<1>2. PICK f : f = Fresh(n)
  OBVIOUS
<1>3. f = [i \in 1..n |-> k + i]
  BY <1>1, <1>2 DEF Fresh
<1>4. k + n \in Events /\ author' = author \o [i \in 1..n |-> p]
  BY <1>1 DEF Writes
<1>5. 1..(k + n) \subseteq Events
  BY <1>4, EventsAssumption
<1>6. f \in Seq(Events)
  <2>1. \A i \in 1..n : k + i \in 1..(k + n)
    OBVIOUS
  <2>2. f \in [1..n -> Events]
    BY <1>3, <1>5, <2>1
  <2>3. QED
    BY <2>2
<1>7. DOMAIN f = 1..n /\ \A i \in 1..n : f[i] = k + i
  BY <1>3
<1>8. Distinct(f)
  BY <1>7 DEF Distinct
<1>9. f # <<>>
  <2>1. 1 \in DOMAIN f
    BY <1>7
  <2>2. QED
    BY <2>1
<1>10. ToSet(f) = (k + 1)..(k + n)
  <2>1. ToSet(f) \subseteq (k + 1)..(k + n)
    BY <1>7 DEF ToSet
  <2>2. ASSUME NEW e \in (k + 1)..(k + n) PROVE e \in ToSet(f)
    <3>1. e - k \in 1..n /\ f[e - k] = e
      BY <1>7
    <3>2. QED
      BY <1>7, <3>1 DEF ToSet
  <2>3. QED
    BY <2>1, <2>2
<1>11. [i \in 1..n |-> p] \in Seq(Users) /\ Len([i \in 1..n |-> p]) = n
  OBVIOUS
<1>12. author' \in Seq(Users) /\ Len(author') = k + n
  BY <1>1, <1>4, <1>11, ConcatProperties
<1>13. Written' = 1..(k + n)
  BY <1>12, LenProperties DEF Written
<1>14. ToSet(f) \cap Written = {} /\ Written' = Written \cup ToSet(f)
  BY <1>1, <1>10, <1>13
<1>15. QED
  BY <1>2, <1>5, <1>6, <1>8, <1>9, <1>12, <1>13, <1>14

\* A call carries what it was given.
LEMMA NewCallIs ==
  ASSUME NEW p \in Callers, NEW items \in Seq(Events), NEW rest \in Seq(Events),
         NEW then \in {"nothing", "flush", "message", "event"}, NEW hops \in Nat,
         Distinct(items), Distinct(rest), ToSet(items) \cap ToSet(rest) = {},
         then # "nothing" => hops > 0, then = "message" => rest # <<>>,
         then \in {"nothing", "flush"} => rest = <<>>
  PROVE  /\ NewCall(p, items, then, hops, rest) \in Call
         /\ CallOK(NewCall(p, items, then, hops, rest))
         /\ CallEvents(NewCall(p, items, then, hops, rest)) = ToSet(items) \cup ToSet(rest)
         /\ NewCall(p, items, then, hops, rest).items = items
<1>1. PICK c : c = NewCall(p, items, then, hops, rest)
  OBVIOUS
<1>2. c = [by |-> p, items |-> items, then |-> then, hops |-> hops, rest |-> rest]
  BY <1>1 DEF NewCall
<1>3. c \in Call
  BY <1>2 DEF Call
<1>4. c.items = items /\ c.rest = rest /\ c.then = then /\ c.hops = hops
  BY <1>2
<1>5. CallOK(c) /\ CallEvents(c) = ToSet(items) \cup ToSet(rest)
  BY <1>4 DEF CallOK, CallEvents
<1>6. QED
  BY <1>1, <1>3, <1>4, <1>5

\* So does a call without a rest.
LEMMA LastCallIs ==
  ASSUME NEW p \in Callers, NEW items \in Seq(Events), Distinct(items),
         NEW then \in {"nothing", "flush"}, NEW hops \in Nat, then # "nothing" => hops > 0
  PROVE  /\ NewCall(p, items, then, hops, <<>>) \in Call
         /\ CallOK(NewCall(p, items, then, hops, <<>>))
         /\ CallEvents(NewCall(p, items, then, hops, <<>>)) = ToSet(items)
<1>0. PICK none \in Seq(Events) : none = <<>> /\ Distinct(none) /\ ToSet(none) = {}
  BY SetOfNone
<1>1. PICK c : c = NewCall(p, items, then, hops, none)
  OBVIOUS
<1>2. c = [by |-> p, items |-> items, then |-> then, hops |-> hops, rest |-> none]
  BY <1>1 DEF NewCall
<1>3. c \in Call
  BY <1>2 DEF Call
<1>4. c.items = items /\ c.rest = none /\ c.then = then /\ c.hops = hops
  BY <1>2
<1>5. CallOK(c) /\ CallEvents(c) = ToSet(items)
  BY <1>0, <1>4 DEF CallOK, CallEvents
<1>6. QED
  BY <1>0, <1>1, <1>3, <1>5

\* A step that moves events of the uploader, of what is held back and new ones.
LEMMA MovedKeeps ==
  ASSUME FlowInv, NEW all, NEW due, Moved(all, due),
         buffer' \in Seq(Events), Distinct(buffer'), timer' \in BOOLEAN, closing' \in BOOLEAN,
         author' \in Seq(Users), Written' \subseteq Events,
         closing => closing', closed' => closing', config' = config,
         due = {} \/ MayLose',
         ToSet(buffer') \cap all = {},
         all \cup ToSet(buffer') \cup ToSet(received) \cup lost = Written'
  PROVE  FlowInv' /\ StepOK
<1>1. CoreOK(micro)' /\ StepOK
  BY DEF Moved
<1>2. PICK F, B, R : F = FlowOf(micro)' /\ B = ToSet(buffer') /\ R = ToSet(received')
  OBVIOUS
<1>3. /\ F \subseteq all /\ F \cup R \cup lost' = all \cup ToSet(received) \cup lost
      /\ lost' \subseteq lost \cup config.bad \cup due
  BY <1>2 DEF Moved
<1>4. EveryEventIsSomewhere'
  <2>1. F \cup B \cup R \cup lost' = Written'
    BY <1>2, <1>3
  <2>2. B \cap F = {}
    BY <1>2, <1>3
  <2>3. QED
    BY <1>2, <2>1, <2>2 DEF EveryEventIsSomewhere
<1>5. ~MayLose' => lost' \subseteq config'.bad
  <2>1. SUFFICES ASSUME ~MayLose' PROVE lost' \subseteq config.bad
    OBVIOUS
  <2>2. ~MayLose
    BY <2>1 DEF MayLose
  <2>3. lost \subseteq config.bad
    BY <2>2 DEF FlowInv, BufferOK
  <2>4. QED
    BY <1>3, <2>1, <2>3
<1>6. BufferOK'
  BY <1>5 DEF BufferOK
<1>7. QED
  BY <1>1, <1>4, <1>6 DEF FlowInv

\* The invariant's parts, as the steps of the owners use them.
LEMMA FlowFacts ==
  ASSUME FlowInv
  PROVE  /\ CoreOK(micro) /\ buffer \in Seq(Events) /\ Distinct(buffer)
         /\ timer \in BOOLEAN /\ closing \in BOOLEAN
         /\ author \in Seq(Users) /\ Written \subseteq Events
         /\ closed => MayLose
         /\ closed => closing
         /\ ToSet(buffer) \cap FlowOf(micro) = {}
         /\ FlowOf(micro) \cup ToSet(buffer) \cup ToSet(received) \cup lost = Written
  BY DEF FlowInv, BufferOK, EveryEventIsSomewhere, MayLose

\* The uploader moves events while its owner does nothing.
LEMMA OwnMove ==
  ASSUME FlowInv, UNCHANGED <<transport, config, closed>>,
         NEW due, Moved(FlowOf(micro), due), due = {} \/ MayLose
  PROVE  FlowInv' /\ StepOK
<1>1. UNCHANGED <<buffer, timer, closing, author, config, closed>>
  BY DEF transport
<1>2. Written' = Written /\ MayLose' = MayLose
  BY <1>1 DEF Written, MayLose
<1>3. /\ buffer' \in Seq(Events) /\ Distinct(buffer') /\ timer' \in BOOLEAN /\ closing' \in BOOLEAN
      /\ author' \in Seq(Users) /\ Written' \subseteq Events
      /\ closing => closing'
      /\ closed' => closing'
      /\ config' = config
  BY <1>1, <1>2, FlowFacts
<1>4. /\ ToSet(buffer') \cap FlowOf(micro) = {}
      /\ FlowOf(micro) \cup ToSet(buffer') \cup ToSet(received) \cup lost = Written'
  BY <1>1, <1>2, FlowFacts
<1>5. QED
  BY <1>2, <1>3, <1>4, MovedKeeps

\* A call of enqueue with what was held back and with new events, from what is
\* carried besides.
LEMMA CallKeeps ==
  ASSUME FlowInv, NEW m, CoreOK(m), NEW call \in Call, CallOK(call), Enqueue(call, m),
         CallEvents(call) \cap FlowOf(m) = {},
         buffer' \in Seq(Events), Distinct(buffer'), timer' \in BOOLEAN, closing' = closing,
         author' \in Seq(Users), Written' \subseteq Events,
         ToSet(buffer') \cap (FlowOf(m) \cup CallEvents(call)) = {},
         FlowOf(m) \cup CallEvents(call) \cup ToSet(buffer') \cup ToSet(received) \cup lost = Written'
  PROVE  FlowInv' /\ StepOK
<1>1. PICK due, all : /\ due = IF closed THEN ToSet(call.items) ELSE {}
                      /\ all = FlowOf(m) \cup CallEvents(call)
  OBVIOUS
<1>2. Moved(all, due)
  BY <1>1, EnqueueStep
<1>3. config' = config /\ closed' = closed
  BY DEF Enqueue
<1>4. MayLose' = MayLose
  BY <1>3 DEF MayLose
<1>5. due = {} \/ MayLose'
  BY <1>1, <1>4, FlowFacts
<1>6. /\ closing' \in BOOLEAN /\ (closing => closing') /\ (closed' => closing')
  BY <1>3, FlowFacts
<1>7. /\ ToSet(buffer') \cap all = {}
      /\ all \cup ToSet(buffer') \cup ToSet(received) \cup lost = Written'
  BY <1>1
<1>8. QED
  BY <1>2, <1>3, <1>5, <1>6, <1>7, MovedKeeps

-----------------------------------------------------------------------------
(* Every step keeps it.                                                    *)
LEMMA WriteStreamKeeps ==
  ASSUME FlowInv, NEW p \in Users, WriteStream(p)
  PROVE  FlowInv' /\ StepOK
<1>1. PICK s, b \in Seq(Events) :
        /\ b = buffer /\ s = Fresh(1) /\ s \in Seq(Events) /\ Distinct(s)
        /\ ToSet(s) \cap Written = {} /\ Written' = Written \cup ToSet(s)
        /\ author' \in Seq(Users) /\ Written' \subseteq Events
  <2>1. Writes(p, 1)
    BY DEF WriteStream
  <2>2. QED
    BY <2>1, FlowFacts, FreshIs
<1>2. buffer' = b \o s /\ timer' = TRUE /\ UNCHANGED uvars /\ closing' = closing
  BY <1>1 DEF WriteStream
<1>3. Moved(FlowOf(micro), {})
  BY <1>2, FlowFacts, StillStep
<1>4. config' = config /\ closed' = closed
  BY <1>2 DEF uvars, uploader
<1>5. /\ ToSet(b) \cap FlowOf(micro) = {} /\ Distinct(b)
      /\ FlowOf(micro) \cup ToSet(b) \cup ToSet(received) \cup lost = Written
  BY <1>1, FlowFacts
<1>6. /\ b \o s \in Seq(Events) /\ ToSet(b \o s) = ToSet(b) \cup ToSet(s)
  BY <1>1, SetOfConcat
<1>7. Distinct(b \o s)
  <2>1. ToSet(b) \cap ToSet(s) = {}
    BY <1>1, <1>5
  <2>2. QED
    BY <1>1, <1>5, <2>1, DistinctConcat
<1>8. /\ ToSet(buffer') \cap FlowOf(micro) = {}
      /\ FlowOf(micro) \cup ToSet(buffer') \cup ToSet(received) \cup lost = Written'
  BY <1>1, <1>2, <1>5, <1>6
<1>9. /\ buffer' \in Seq(Events) /\ Distinct(buffer') /\ timer' \in BOOLEAN
      /\ closing' \in BOOLEAN /\ (closing => closing') /\ (closed' => closing')
  BY <1>2, <1>4, <1>6, <1>7, FlowFacts
<1>10. QED
  BY <1>1, <1>3, <1>4, <1>8, <1>9, MovedKeeps

\* What is held back is handed to enqueue, by the timer or before a flush.
LEMMA BufferKeeps ==
  ASSUME FlowInv, NEW p \in Callers, NEW then \in {"nothing", "flush"}, NEW hops \in Nat,
         then # "nothing" => hops > 0,
         Enqueue(NewCall(p, buffer, then, hops, <<>>), micro), TakeBuffer,
         UNCHANGED <<closing, author>>
  PROVE  FlowInv' /\ StepOK
<1>1. PICK call : call = NewCall(p, buffer, then, hops, <<>>)
  OBVIOUS
<1>2. <<>> \in Seq(Events) /\ ToSet(<<>>) = {} /\ Distinct(<<>>)
  BY SetOfNone
<1>3. call \in Call /\ CallOK(call) /\ CallEvents(call) = ToSet(buffer)
  <2>1. buffer \in Seq(Events) /\ Distinct(buffer)
    BY FlowFacts
  <2>2. QED
    BY <1>1, <2>1, LastCallIs
<1>4. Enqueue(call, micro) /\ buffer' = <<>> /\ timer' = FALSE
  BY <1>1 DEF TakeBuffer
<1>5. Written' = Written
  BY DEF Written
<1>6. /\ author' \in Seq(Users) /\ Written' \subseteq Events /\ CoreOK(micro)
      /\ CallEvents(call) \cap FlowOf(micro) = {}
  BY <1>3, <1>5, FlowFacts
<1>7. /\ ToSet(buffer') \cap (FlowOf(micro) \cup CallEvents(call)) = {}
      /\ FlowOf(micro) \cup CallEvents(call) \cup ToSet(buffer') \cup ToSet(received) \cup lost
           = Written'
  BY <1>2, <1>3, <1>4, <1>5, FlowFacts
<1>8. buffer' \in Seq(Events) /\ Distinct(buffer') /\ timer' \in BOOLEAN
  BY <1>2, <1>4
<1>9. QED
  BY <1>3, <1>4, <1>6, <1>7, <1>8, CallKeeps

\* Timer and users are callers.
LEMMA ClockCalls == Clock \in Callers /\ Users \subseteq Callers /\ Patient \subseteq Users
  BY CallersAssumption DEF Users

\* The timer that empties the buffer keeps the invariant.
LEMMA TimerFiresKeeps ==
  ASSUME FlowInv, TimerFires
  PROVE  FlowInv' /\ StepOK
  BY BufferKeeps, ClockCalls DEF TimerFires

\* CCRClient.flush keeps the invariant.
LEMMA FlushAllKeeps ==
  ASSUME FlowInv, NEW p \in Users, FlushAll(p)
  PROVE  FlowInv' /\ StepOK
<1>1. PICK hops \in {1, 2} : Enqueue(NewCall(p, buffer, "flush", hops, <<>>), micro)
  BY DEF FlushAll
<1>2. TakeBuffer /\ UNCHANGED <<closing, author>> /\ p \in Callers
  BY ClockCalls DEF FlushAll
<1>3. QED
  BY <1>1, <1>2, BufferKeeps

\* A direct write to the uploader keeps the invariant.
LEMMA WritePlainKeeps ==
  ASSUME FlowInv, NEW p \in Users, WritePlain(p)
  PROVE  FlowInv' /\ StepOK
<1>1. PICK s \in Seq(Events) :
        /\ s = Fresh(1) /\ Distinct(s)
        /\ ToSet(s) \cap Written = {} /\ Written' = Written \cup ToSet(s)
        /\ author' \in Seq(Users) /\ Written' \subseteq Events
  <2>1. Writes(p, 1)
    BY DEF WritePlain
  <2>2. QED
    BY <2>1, FlowFacts, FreshIs
<1>2. PICK call : call = NewCall(p, s, "nothing", 0, <<>>)
  OBVIOUS
<1>4. call \in Call /\ CallOK(call) /\ CallEvents(call) = ToSet(s)
  <2>1. p \in Callers
    BY ClockCalls
  <2>2. QED
    BY <1>1, <1>2, <2>1, LastCallIs
<1>5. Enqueue(call, micro) /\ UNCHANGED <<buffer, timer, closing>>
  BY <1>1, <1>2 DEF WritePlain
<1>6. /\ buffer' \in Seq(Events) /\ Distinct(buffer') /\ timer' \in BOOLEAN
      /\ CoreOK(micro)
  BY <1>5, FlowFacts
<1>7. PICK F, B, R, S : /\ F = FlowOf(micro) /\ B = ToSet(buffer) /\ R = ToSet(received)
                        /\ S = ToSet(s)
  OBVIOUS
<1>8. S \cap (F \cup B) = {} /\ B \cap F = {} /\ F \cup B \cup R \cup lost = Written
  BY <1>1, <1>7, FlowFacts
<1>9. /\ CallEvents(call) \cap FlowOf(micro) = {}
      /\ ToSet(buffer') \cap (FlowOf(micro) \cup CallEvents(call)) = {}
      /\ FlowOf(micro) \cup CallEvents(call) \cup ToSet(buffer') \cup ToSet(received) \cup lost
           = Written'
  BY <1>1, <1>4, <1>5, <1>7, <1>8
<1>10. QED
  BY <1>1, <1>4, <1>5, <1>6, <1>9, CallKeeps

\* HybridTransport.write keeps the invariant.
LEMMA WriteHybridKeeps ==
  ASSUME FlowInv, NEW p \in Users, NEW n \in 1..MaxBatch, WriteHybrid(p, n)
  PROVE  FlowInv' /\ StepOK
<1>1. PICK s, b \in Seq(Events) :
        /\ s = Fresh(n) /\ b = buffer /\ s \in Seq(Events) /\ Distinct(s)
        /\ ToSet(s) \cap Written = {} /\ Written' = Written \cup ToSet(s)
        /\ author' \in Seq(Users) /\ Written' \subseteq Events
  <2>1. Writes(p, n) /\ n \in Nat \ {0}
    BY DEF WriteHybrid
  <2>2. QED
    BY <2>1, FlowFacts, FreshIs
<1>2. PICK F, B, R, S : /\ F = FlowOf(micro) /\ B = ToSet(b) /\ R = ToSet(received)
                        /\ S = ToSet(s)
  OBVIOUS
<1>3. S \cap (F \cup B) = {} /\ B \cap F = {} /\ F \cup B \cup R \cup lost = Written
  BY <1>1, <1>2, FlowFacts
<1>4. PICK t \in Seq(Events) : t = b \o s /\ ToSet(t) = B \cup S
  <2>1. b \o s \in Seq(Events) /\ ToSet(b \o s) = ToSet(b) \cup ToSet(s)
    BY <1>1, SetOfConcat
  <2>2. QED
    BY <1>2, <2>1
<1>5. Distinct(t)
  <2>1. Distinct(b) /\ Distinct(s) /\ ToSet(b) \cap ToSet(s) = {}
    BY <1>1, <1>2, <1>3, FlowFacts
  <2>2. Distinct(b \o s)
    BY <1>1, <2>1, DistinctConcat
  <2>3. QED
    BY <1>4, <2>2
<1>6. PICK call : call = NewCall(p, t, "flush", 1, <<>>)
  OBVIOUS
<1>7. <<>> \in Seq(Events) /\ ToSet(<<>>) = {} /\ Distinct(<<>>)
  BY SetOfNone
<1>8. call \in Call /\ CallOK(call) /\ CallEvents(call) = B \cup S
  <2>1. p \in Callers
    BY ClockCalls
  <2>2. /\ call \in Call /\ CallOK(call) /\ CallEvents(call) = ToSet(t)
    BY <1>5, <1>6, <2>1, LastCallIs
  <2>3. QED
    BY <1>4, <2>2
<1>9. Enqueue(call, micro) /\ buffer' = <<>> /\ timer' = FALSE /\ closing' = closing
  BY <1>1, <1>4, <1>6 DEF WriteHybrid, TakeBuffer
<1>10. /\ buffer' \in Seq(Events) /\ Distinct(buffer') /\ timer' \in BOOLEAN /\ ToSet(buffer') = {}
       /\ CoreOK(micro)
  BY <1>7, <1>9, FlowFacts
<1>11. /\ CallEvents(call) \cap FlowOf(micro) = {}
       /\ ToSet(buffer') \cap (FlowOf(micro) \cup CallEvents(call)) = {}
       /\ FlowOf(micro) \cup CallEvents(call) \cup ToSet(buffer') \cup ToSet(received) \cup lost
            = Written'
  BY <1>1, <1>2, <1>3, <1>8, <1>10
<1>12. QED
  BY <1>1, <1>8, <1>9, <1>10, <1>11, CallKeeps

\* The messages ms of a writeBatch are carried on.
LEMMA StartEventKeeps ==
  ASSUME FlowInv, NEW p \in Callers, NEW ms \in Seq(Events), ms # <<>>, Distinct(ms),
         NEW m, CoreOK(m), StartEvent(p, ms, m), closing' = closing,
         author' \in Seq(Users), Written' \subseteq Events,
         ToSet(ms) \cap (FlowOf(m) \cup ToSet(buffer)) = {},
         ToSet(buffer) \cap FlowOf(m) = {},
         FlowOf(m) \cup ToSet(ms) \cup ToSet(buffer) \cup ToSet(received) \cup lost = Written'
  PROVE  FlowInv' /\ StepOK
<1>1. <<>> \in Seq(Events) /\ ToSet(<<>>) = {} /\ Distinct(<<>>)
  BY SetOfNone
<1>2. buffer \in Seq(Events) /\ Distinct(buffer) /\ timer \in BOOLEAN /\ closing \in BOOLEAN
  BY FlowFacts
<1>3. CASE buffer = <<>>
  <2>1. PICK call, j : /\ call = NewCall(p, <<>>, "nothing", 0, ms)
                       /\ j = Continuation(call, 1, "message")
    OBVIOUS
  <2>2. /\ micro' = Append(m, j)
        /\ UNCHANGED <<config, pending, batch, drain, failures, closed, blocked, flushers,
                       server, lost, buffer, timer>>
    BY <1>3, <2>1 DEF StartEvent
  <2>3. /\ call = [by |-> p, items |-> <<>>, then |-> "nothing", hops |-> 0, rest |-> ms]
        /\ j = [call |-> call, hops |-> 1, then |-> "message"]
    BY <2>1 DEF NewCall, Continuation
  <2>4. call \in Call
    BY <1>1, <2>3 DEF Call
  <2>5. call.rest = ms /\ j.call = call /\ j.then = "message" /\ j \in Job
    BY <2>3, <2>4 DEF Job
  <2>6. JobOK(j) /\ JobEvents(j) = ToSet(ms)
    BY <2>5 DEF JobOK, JobEvents
  <2>7. Moved(FlowOf(m) \cup JobEvents(j), {})
    <3>1. JobEvents(j) \cap FlowOf(m) = {}
      BY <2>6
    <3>2. QED
      BY <2>2, <2>5, <2>6, <3>1, AppendStep
  <2>8. /\ buffer' = <<>> /\ ToSet(buffer') = {} /\ Distinct(buffer') /\ buffer' \in Seq(Events)
        /\ timer' \in BOOLEAN /\ closing' \in BOOLEAN
        /\ config' = config /\ closed' = closed
    BY <1>1, <1>2, <1>3, <2>2
  <2>9. /\ ToSet(buffer') \cap (FlowOf(m) \cup JobEvents(j)) = {}
        /\ FlowOf(m) \cup JobEvents(j) \cup ToSet(buffer') \cup ToSet(received) \cup lost = Written'
    BY <1>1, <1>3, <2>6, <2>8
  <2>10. (closing => closing') /\ (closed' => closing')
    BY <2>8, FlowFacts
  <2>11. QED
    BY <2>7, <2>8, <2>9, <2>10, MovedKeeps
<1>4. CASE buffer # <<>>
  <2>1. PICK call : call = NewCall(p, buffer, "message", 2, ms)
    OBVIOUS
  <2>2. Enqueue(call, m) /\ buffer' = <<>> /\ timer' = FALSE
    BY <1>4, <2>1 DEF StartEvent, TakeBuffer
  <2>3. ToSet(buffer) \cap ToSet(ms) = {}
    OBVIOUS
  <2>4. call \in Call /\ CallOK(call) /\ CallEvents(call) = ToSet(buffer) \cup ToSet(ms)
    BY <1>1, <1>2, <2>1, <2>3, NewCallIs
  <2>5. /\ ToSet(buffer') = {} /\ Distinct(buffer') /\ buffer' \in Seq(Events)
        /\ timer' \in BOOLEAN
    BY <1>1, <2>2
  <2>6. /\ CallEvents(call) \cap FlowOf(m) = {}
        /\ ToSet(buffer') \cap (FlowOf(m) \cup CallEvents(call)) = {}
        /\ FlowOf(m) \cup CallEvents(call) \cup ToSet(buffer') \cup ToSet(received) \cup lost
             = Written'
    BY <2>4, <2>5
  <2>7. QED
    BY <2>2, <2>4, <2>5, <2>6, CallKeeps
<1>5. QED
  BY <1>3, <1>4

\* The bridge's write to a CCRClient keeps the invariant.
LEMMA WriteCcrKeeps ==
  ASSUME FlowInv, NEW p \in Users, NEW n \in 1..MaxBatch, WriteCcr(p, n)
  PROVE  FlowInv' /\ StepOK
<1>1. PICK s \in Seq(Events) :
        /\ s = Fresh(n) /\ Distinct(s) /\ s # <<>>
        /\ ToSet(s) \cap Written = {} /\ Written' = Written \cup ToSet(s)
        /\ author' \in Seq(Users) /\ Written' \subseteq Events
  <2>1. Writes(p, n) /\ n \in Nat \ {0}
    BY DEF WriteCcr
  <2>2. QED
    BY <2>1, FlowFacts, FreshIs
<1>2. StartEvent(p, s, micro) /\ closing' = closing /\ p \in Callers
  BY <1>1, ClockCalls DEF WriteCcr
<1>3. PICK F, B, R, S : /\ F = FlowOf(micro) /\ B = ToSet(buffer) /\ R = ToSet(received)
                        /\ S = ToSet(s)
  OBVIOUS
<1>4. S \cap (F \cup B) = {} /\ B \cap F = {} /\ F \cup B \cup R \cup lost = Written
  BY <1>1, <1>3, FlowFacts
<1>5. /\ CoreOK(micro)
      /\ ToSet(s) \cap (FlowOf(micro) \cup ToSet(buffer)) = {}
      /\ ToSet(buffer) \cap FlowOf(micro) = {}
      /\ FlowOf(micro) \cup ToSet(s) \cup ToSet(buffer) \cup ToSet(received) \cup lost = Written'
  BY <1>1, <1>3, <1>4, FlowFacts
<1>6. QED
  BY <1>1, <1>2, <1>5, StartEventKeeps

\* The first continuation is a call's that carries the messages rest.
Carries(m, rest, by) ==
  /\ m = Tail(micro) /\ rest = Head(micro).call.rest /\ by = Head(micro).call.by
  /\ CoreOK(m) /\ rest \in Seq(Events) /\ Distinct(rest) /\ by \in Callers
  /\ Head(micro).then = "message" => rest # <<>>
  /\ Head(micro).then = "flush" => rest = <<>>
  /\ FlowOf(micro) = FlowOf(m) \cup ToSet(rest)
  /\ ToSet(rest) \cap FlowOf(m) = {}

\* A job that goes on carries what is left of its write.
LEMMA HeadCarriesRest ==
  ASSUME FlowInv, micro # <<>>, Head(micro).then # "enqueue"
  PROVE  \E m, rest, by : Carries(m, rest, by)
<1>1. CoreOK(micro)
  BY FlowFacts
<1>2. PICK j \in Job : j = Head(micro) /\ JobOK(j)
  BY <1>1, HeadCore
<1>3. PICK call \in Call : call = j.call
  BY DEF Job
<1>4. PICK m, rest, by : m = Tail(micro) /\ rest = call.rest /\ by = call.by
  OBVIOUS
<1>5. rest \in Seq(Events) /\ by \in Callers
  BY <1>4, CallEventsAreEvents
<1>6. JobEvents(j) = ToSet(rest)
  BY <1>2, <1>3, <1>4 DEF JobEvents
<1>7. /\ Distinct(rest) /\ (j.then = "message" => rest # <<>>)
      /\ (j.then = "flush" => rest = <<>>)
  BY <1>2, <1>3, <1>4 DEF JobOK
<1>8. /\ CoreOK(m) /\ FlowOf(micro) = FlowOf(m) \cup JobEvents(j)
      /\ JobEvents(j) \cap FlowOf(m) = {}
  BY <1>1, <1>2, <1>4, HeadCore
<1>9. Carries(m, rest, by)
  BY <1>2, <1>3, <1>4, <1>5, <1>6, <1>7, <1>8 DEF Carries
<1>10. QED
  BY <1>9

\* A message queued after its stream events keeps the invariant.
LEMMA MessageKeeps ==
  ASSUME FlowInv, Message
  PROVE  FlowInv' /\ StepOK
<1>1. /\ micro # <<>> /\ Head(micro).then = "message"
      /\ Enqueue(NewCall(Head(micro).call.by, <<Head(Head(micro).call.rest)>>, "event", 2,
                         Tail(Head(micro).call.rest)), Tail(micro))
      /\ UNCHANGED <<buffer, timer, closing, author>>
  BY DEF Message, Runs, transport
<1>0. PICK m, rest, by : Carries(m, rest, by)
  BY <1>1, HeadCarriesRest
<1>2. /\ m = Tail(micro) /\ rest = Head(micro).call.rest /\ by = Head(micro).call.by
      /\ rest \in Seq(Events) /\ by \in Callers
      /\ CoreOK(m) /\ rest # <<>> /\ Distinct(rest)
      /\ FlowOf(micro) = FlowOf(m) \cup ToSet(rest) /\ ToSet(rest) \cap FlowOf(m) = {}
  BY <1>0, <1>1 DEF Carries
<1>12. rest \in Seq(Events) /\ rest # <<>> /\ Distinct(rest)
  BY <1>2
<1>3. PICK e \in Events, t \in Seq(Events) :
        /\ e = Head(rest) /\ t = Tail(rest)
        /\ ToSet(rest) = {e} \cup ToSet(t)
  <2>1. Head(rest) \in Events /\ Tail(rest) \in Seq(Events)
        /\ ToSet(rest) = {Head(rest)} \cup ToSet(Tail(rest))
    BY <1>12, SetOfTail
  <2>2. QED
    BY <2>1
<1>4. Distinct(t) /\ e \notin ToSet(t)
  <2>1. /\ Distinct(t)
        /\ \A x : (\E i \in DOMAIN t : t[i] = x) <=> x # e /\ \E i \in DOMAIN rest : rest[i] = x
    <3>1. /\ Distinct(Tail(rest))
          /\ \A x : (\E i \in DOMAIN Tail(rest) : Tail(rest)[i] = x)
                      <=> x # Head(rest) /\ \E i \in DOMAIN rest : rest[i] = x
      BY <1>12, TailDistinct
    <3>2. QED
      BY <1>3, <3>1
  <2>2. ~ \E i \in DOMAIN t : t[i] = e
    BY <2>1
  <2>3. QED
    BY <2>1, <2>2 DEF ToSet
<1>5. PICK one \in Seq(Events) : one = <<e>> /\ ToSet(one) = {e} /\ Distinct(one)
  BY SetOfOne
<1>6. PICK call : call = NewCall(by, one, "event", 2, t)
  OBVIOUS
<1>7. call \in Call /\ CallOK(call) /\ CallEvents(call) = ToSet(rest)
  <2>1. ToSet(one) \cap ToSet(t) = {}
    BY <1>4, <1>5
  <2>2. call \in Call /\ CallOK(call) /\ CallEvents(call) = ToSet(one) \cup ToSet(t)
    <3>1. Distinct(one) /\ Distinct(t) /\ by \in Callers
      BY <1>2, <1>4, <1>5
    <3>2. QED
      BY <1>6, <2>1, <3>1, NewCallIs
  <2>3. QED
    BY <1>3, <1>5, <2>2
<1>8. Enqueue(call, m)
  BY <1>1, <1>2, <1>3, <1>5, <1>6
<1>9. Written' = Written
  BY <1>1 DEF Written
<1>10. /\ buffer' \in Seq(Events) /\ Distinct(buffer') /\ timer' \in BOOLEAN
       /\ closing' = closing /\ author' \in Seq(Users) /\ Written' \subseteq Events
  BY <1>1, <1>9, FlowFacts
<1>11. /\ CallEvents(call) \cap FlowOf(m) = {}
       /\ ToSet(buffer') \cap (FlowOf(m) \cup CallEvents(call)) = {}
       /\ FlowOf(m) \cup CallEvents(call) \cup ToSet(buffer') \cup ToSet(received) \cup lost
            = Written'
  BY <1>1, <1>2, <1>7, <1>9, FlowFacts
<1>13. QED
  BY <1>2, <1>7, <1>8, <1>10, <1>11, CallKeeps

\* The next event of a batch written one by one keeps the invariant.
LEMMA NextEventKeeps ==
  ASSUME FlowInv, NextEvent
  PROVE  FlowInv' /\ StepOK
<1>1. micro # <<>> /\ Head(micro).then = "event" /\ UNCHANGED <<closing, author>>
  BY DEF NextEvent, Runs
<1>0. PICK m, rest, by : Carries(m, rest, by)
  BY <1>1, HeadCarriesRest
<1>2. /\ m = Tail(micro) /\ rest = Head(micro).call.rest /\ by = Head(micro).call.by
      /\ rest \in Seq(Events) /\ by \in Callers
      /\ CoreOK(m) /\ Distinct(rest)
      /\ FlowOf(micro) = FlowOf(m) \cup ToSet(rest) /\ ToSet(rest) \cap FlowOf(m) = {}
  BY <1>0 DEF Carries
<1>3. Written' = Written
  BY <1>1 DEF Written
<1>4. PICK F, B, R, S : /\ F = FlowOf(m) /\ B = ToSet(buffer) /\ R = ToSet(received)
                        /\ S = ToSet(rest)
  OBVIOUS
<1>5. S \cap (F \cup B) = {} /\ B \cap F = {} /\ F \cup S \cup B \cup R \cup lost = Written
  BY <1>2, <1>4, FlowFacts
<1>6. author' \in Seq(Users) /\ Written' \subseteq Events
  BY <1>1, <1>3, FlowFacts
<1>7. CASE rest = <<>> \/ closing
  <2>1. /\ micro' = m /\ lost' = lost \cup S
        /\ UNCHANGED <<config, pending, batch, drain, failures, closed, blocked, flushers,
                       arrived, received, buffer, timer>>
    BY <1>2, <1>4, <1>7 DEF NextEvent, server
  <2>2. /\ config \in Configs /\ QueueOK /\ FlushersOK /\ FailuresOK /\ OutcomeOK
        /\ CarriedOK(m)
    BY <1>2 DEF CoreOK
  <2>3. Queued' = Queued
    BY <2>1 DEF Queued
  <2>4. QueueOK'
    BY <2>1, <2>2, <2>3 DEF QueueOK, DrainRuns
  <2>5. CarriedOK(micro)' /\ FlowOf(micro)' = F
    BY <1>4, <2>1, <2>2, <2>3 DEF CarriedOK, FlowOf
  <2>6. FlushersOK' /\ FailuresOK' /\ StepOK
    <3>1. FlushersOK' /\ FailuresOK' /\ ReturnsWhenSent
      BY <2>1, <2>2, <2>3 DEF FlushersOK, FailuresOK, ReturnsWhenSent
    <3>2. ChannelStep
      BY <2>1, <2>3, StillChannel
    <3>3. QED
      BY <3>1, <3>2 DEF StepOK
  <2>7. OutcomeOK'
    <3>1. rest \in Seq(Events) /\ S = ToSet(rest)
      BY <1>2, <1>4
    <3>2. S \subseteq Events
      BY <3>1, SetOfSeq
    <3>3. QED
      BY <2>1, <2>2, <3>2 DEF OutcomeOK
  <2>8. CoreOK(micro)'
    BY <2>1, <2>2, <2>4, <2>5, <2>6, <2>7 DEF CoreOK
  <2>9. S = {} \/ closing
    BY <1>4, <1>7, SetOfNone
  <2>10. Moved(F \cup S, S)
    BY <2>1, <2>5, <2>6, <2>8 DEF Moved
  <2>11. /\ buffer' \in Seq(Events) /\ Distinct(buffer') /\ timer' \in BOOLEAN
         /\ closing' \in BOOLEAN /\ (closing => closing') /\ (closed' => closing')
         /\ config' = config
    BY <1>1, <2>1, FlowFacts
  <2>12. S = {} \/ MayLose'
    BY <1>1, <2>9 DEF MayLose
  <2>13. /\ ToSet(buffer') \cap (F \cup S) = {}
         /\ F \cup S \cup ToSet(buffer') \cup ToSet(received) \cup lost = Written'
    BY <1>3, <1>4, <1>5, <2>1
  <2>14. QED
    BY <1>6, <2>10, <2>11, <2>12, <2>13, MovedKeeps
<1>8. CASE ~ (rest = <<>> \/ closing)
  <2>1. StartEvent(by, rest, m) /\ closing' = closing
    BY <1>1, <1>2, <1>8 DEF NextEvent
  <2>2. /\ ToSet(rest) \cap (FlowOf(m) \cup ToSet(buffer)) = {}
        /\ ToSet(buffer) \cap FlowOf(m) = {}
        /\ FlowOf(m) \cup ToSet(rest) \cup ToSet(buffer) \cup ToSet(received) \cup lost = Written'
    BY <1>3, <1>4, <1>5
  <2>3. QED
    BY <1>2, <1>6, <1>8, <2>1, <2>2, StartEventKeeps
<1>9. QED
  BY <1>7, <1>8

\* A flush after a write keeps the invariant, and waits or finds nothing to send.
LEMMA FlushCalledKeeps ==
  ASSUME FlowInv, FlushCalled
  PROVE  /\ FlowInv' /\ StepOK
         /\ \/ \E f \in flushers' : f.by = Head(micro).call.by
            \/ pending \o batch = <<>>
<1>1. /\ micro # <<>> /\ Head(micro).then = "flush"
      /\ Flush(Head(micro).call.by, Tail(micro)) /\ UNCHANGED transport
  BY DEF FlushCalled, Runs
<1>0. PICK m, rest, by : Carries(m, rest, by)
  BY <1>1, HeadCarriesRest
<1>2. /\ m = Tail(micro) /\ by = Head(micro).call.by /\ by \in Callers /\ CoreOK(m)
      /\ FlowOf(micro) = FlowOf(m)
  BY <1>0, <1>1, SetOfNone DEF Carries
<1>3. /\ Moved(FlowOf(m), {}) /\ (Queued = <<>> \/ \E f \in flushers' : f.by = by)
  BY <1>1, <1>2, FlushStep
<1>4. UNCHANGED <<config, closed>>
  BY <1>1 DEF Flush
<1>5. FlowInv' /\ StepOK
  BY <1>1, <1>2, <1>3, <1>4, OwnMove
<1>6. Queued = <<>> => pending \o batch = <<>>
  <2>1. SUFFICES ASSUME Queued = <<>> PROVE pending \o batch = <<>>
    OBVIOUS
  <2>2. /\ pending \in Seq(Events) /\ batch \in Seq(Events)
        /\ ToSet(Queued) = ToSet(batch) \cup ToSet(pending)
    BY <1>2, QueuedIs DEF CoreOK
  <2>3. ToSet(batch) = {} /\ ToSet(pending) = {}
    BY <2>1, <2>2, SetOfNone
  <2>4. batch = <<>> /\ pending = <<>>
    BY <2>2, <2>3, SetOfSeq
  <2>5. QED
    BY <2>4, SetOfNone, ConcatEmptySeq
<1>7. QED
  BY <1>2, <1>3, <1>5, <1>6

\* HybridTransport.close, with its last flush, keeps the invariant.
LEMMA CloseHybridKeeps ==
  ASSUME FlowInv, CloseHybrid
  PROVE  FlowInv' /\ StepOK
<1>1. /\ closing' = TRUE /\ buffer' = <<>> /\ timer' = FALSE /\ lost' = lost \cup ToSet(buffer)
      /\ UNCHANGED <<config, pending, batch, drain, failures, closed, blocked, micro, flushers,
                     arrived, received, author>>
  BY DEF CloseHybrid, TakeBuffer, uploader, server
<1>2. /\ config \in Configs /\ QueueOK /\ FlushersOK /\ FailuresOK /\ OutcomeOK
      /\ CarriedOK(micro)
  BY FlowFacts DEF CoreOK
<1>3. Queued' = Queued
  BY <1>1 DEF Queued
<1>4. QueueOK'
  BY <1>1, <1>2, <1>3 DEF QueueOK, DrainRuns
<1>5. CarriedOK(micro)' /\ FlowOf(micro)' = FlowOf(micro)
  BY <1>1, <1>2, <1>3 DEF CarriedOK, FlowOf
<1>6. FlushersOK' /\ FailuresOK' /\ StepOK
  <2>1. FlushersOK' /\ FailuresOK' /\ ReturnsWhenSent
    BY <1>1, <1>2, <1>3 DEF FlushersOK, FailuresOK, ReturnsWhenSent
  <2>2. ChannelStep
    BY <1>1, <1>3, StillChannel
  <2>3. QED
    BY <2>1, <2>2 DEF StepOK
<1>7. OutcomeOK'
  <2>1. ToSet(buffer) \subseteq Events
    BY FlowFacts, SetOfSeq
  <2>2. QED
    BY <1>1, <1>2, <2>1 DEF OutcomeOK
<1>8. CoreOK(micro)'
  BY <1>1, <1>2, <1>4, <1>5, <1>6, <1>7 DEF CoreOK
<1>9. Written' = Written /\ MayLose'
  BY <1>1 DEF Written, MayLose
<1>10. buffer' \in Seq(Events) /\ Distinct(buffer') /\ ToSet(buffer') = {}
  BY <1>1, SetOfNone
<1>11. BufferOK'
  <2>1. author' \in Seq(Users) /\ Written' \subseteq Events
    BY <1>1, <1>9, FlowFacts
  <2>2. QED
    BY <1>1, <1>9, <1>10, <2>1 DEF BufferOK
<1>12. EveryEventIsSomewhere'
  <2>1. /\ ToSet(buffer') \cap FlowOf(micro)' = {}
        /\ FlowOf(micro)' \cup ToSet(buffer') \cup ToSet(received') \cup lost' = Written'
    BY <1>1, <1>5, <1>9, <1>10, FlowFacts
  <2>2. QED
    BY <2>1 DEF EveryEventIsSomewhere
<1>13. QED
  BY <1>6, <1>8, <1>11, <1>12 DEF FlowInv

\* The uploader is closed; gone is what is dropped of what was held back.
LEMMA CloseKeeps ==
  ASSUME FlowInv, NEW gone, Close(gone), closing', author' = author, timer' \in BOOLEAN,
         \/ gone = {} /\ buffer' = buffer
         \/ gone = ToSet(buffer) /\ buffer' = <<>>
  PROVE  FlowInv' /\ StepOK
<1>1. gone \subseteq Events
  BY FlowFacts, SetOfSeq
<1>2. PICK F, G, B, b, R :
        /\ F = FlowOf(micro) /\ G = FlowOf(micro)' /\ B = ToSet(buffer) /\ b = ToSet(buffer')
        /\ R = ToSet(received)
  OBVIOUS
<1>3. received' = received
  BY DEF Close, server
<1>4. /\ CoreOK(micro)' /\ StepOK /\ G \subseteq F
      /\ G \cup R \cup lost' = F \cup R \cup lost \cup gone
  BY <1>1, <1>2, <1>3, FlowFacts, CloseStep
<1>5. B \cap F = {} /\ F \cup B \cup R \cup lost = Written
  BY <1>2, FlowFacts
<1>6. Written' = Written /\ MayLose'
  BY DEF Written, MayLose
<1>7. /\ buffer' \in Seq(Events) /\ Distinct(buffer')
      /\ \/ gone = {} /\ b = B
         \/ gone = B /\ b = {}
  BY <1>2, FlowFacts, SetOfNone
<1>8. EveryEventIsSomewhere'
  <2>1. b \cap G = {} /\ G \cup b \cup R \cup lost' = Written'
    BY <1>4, <1>5, <1>6, <1>7
  <2>2. QED
    BY <1>2, <1>3, <2>1 DEF EveryEventIsSomewhere
<1>9. BufferOK'
  <2>1. author' \in Seq(Users) /\ Written' \subseteq Events
    BY <1>6, FlowFacts
  <2>2. closing' \in BOOLEAN
    OBVIOUS
  <2>3. QED
    BY <1>6, <1>7, <2>1, <2>2 DEF BufferOK
<1>10. QED
  BY <1>4, <1>8, <1>9 DEF FlowInv

\* The end of the grace period keeps the invariant.
LEMMA GraceEndsKeeps ==
  ASSUME FlowInv, GraceEnds
  PROVE  FlowInv' /\ StepOK
<1>1. Close({}) /\ closing /\ UNCHANGED <<buffer, timer, closing, author>>
  BY DEF GraceEnds, transport
<1>2. closing' /\ author' = author /\ timer' \in BOOLEAN /\ buffer' = buffer
  BY <1>1, FlowFacts
<1>3. QED
  BY <1>1, <1>2, CloseKeeps

\* CCRClient.close keeps the invariant.
LEMMA CloseCcrKeeps ==
  ASSUME FlowInv, CloseCcr
  PROVE  FlowInv' /\ StepOK
<1>1. Close(ToSet(buffer)) /\ closing' = TRUE /\ buffer' = <<>> /\ timer' = FALSE /\ author' = author
  BY DEF CloseCcr, TakeBuffer
<1>2. QED
  BY <1>1, CloseKeeps

-----------------------------------------------------------------------------
(* The invariant, and what follows from it.                                *)
LEMMA FlowInit ==
  ASSUME TransportInit
  PROVE  FlowInv
<1>1. /\ config \in Configs /\ pending = <<>> /\ batch = <<>> /\ drain = "idle" /\ failures = 0
      /\ closed = FALSE /\ blocked = <<>> /\ micro = <<>> /\ flushers = {}
      /\ arrived = FALSE /\ received = <<>> /\ lost = {}
      /\ buffer = <<>> /\ timer = FALSE /\ closing = FALSE /\ author = <<>>
  BY DEF TransportInit, Init
<1>2. \A X : <<>> \in Seq(X) /\ ToSet(<<>>) = {} /\ Distinct(<<>>)
  BY SetOfNone
<1>3. Queued = <<>>
  <2>1. <<>> \o <<>> = <<>>
    BY <1>2, ConcatEmptySeq
  <2>2. QED
    BY <1>1, <2>1 DEF Queued
<1>4. QueueOK
  <2>1. Len(batch) <= config.batch
    BY <1>1, ConfigIsConfig, EmptySeq
  <2>2. QED
    BY <1>1, <1>2, <1>3, <2>1 DEF QueueOK, DrainRuns
<1>5. CarriedOK(micro) /\ FlowOf(micro) = {}
  BY <1>1, <1>2, <1>3, NoCalls, NoJobs DEF CarriedOK, FlowOf, AreApart
<1>6. FlushersOK /\ FailuresOK /\ OutcomeOK
  BY <1>1, <1>2 DEF FlushersOK, FailuresOK, OutcomeOK
<1>7. CoreOK(micro)
  BY <1>1, <1>4, <1>5, <1>6 DEF CoreOK
<1>8. Written = {}
  BY <1>1 DEF Written
<1>9. BufferOK
  <2>1. author \in Seq(Users)
    BY <1>1, <1>2
  <2>2. QED
    BY <1>1, <1>2, <1>8, <2>1 DEF BufferOK
<1>10. EveryEventIsSomewhere
  BY <1>1, <1>2, <1>5, <1>8 DEF EveryEventIsSomewhere
<1>11. QED
  BY <1>7, <1>9, <1>10 DEF FlowInv

\* Every job of the job queue keeps the invariant.
LEMMA ContinueKeeps ==
  ASSUME FlowInv, Continue
  PROVE  FlowInv' /\ StepOK
<1>1. CoreOK(micro)
  BY FlowFacts
<1>2. CASE Turn /\ UNCHANGED transport
  <2>1. Moved(FlowOf(micro), {})
    BY <1>1, <1>2, TurnStep
  <2>2. UNCHANGED <<config, closed>>
    BY <1>2 DEF Turn
  <2>3. QED
    BY <1>2, <2>1, <2>2, OwnMove
<1>3. CASE Recheck /\ UNCHANGED transport
  <2>1. PICK due : Moved(FlowOf(micro), due) /\ (due = {} \/ closed)
    BY <1>1, <1>3, RecheckStep
  <2>2. UNCHANGED <<config, closed>>
    BY <1>3 DEF Recheck, Enqueue
  <2>3. due = {} \/ MayLose
    BY <2>1, FlowFacts
  <2>4. QED
    BY <1>3, <2>1, <2>2, <2>3, OwnMove
<1>4. CASE Message
  BY <1>4, MessageKeeps
<1>5. CASE NextEvent
  BY <1>5, NextEventKeeps
<1>6. CASE FlushCalled
  BY <1>6, FlushCalledKeeps
<1>7. QED
  BY <1>2, <1>3, <1>4, <1>5, <1>6 DEF Continue

\* What the server does, and the timer between retries, keeps the invariant.
LEMMA ServerKeeps ==
  ASSUME FlowInv, Arrives \/ Returns \/ Fails \/ Wakes
  PROVE  FlowInv' /\ StepOK
<1>1. CoreOK(micro)
  BY FlowFacts
<1>2. CASE Arrives
  <2>1. Arrive /\ UNCHANGED transport
    BY <1>2 DEF Arrives
  <2>2. UNCHANGED <<config, closed>>
    BY <2>1 DEF Arrive, uploader
  <2>3. QED
    BY <1>1, <2>1, <2>2, ArriveStep, OwnMove
<1>3. CASE Returns
  <2>1. SendReturns /\ UNCHANGED transport
    BY <1>3 DEF Returns
  <2>2. UNCHANGED <<config, closed>>
    BY <2>1 DEF SendReturns
  <2>3. PICK due : Moved(FlowOf(micro), due) /\ (config.refuses \/ due = {})
    BY <1>1, <2>1, ReturnStep
  <2>4. due = {} \/ MayLose
    BY <2>3 DEF MayLose
  <2>5. QED
    BY <2>1, <2>2, <2>3, <2>4, OwnMove
<1>4. CASE Fails
  <2>1. SendFails /\ UNCHANGED transport
    BY <1>4 DEF Fails
  <2>2. UNCHANGED <<config, closed>>
    BY <2>1 DEF SendFails
  <2>3. PICK due : Moved(FlowOf(micro), due) /\ (config.retries # 0 \/ due = {})
    BY <1>1, <2>1, FailStep
  <2>4. due = {} \/ MayLose
    BY <2>3 DEF MayLose
  <2>5. QED
    BY <2>1, <2>2, <2>3, <2>4, OwnMove
<1>5. CASE Wakes
  <2>1. WakeUp /\ UNCHANGED transport
    BY <1>5 DEF Wakes
  <2>2. UNCHANGED <<config, closed>>
    BY <2>1 DEF WakeUp
  <2>3. QED
    BY <1>1, <2>1, <2>2, WakeStep, OwnMove
<1>6. QED
  BY <1>2, <1>3, <1>4, <1>5

\* Every step keeps the invariant and does what the step properties say.
LEMMA NextKeeps ==
  ASSUME FlowInv, [Next]_vars
  PROVE  FlowInv' /\ StepOK
<1>1. CASE \E p \in Users : Calls(p)
  <2>1. PICK p \in Users : Calls(p)
    BY <1>1
  <2>2. CASE WriteStream(p)
    BY <2>2, WriteStreamKeeps
  <2>3. CASE WritePlain(p)
    BY <2>3, WritePlainKeeps
  <2>4. CASE FlushAll(p)
    BY <2>4, FlushAllKeeps
  <2>5. CASE \E n \in 1..MaxBatch : WriteHybrid(p, n) \/ WriteCcr(p, n)
    BY <2>5, WriteHybridKeeps, WriteCcrKeeps
  <2>6. QED
    BY <2>1, <2>2, <2>3, <2>4, <2>5 DEF Calls
<1>2. CASE Closes
  BY <1>2, CloseHybridKeeps, CloseCcrKeeps DEF Closes
<1>3. CASE Continue
  BY <1>3, ContinueKeeps
<1>4. CASE TimerFires
  BY <1>4, TimerFiresKeeps
<1>5. CASE GraceEnds
  BY <1>5, GraceEndsKeeps
<1>6. CASE Arrives \/ Returns \/ Fails \/ Wakes
  BY <1>6, ServerKeeps
<1>7. CASE UNCHANGED vars
  <2>1. UNCHANGED uvars /\ UNCHANGED transport
    BY <1>7 DEF vars
  <2>2. UNCHANGED <<config, closed>>
    BY <2>1 DEF uvars, uploader
  <2>3. QED
    BY <2>1, <2>2, FlowFacts, StillStep, OwnMove
<1>8. QED
  BY <1>1, <1>2, <1>3, <1>4, <1>5, <1>6, <1>7 DEF Next

\* The inductive invariant holds in every reachable state.
THEOREM FlowInvIsKept == Spec => []FlowInv
<1>1. TransportInit => FlowInv
  BY FlowInit
<1>2. FlowInv /\ [Next]_vars => FlowInv'
  BY NextKeeps
<1>3. QED
  BY <1>1, <1>2, PTL DEF Spec

\* The variables of Transports have the types the code gives them; a batch is
\* no larger than allowed, and consecutive failures stay below their limit.
THEOREM TransportsAreTyped == Spec => []TypeOK
<1>1. FlowInv => TypeOK
  <2>1. SUFFICES ASSUME FlowInv PROVE TypeOK
    OBVIOUS
  <2>2. /\ config \in Configs /\ QueueOK /\ FlushersOK /\ FailuresOK /\ OutcomeOK
        /\ CarriedOK(micro)
    BY <2>1 DEF FlowInv, CoreOK
  <2>3. /\ buffer \in Seq(Events) /\ timer \in BOOLEAN /\ closing \in BOOLEAN
        /\ author \in Seq(Users) /\ Written \subseteq Events
    BY <2>1, FlowFacts
  <2>4. /\ pending \in Seq(Events) /\ batch \in Seq(Events) /\ Len(batch) <= config.batch
        /\ drain \in {"idle", "send", "sleep"}
        /\ drain = "send" <=> batch # <<>>
        /\ arrived \in BOOLEAN
    BY <2>2 DEF QueueOK
  <2>5. /\ blocked \in Seq(Call)
        /\ micro \in Seq([call: Call, hops: Nat \ {0},
                          then: {"enqueue", "flush", "message", "event"}])
    BY <2>2 DEF CarriedOK, Job
  <2>6. /\ failures \in Nat /\ (failures = 0 \/ failures < config.retries)
        /\ closed \in BOOLEAN /\ received \in Seq(Events) /\ lost \subseteq Events
        /\ flushers \subseteq [by: Callers, owed: SUBSET Events]
    BY <2>2 DEF FlushersOK, FailuresOK, OutcomeOK
  <2>7. QED
    BY <2>2, <2>3, <2>4, <2>5, <2>6 DEF TypeOK
<1>2. QED
  BY <1>1, FlowInvIsKept, PTL

\* Whereabouts lists the places in which the invariant finds the events.
LEMMA WhereaboutsAre ==
  ASSUME FlowInv
  PROVE  FlowOf(micro) \cup ToSet(buffer) \cup ToSet(received) \subseteq Whereabouts
<1>1. ToSet(Queued) = ToSet(batch) \cup ToSet(pending)
  BY QueuedIs DEF FlowInv, CoreOK
<1>2. /\ ToSet(received) \subseteq Whereabouts /\ ToSet(pending) \subseteq Whereabouts
      /\ ToSet(batch) \subseteq Whereabouts /\ ToSet(buffer) \subseteq Whereabouts
  BY DEF Whereabouts
<1>3. ASSUME NEW i \in DOMAIN blocked PROVE CallEvents(blocked[i]) \subseteq Whereabouts
  <2>1. PICK c : c = blocked[i] /\ c \in ToSet(blocked)
    BY DEF ToSet
  <2>2. ToSet(c.items) \subseteq Whereabouts /\ ToSet(c.rest) \subseteq Whereabouts
    BY <2>1 DEF Whereabouts
  <2>3. QED
    BY <2>1, <2>2 DEF CallEvents
<1>4. ASSUME NEW i \in DOMAIN micro PROVE JobEvents(micro[i]) \subseteq Whereabouts
  <2>1. PICK j : j = micro[i] /\ j \in ToSet(micro)
    BY DEF ToSet
  <2>2. ToSet(j.call.rest) \subseteq Whereabouts
    BY <2>1 DEF Whereabouts
  <2>3. j.then = "enqueue" => ToSet(j.call.items) \subseteq Whereabouts
    BY <2>1 DEF Whereabouts
  <2>4. QED
    BY <2>1, <2>2, <2>3 DEF JobEvents, CallEvents
<1>5. InCalls(blocked) \subseteq Whereabouts /\ InJobs(micro) \subseteq Whereabouts
  BY <1>3, <1>4 DEF InCalls, InJobs
<1>6. QED
  BY <1>1, <1>2, <1>5 DEF FlowOf

\* Every event that was written is somewhere or was given up, none is given up
\* without a reason, and none is pending without a drain that sends it.
THEOREM NothingEverVanishes == Spec => []NothingVanishes
<1>1. FlowInv => NothingVanishes
  <2>1. SUFFICES ASSUME FlowInv PROVE NothingVanishes
    OBVIOUS
  <2>2. DrainRuns
    BY <2>1 DEF FlowInv, CoreOK, QueueOK
  <2>3. Written \subseteq Whereabouts \cup lost /\ lost \subseteq Written
    BY <2>1, WhereaboutsAre, FlowFacts
  <2>4. ~MayLose => lost \subseteq config.bad
    BY <2>1 DEF FlowInv, BufferOK
  <2>5. QED
    BY <2>2, <2>3, <2>4 DEF NothingVanishes
<1>2. QED
  BY <1>1, FlowInvIsKept, PTL

\* While the uploader is open a flush returns only when all that was to be
\* sent when it was called has been.
THEOREM FlushesReturnWhenSent == Spec => FlushMeansSent
<1> DEFINE Sent ==
      /\ \A f \in flushers \ flushers' : closed' \/ f.owed \subseteq ToSet(received') \cup lost'
      /\ FlushCalled /\ ~closed =>
           \/ \E f \in flushers' : f.by = Head(micro).call.by
           \/ ToSet(pending \o batch) \subseteq ToSet(received) \cup lost
<1>1. FlowInv /\ [Next]_vars => Sent
  <2>1. SUFFICES ASSUME FlowInv, [Next]_vars PROVE Sent
    OBVIOUS
  <2>2. ReturnsWhenSent
    BY <2>1, NextKeeps DEF StepOK
  <2>3. FlushCalled => \/ \E f \in flushers' : f.by = Head(micro).call.by
                       \/ ToSet(pending \o batch) \subseteq ToSet(received) \cup lost
    <3>1. SUFFICES ASSUME FlushCalled, ~ \E f \in flushers' : f.by = Head(micro).call.by
                   PROVE  ToSet(pending \o batch) = {}
      OBVIOUS
    <3>2. pending \o batch = <<>>
      BY <2>1, <3>1, FlushCalledKeeps
    <3>3. QED
      BY <3>2, SetOfNone
  <2>4. QED
    BY <2>2, <2>3 DEF ReturnsWhenSent
<1>2. FlowInv /\ [Next]_vars => [Sent]_vars
  BY <1>1
<1> HIDE DEF Sent
<1>3. Spec => [][Sent]_vars
  BY <1>2, FlowInvIsKept, PTL DEF Spec
<1>4. QED
  BY <1>3 DEF FlushMeansSent, Sent

-----------------------------------------------------------------------------
(* The uploader is a channel.                                              *)
\* What the two ends see of a step is a step of the channel.
LEMMA ChannelStepIs ==
  ASSUME QueueOK, ChannelStep
  PROVE  [Channel!Next]_<<Chan, received>>
<1> USE DEF Queued
<1>0. \A s, S : Channel!Dropping(s, S) = Dropping(s, S)
  BY DEF Channel!Dropping, Dropping
<1>1. CASE Chan' = Chan /\ received' = received
  BY <1>1
<1>2. ASSUME NEW t \in Seq(Events), Chan' = Chan \o t, received' = received, Chan' # Chan
      PROVE  Channel!Send
  <2>1. PICK c \in Seq(Events), d \in Seq(Events) : c = Chan /\ d = c \o t
    <3>1. Chan \in Seq(Events)
      BY QueuedIs, SetOfDropping DEF Chan
    <3>2. QED
      BY <3>1, ConcatProperties
  <2>2. SubSeq(c, 1, Len(c)) = SubSeq(d, 1, Len(c)) /\ Len(c) <= Len(d)
    <3>1. Len(c) \in Nat /\ Len(t) \in Nat /\ Len(d) = Len(c) + Len(t)
      BY <2>1, ConcatProperties, LenProperties
    <3>2. CASE c = <<>>
      BY <3>2, <3>1, SubSeqEmpty, EmptySeq
    <3>3. CASE c # <<>>
      <4>1. 1 \in 1..Len(c) /\ Len(c) \in 1..Len(c)
        BY <3>1, <3>3, EmptySeq
      <4>2. SubSeq(c \o t, 1, Len(c)) = SubSeq(c, 1, Len(c))
        BY <4>1, SubSeqOfConcat1
      <4>3. QED
        BY <2>1, <3>1, <4>2
    <3>4. QED
      BY <3>2, <3>3
  <2>3. IsStrictPrefix(Chan, Chan')
    BY <1>2, <2>1, <2>2 DEF IsStrictPrefix, IsPrefix
  <2>4. QED
    BY <2>3, <1>2 DEF Channel!Send, Channel!IsStrictPrefix, Channel!IsPrefix, Chan,
                      IsStrictPrefix, IsPrefix
<1>3. ASSUME NEW n \in 1..Len(Chan), received' = received \o SubSeq(Chan, 1, n),
             Chan' = SubSeq(Chan, n + 1, Len(Chan))
      PROVE  Channel!Deliver
  BY <1>3 DEF Channel!Deliver, Chan
<1>4. ASSUME NEW given \in SUBSET ToSet(Chan), Chan' = Dropping(Chan, given), received' = received
      PROVE  Channel!GiveUp
  BY <1>0, <1>4 DEF Channel!GiveUp, Chan, Channel!ToSet, ToSet
<1>5. QED
  BY <1>1, <1>2, <1>3, <1>4 DEF LineStep, ChannelStep, Channel!Next

\* The uploader implements the channel: what is queued comes out in its order,
\* each event once as the server sees it, or is given up.
THEOREM UploaderIsAChannel == Spec => ChannelSpec
<1>1. TransportInit => Channel!Init
  <2>1. SUFFICES ASSUME TransportInit PROVE Channel!Init
    OBVIOUS
  <2>2. batch = <<>> /\ pending = <<>> /\ received = <<>>
    BY <2>1 DEF TransportInit, Init
  <2>3. <<>> \o <<>> = <<>>
    BY SetOfNone, ConcatEmptySeq
  <2>4. Dropping(batch \o pending, config.bad \cup ToSet(received)) = <<>>
    BY <2>2, <2>3, DroppingEmpty
  <2>5. QED
    BY <2>2, <2>4 DEF Channel!Init
<1>2. FlowInv /\ [Next]_vars => [Channel!Next]_(Channel!channel)
  <2>1. SUFFICES ASSUME FlowInv, [Next]_vars PROVE [Channel!Next]_(Channel!channel)
    OBVIOUS
  <2>2. ChannelStep /\ QueueOK
    BY <2>1, NextKeeps DEF StepOK, FlowInv, CoreOK
  <2>3. [Channel!Next]_<<Chan, received>>
    BY <2>2, ChannelStepIs
  <2>4. QED
    BY <2>3 DEF Channel!channel, Chan, Queued
<1>3. QED
  BY <1>1, <1>2, FlowInvIsKept, PTL DEF Spec, ChannelSpec, Channel!Spec

-----------------------------------------------------------------------------
(* What a sequence orders.                                                 *)
\* What a concatenation orders.
LEMMA OrderedConcat ==
  ASSUME NEW X, NEW s \in Seq(X), NEW t \in Seq(X), NEW x, NEW y
  PROVE  Ordered(x, y, s \o t) <=> \/ Ordered(x, y, s) \/ Ordered(x, y, t)
                                   \/ x \in ToSet(s) /\ y \in ToSet(t)
<1>1. PICK u \in Seq(X) : u = s \o t
  BY ConcatProperties
<1>2. /\ Len(s) \in Nat /\ Len(t) \in Nat /\ Len(u) = Len(s) + Len(t)
      /\ DOMAIN s = 1..Len(s) /\ DOMAIN t = 1..Len(t) /\ DOMAIN u = 1..(Len(s) + Len(t))
      /\ \A i \in 1..(Len(s) + Len(t)) : u[i] = IF i <= Len(s) THEN s[i] ELSE t[i - Len(s)]
  BY <1>1, ConcatProperties, LenProperties
<1>3. ASSUME NEW i \in DOMAIN s PROVE i \in Nat /\ i \in DOMAIN u /\ u[i] = s[i] /\ i <= Len(s)
  BY <1>2
<1>4. ASSUME NEW i \in DOMAIN t
      PROVE  i \in Nat /\ i >= 1 /\ i + Len(s) \in DOMAIN u /\ u[i + Len(s)] = t[i]
  BY <1>2
<1>5. ASSUME NEW i \in DOMAIN u
      PROVE  \/ i \in DOMAIN s /\ u[i] = s[i] /\ i <= Len(s)
             \/ i - Len(s) \in DOMAIN t /\ u[i] = t[i - Len(s)] /\ i > Len(s)
  BY <1>2
<1>6. ASSUME NEW i \in DOMAIN u PROVE i \in Nat
  BY <1>2
<1>7. ASSUME Ordered(x, y, u)
      PROVE  Ordered(x, y, s) \/ Ordered(x, y, t) \/ (x \in ToSet(s) /\ y \in ToSet(t))
  <2>1. PICK k \in DOMAIN u, l \in DOMAIN u : k < l /\ u[k] = x /\ u[l] = y
    BY <1>7 DEF Ordered
  <2>2. CASE k \in DOMAIN s /\ u[k] = s[k] /\ l \in DOMAIN s /\ u[l] = s[l]
    BY <2>1, <2>2 DEF Ordered
  <2>3. CASE k \in DOMAIN s /\ u[k] = s[k] /\ l - Len(s) \in DOMAIN t /\ u[l] = t[l - Len(s)]
    BY <2>1, <2>3 DEF ToSet
  <2>4. CASE /\ k - Len(s) \in DOMAIN t /\ u[k] = t[k - Len(s)]
             /\ l - Len(s) \in DOMAIN t /\ u[l] = t[l - Len(s)]
    <3>1. k - Len(s) < l - Len(s)
      BY <1>2, <1>6, <2>1
    <3>2. QED
      BY <2>1, <2>4, <3>1 DEF Ordered
  <2>5. CASE k > Len(s) /\ l <= Len(s)
    BY <1>2, <1>6, <2>1, <2>5
  <2>6. QED
    BY <1>5, <2>2, <2>3, <2>4, <2>5
<1>8. ASSUME Ordered(x, y, s) PROVE Ordered(x, y, u)
  BY <1>3, <1>8 DEF Ordered
<1>9. ASSUME Ordered(x, y, t) PROVE Ordered(x, y, u)
  <2>1. PICK k \in DOMAIN t, l \in DOMAIN t : k < l /\ t[k] = x /\ t[l] = y
    BY <1>9 DEF Ordered
  <2>2. k + Len(s) < l + Len(s)
    BY <1>2, <1>4, <2>1
  <2>3. QED
    BY <1>4, <2>1, <2>2 DEF Ordered
<1>10. ASSUME x \in ToSet(s), y \in ToSet(t) PROVE Ordered(x, y, u)
  <2>1. PICK k \in DOMAIN s, l \in DOMAIN t : s[k] = x /\ t[l] = y
    BY <1>10 DEF ToSet
  <2>2. k < l + Len(s)
    BY <1>2, <1>3, <1>4
  <2>3. QED
    BY <1>3, <1>4, <2>1, <2>2 DEF Ordered
<1>11. QED
  BY <1>1, <1>7, <1>8, <1>9, <1>10

\* What is ordered is among the elements.
LEMMA OrderedElements ==
  ASSUME NEW s, NEW x, NEW y, Ordered(x, y, s)
  PROVE  x \in ToSet(s) /\ y \in ToSet(s)
  BY DEF Ordered, ToSet

\* Nothing is ordered by a sequence of no or of one element.
LEMMA OrderedFew ==
  ASSUME NEW x, NEW y
  PROVE  ~ Ordered(x, y, <<>>) /\ \A e : ~ Ordered(x, y, <<e>>)
  BY DEF Ordered

-----------------------------------------------------------------------------
(* The order in which events come out.                                     *)

\* Events whose order is kept: all of HybridTransport's, else those of one
\* caller that awaits its writes.
Related(x, y, a) == config.client = "hybrid" \/ (a[x] = a[y] /\ a[x] \in Patient)
Fine(x, y, a) == x < y \/ ~Related(x, y, a)

InOrder(s, a) == \A x, y : Ordered(x, y, s) => Fine(x, y, a)
Ascending(s) == \A x, y : Ordered(x, y, s) => x < y

\* What a call that waits, or a continuation, still has to queue.
CallLoad(c) == [by |-> c.by, items |-> c.items, rest |-> c.rest]
RestLoad(c) == [by |-> c.by, items |-> <<>>, rest |-> c.rest]
JobLoad(j) == IF j.then = "enqueue" THEN CallLoad(j.call) ELSE RestLoad(j.call)
Loads(b, m) == {CallLoad(c) : c \in ToSet(b)} \cup {JobLoad(j) : j \in ToSet(m)}

Carried(l) == ToSet(l.items) \cup ToSet(l.rest)

AllFine(X, Y, a) == \A x \in X, y \in Y : Fine(x, y, a)
Strangers(X, Y, a) == \A x \in X, y \in Y : ~Related(x, y, a)

\* The events of a load are in order; only the rest of a writeBatch, which is
\* its caller's, waits while there is room.
InRow(l, a) ==
  /\ Ascending(l.items) /\ Ascending(l.rest)
  /\ AllFine(ToSet(l.items), ToSet(l.rest), a)
  /\ config.client = "hybrid" => l.rest = <<>>

Owns(l, X, a) == \A e \in X : a[e] = l.by

LoadOK(l, a) == InRow(l, a) /\ Owns(l, Carried(l), a) /\ (Roomy => l.items = <<>>)

\* The order of the events in s and of those that are yet to be queued: they
\* come after those in s as far as they are related, and nothing that is related
\* is in different loads, or in a load and held back.
OrderOf(s, loads, held, a) ==
  /\ InOrder(s, a)
  /\ Ascending(held) /\ AllFine(ToSet(s), ToSet(held), a)
  /\ config.client = "plain" => held = <<>>
  /\ \A l \in loads : /\ LoadOK(l, a)
                      /\ AllFine(ToSet(s), Carried(l), a)
                      /\ Strangers(Carried(l), ToSet(held), a)
  /\ \A l, k \in loads : l = k \/ Strangers(Carried(l), Carried(k), a)

\* A load that may be queued next, or be one of the loads.
Joins(l, s, loads, held, a) ==
  /\ InRow(l, a) /\ Owns(l, ToSet(l.rest), a)
  /\ AllFine(ToSet(s), Carried(l), a)
  /\ Strangers(Carried(l), ToSet(held), a)
  /\ \A k \in loads : Strangers(Carried(k), Carried(l), a)

Rest(l) == [by |-> l.by, items |-> <<>>, rest |-> l.rest]

\* Relatedness is mutual.
LEMMA StrangersMutual ==
  ASSUME NEW X, NEW Y, NEW a, Strangers(X, Y, a)
  PROVE  Strangers(Y, X, a)
  BY DEF Strangers, Related

\* Fewer events are in order, too.
LEMMA OrderThins ==
  ASSUME NEW s, NEW t, NEW loads, NEW less, NEW held, NEW left, NEW a,
         OrderOf(s, loads, held, a),
         \A x, y : Ordered(x, y, t) => Ordered(x, y, s), ToSet(t) \subseteq ToSet(s),
         less \subseteq loads, left = held \/ left = <<>>
  PROVE  OrderOf(t, less, left, a)
<1>1. InOrder(t, a)
  BY DEF OrderOf, InOrder
<1>2. Ascending(left) /\ ToSet(left) \subseteq ToSet(held)
  BY OrderedFew, SetOfNone DEF OrderOf, Ascending
<1>3. AllFine(ToSet(t), ToSet(left), a)
  BY <1>2 DEF OrderOf, AllFine
<1>4. config.client = "plain" => left = <<>>
  BY DEF OrderOf
<1>5. ASSUME NEW l \in less
      PROVE  /\ LoadOK(l, a) /\ AllFine(ToSet(t), Carried(l), a)
             /\ Strangers(Carried(l), ToSet(left), a)
  <2>1. /\ LoadOK(l, a) /\ AllFine(ToSet(s), Carried(l), a)
        /\ Strangers(Carried(l), ToSet(held), a)
    BY DEF OrderOf
  <2>2. QED
    BY <1>2, <2>1 DEF AllFine, Strangers
<1>6. \A l, k \in less : l = k \/ Strangers(Carried(l), Carried(k), a)
  BY DEF OrderOf
<1>7. QED
  BY <1>1, <1>2, <1>3, <1>4, <1>5, <1>6 DEF OrderOf

\* The first events of a load are queued; its rest, or nothing, still waits.
LEMMA OrderQueues ==
  ASSUME NEW s \in Seq(Events), NEW loads, NEW held, NEW a, OrderOf(s, loads, held, a),
         NEW l, Joins(l, s, loads, held, a),
         NEW t \in Seq(Events), \A x, y : Ordered(x, y, t) => Ordered(x, y, l.items),
         ToSet(t) \subseteq ToSet(l.items),
         NEW less, less \subseteq loads \cup {Rest(l)}
  PROVE  OrderOf(s \o t, less, held, a)
<1>0. PICK r : r = Rest(l)
  OBVIOUS
<1>1. r = Rest(l) /\ r.items = <<>> /\ r.rest = l.rest /\ r.by = l.by
  BY <1>0 DEF Rest
<1>2. /\ Carried(r) = ToSet(l.rest) /\ Carried(l) = ToSet(l.items) \cup ToSet(l.rest)
      /\ ToSet(t) \subseteq Carried(l) /\ Carried(r) \subseteq Carried(l)
  BY <1>1, SetOfNone DEF Carried
<1>3. /\ InRow(l, a) /\ Owns(l, ToSet(l.rest), a) /\ AllFine(ToSet(s), Carried(l), a)
      /\ Strangers(Carried(l), ToSet(held), a)
      /\ \A k \in loads : Strangers(Carried(k), Carried(l), a)
  BY DEF Joins
<1>4. /\ InOrder(s, a) /\ Ascending(held) /\ AllFine(ToSet(s), ToSet(held), a)
      /\ config.client = "plain" => held = <<>>
      /\ \A k \in loads : /\ LoadOK(k, a) /\ AllFine(ToSet(s), Carried(k), a)
                          /\ Strangers(Carried(k), ToSet(held), a)
      /\ \A k, j \in loads : k = j \/ Strangers(Carried(k), Carried(j), a)
  BY DEF OrderOf
<1>5. ToSet(s \o t) = ToSet(s) \cup ToSet(t)
  BY SetOfConcat
<1>6. InOrder(s \o t, a)
  <2>1. SUFFICES ASSUME NEW x, NEW y, Ordered(x, y, s \o t) PROVE Fine(x, y, a)
    BY DEF InOrder
  <2>2. Ordered(x, y, s) \/ Ordered(x, y, t) \/ (x \in ToSet(s) /\ y \in ToSet(t))
    BY <2>1, OrderedConcat
  <2>3. CASE Ordered(x, y, s)
    BY <1>4, <2>3 DEF InOrder
  <2>4. CASE Ordered(x, y, t)
    BY <1>3, <2>4 DEF InRow, Ascending, Fine
  <2>5. CASE x \in ToSet(s) /\ y \in ToSet(t)
    BY <1>2, <1>3, <2>5 DEF AllFine
  <2>6. QED
    BY <2>2, <2>3, <2>4, <2>5
<1>7. AllFine(ToSet(s \o t), ToSet(held), a)
  <2>1. AllFine(ToSet(t), ToSet(held), a)
    BY <1>2, <1>3 DEF AllFine, Strangers, Fine
  <2>2. QED
    BY <1>4, <1>5, <2>1 DEF AllFine
<1>8. ASSUME NEW k \in less
      PROVE  /\ LoadOK(k, a) /\ AllFine(ToSet(s \o t), Carried(k), a)
             /\ Strangers(Carried(k), ToSet(held), a)
  <2>1. CASE k \in loads
    <3>1. /\ LoadOK(k, a) /\ AllFine(ToSet(s), Carried(k), a)
          /\ Strangers(Carried(k), ToSet(held), a)
      BY <1>4, <2>1
    <3>2. Strangers(Carried(l), Carried(k), a)
      BY <1>3, <2>1, StrangersMutual
    <3>3. AllFine(ToSet(t), Carried(k), a)
      BY <1>2, <3>2 DEF AllFine, Strangers, Fine
    <3>4. AllFine(ToSet(s \o t), Carried(k), a)
      BY <1>5, <3>1, <3>3 DEF AllFine
    <3>5. QED
      BY <3>1, <3>4
  <2>2. CASE k = r
    <3>1. LoadOK(k, a)
      <4>1. InRow(k, a)
        BY <1>1, <1>3, <2>2, SetOfNone, OrderedFew DEF InRow, Ascending, AllFine
      <4>2. Owns(k, Carried(k), a)
        BY <1>1, <1>2, <1>3, <2>2 DEF Owns
      <4>3. QED
        BY <1>1, <2>2, <4>1, <4>2 DEF LoadOK
    <3>2. AllFine(ToSet(s), Carried(k), a) /\ Strangers(Carried(k), ToSet(held), a)
      BY <1>2, <1>3, <2>2 DEF AllFine, Strangers
    <3>3. AllFine(ToSet(t), Carried(k), a)
      BY <1>2, <1>3, <2>2 DEF AllFine, InRow, Fine
    <3>4. AllFine(ToSet(s \o t), Carried(k), a)
      BY <1>5, <3>2, <3>3 DEF AllFine
    <3>5. QED
      BY <3>1, <3>2, <3>4
  <2>3. QED
    BY <1>1, <2>1, <2>2
<1>9. ASSUME NEW k \in less, NEW j \in less PROVE k = j \/ Strangers(Carried(k), Carried(j), a)
  <2>1. CASE k \in loads /\ j \in loads
    BY <1>4, <2>1
  <2>2. ASSUME NEW i \in loads
        PROVE  Strangers(Carried(i), Carried(r), a) /\ Strangers(Carried(r), Carried(i), a)
    <3>1. Strangers(Carried(i), Carried(l), a)
      BY <1>3
    <3>2. Strangers(Carried(i), Carried(r), a)
      BY <1>2, <3>1 DEF Strangers
    <3>3. QED
      BY <3>2, StrangersMutual
  <2>3. QED
    BY <1>1, <2>1, <2>2
<1>10. QED
  BY <1>4, <1>6, <1>7, <1>8, <1>9 DEF OrderOf

\* A load waits with the others.
LEMMA OrderWaits ==
  ASSUME NEW s, NEW loads, NEW held, NEW a, OrderOf(s, loads, held, a),
         NEW l, Joins(l, s, loads, held, a), Owns(l, ToSet(l.items), a),
         Roomy => l.items = <<>>,
         NEW more, more \subseteq loads \cup {l}
  PROVE  OrderOf(s, more, held, a)
<1>1. /\ InRow(l, a) /\ Owns(l, ToSet(l.rest), a) /\ AllFine(ToSet(s), Carried(l), a)
      /\ Strangers(Carried(l), ToSet(held), a)
      /\ \A k \in loads : Strangers(Carried(k), Carried(l), a)
  BY DEF Joins
<1>2. LoadOK(l, a)
  <2>1. Owns(l, Carried(l), a)
    BY <1>1 DEF Owns, Carried
  <2>2. QED
    BY <1>1, <2>1 DEF LoadOK
<1>3. \A k \in loads : Strangers(Carried(l), Carried(k), a)
  BY <1>1, StrangersMutual
<1>4. /\ InOrder(s, a) /\ Ascending(held) /\ AllFine(ToSet(s), ToSet(held), a)
      /\ config.client = "plain" => held = <<>>
      /\ \A k \in loads : /\ LoadOK(k, a) /\ AllFine(ToSet(s), Carried(k), a)
                          /\ Strangers(Carried(k), ToSet(held), a)
      /\ \A k, j \in loads : k = j \/ Strangers(Carried(k), Carried(j), a)
  BY DEF OrderOf
<1>5. \A k, j \in more : k = j \/ Strangers(Carried(k), Carried(j), a)
  BY <1>1, <1>3, <1>4
<1>6. \A k \in more : /\ LoadOK(k, a) /\ AllFine(ToSet(s), Carried(k), a)
                      /\ Strangers(Carried(k), ToSet(held), a)
  BY <1>1, <1>2, <1>4
<1>7. QED
  BY <1>4, <1>5, <1>6 DEF OrderOf

\* Who wrote an event stays so when others are written.
LEMMA OrderStays ==
  ASSUME NEW s, NEW loads, NEW held, NEW a, NEW b, OrderOf(s, loads, held, a),
         NEW W, ToSet(s) \subseteq W, ToSet(held) \subseteq W,
         \A l \in loads : Carried(l) \subseteq W,
         \A e \in W : b[e] = a[e]
  PROVE  OrderOf(s, loads, held, b)
<1>1. \A x, y \in W : /\ Related(x, y, b) <=> Related(x, y, a)
                      /\ Fine(x, y, b) <=> Fine(x, y, a)
  BY DEF Related, Fine
<1>2. /\ InOrder(s, a) /\ Ascending(held) /\ AllFine(ToSet(s), ToSet(held), a)
      /\ config.client = "plain" => held = <<>>
      /\ \A k \in loads : /\ LoadOK(k, a) /\ AllFine(ToSet(s), Carried(k), a)
                          /\ Strangers(Carried(k), ToSet(held), a)
      /\ \A k, j \in loads : k = j \/ Strangers(Carried(k), Carried(j), a)
  BY DEF OrderOf
<1>3. InOrder(s, b)
  BY <1>1, <1>2, OrderedElements DEF InOrder
<1>4. AllFine(ToSet(s), ToSet(held), b)
  BY <1>1, <1>2 DEF AllFine
<1>5. ASSUME NEW l \in loads
      PROVE  /\ LoadOK(l, b) /\ AllFine(ToSet(s), Carried(l), b)
             /\ Strangers(Carried(l), ToSet(held), b)
  <2>1. /\ LoadOK(l, a) /\ AllFine(ToSet(s), Carried(l), a)
        /\ Strangers(Carried(l), ToSet(held), a) /\ Carried(l) \subseteq W
    BY <1>2
  <2>2. Owns(l, Carried(l), b)
    BY <2>1 DEF LoadOK, Owns
  <2>3. InRow(l, b)
    BY <1>1, <2>1 DEF LoadOK, InRow, AllFine, Carried
  <2>4. LoadOK(l, b)
    BY <2>1, <2>2, <2>3 DEF LoadOK
  <2>5. QED
    BY <1>1, <2>1, <2>4 DEF AllFine, Strangers
<1>6. ASSUME NEW k \in loads, NEW j \in loads, k # j PROVE Strangers(Carried(k), Carried(j), b)
  <2>1. Strangers(Carried(k), Carried(j), a) /\ Carried(k) \subseteq W /\ Carried(j) \subseteq W
    BY <1>2, <1>6
  <2>2. QED
    BY <1>1, <2>1 DEF Strangers
<1>7. QED
  BY <1>2, <1>3, <1>4, <1>5, <1>6 DEF OrderOf

\* New events are held back.
LEMMA OrderHolds ==
  ASSUME NEW s, NEW loads, NEW held \in Seq(Events), NEW a, OrderOf(s, loads, held, a),
         config.client # "plain",
         NEW t \in Seq(Events), Ascending(t),
         \A x \in ToSet(s) \cup ToSet(held), y \in ToSet(t) : x < y,
         \A l \in loads : Strangers(Carried(l), ToSet(t), a)
  PROVE  OrderOf(s, loads, held \o t, a)
<1>1. ToSet(held \o t) = ToSet(held) \cup ToSet(t)
  BY SetOfConcat
<1>2. /\ InOrder(s, a) /\ Ascending(held) /\ AllFine(ToSet(s), ToSet(held), a)
      /\ \A k \in loads : /\ LoadOK(k, a) /\ AllFine(ToSet(s), Carried(k), a)
                          /\ Strangers(Carried(k), ToSet(held), a)
      /\ \A k, j \in loads : k = j \/ Strangers(Carried(k), Carried(j), a)
  BY DEF OrderOf
<1>3. Ascending(held \o t)
  BY <1>2, OrderedConcat DEF Ascending
<1>4. AllFine(ToSet(s), ToSet(held \o t), a)
  BY <1>1, <1>2 DEF AllFine, Fine
<1>5. \A k \in loads : Strangers(Carried(k), ToSet(held \o t), a)
  BY <1>1, <1>2 DEF Strangers
<1>6. QED
  BY <1>2, <1>3, <1>4, <1>5 DEF OrderOf

\* The events of a load.
LEMMA CarriedIs ==
  /\ \A c \in Call : Carried(CallLoad(c)) = CallEvents(c) /\ Carried(RestLoad(c)) = ToSet(c.rest)
                     /\ Rest(CallLoad(c)) = RestLoad(c)
  /\ \A j \in Job : Carried(JobLoad(j)) = JobEvents(j)
<1>1. ASSUME NEW c
      PROVE  /\ Carried(CallLoad(c)) = CallEvents(c) /\ Carried(RestLoad(c)) = ToSet(c.rest)
             /\ Rest(CallLoad(c)) = RestLoad(c)
  <2>1. PICK l, r : l = CallLoad(c) /\ r = RestLoad(c)
    OBVIOUS
  <2>2. /\ l.items = c.items /\ l.rest = c.rest /\ l.by = c.by
        /\ r.items = <<>> /\ r.rest = c.rest
    BY <2>1 DEF CallLoad, RestLoad
  <2>3. Carried(l) = CallEvents(c) /\ Carried(r) = ToSet(c.rest)
    BY <2>2, SetOfNone DEF Carried, CallEvents
  <2>4. Rest(l) = r
    BY <2>1, <2>2 DEF Rest, RestLoad
  <2>5. QED
    BY <2>1, <2>3, <2>4
<1>2. ASSUME NEW j
      PROVE  Carried(JobLoad(j)) = JobEvents(j)
  BY <1>1 DEF JobLoad, JobEvents
<1>3. QED
  BY <1>1, <1>2

\* What the loads carry is what waits for room and what continuations carry.
LEMMA LoadsCarry ==
  ASSUME NEW b \in Seq(Call), NEW m \in Seq(Job), NEW l \in Loads(b, m)
  PROVE  Carried(l) \subseteq InCalls(b) \cup InJobs(m)
<1>1. CASE \E c \in ToSet(b) : l = CallLoad(c)
  <2>1. PICK i \in DOMAIN b : l = CallLoad(b[i])
    BY <1>1 DEF ToSet
  <2>2. b[i] \in Call
    OBVIOUS
  <2>3. Carried(l) = CallEvents(b[i])
    BY <2>1, <2>2, CarriedIs
  <2>4. QED
    BY <2>3 DEF InCalls
<1>2. CASE \E j \in ToSet(m) : l = JobLoad(j)
  <2>1. PICK i \in DOMAIN m : l = JobLoad(m[i])
    BY <1>2 DEF ToSet
  <2>2. m[i] \in Job
    OBVIOUS
  <2>3. Carried(l) = JobEvents(m[i])
    BY <2>1, <2>2, CarriedIs
  <2>4. QED
    BY <2>3 DEF InJobs
<1>3. QED
  BY <1>1, <1>2 DEF Loads

\* The elements of a sequence that is one longer.
LEMMA SetOfAppend ==
  ASSUME NEW X, NEW s \in Seq(X), NEW e \in X
  PROVE  Append(s, e) \in Seq(X) /\ ToSet(Append(s, e)) = ToSet(s) \cup {e}
<1>1. PICK one \in Seq(X) : one = <<e>> /\ ToSet(one) = {e}
  BY SetOfOne
<1>2. Append(s, e) = s \o one
  BY <1>1, AppendIsConcat
<1>3. s \o one \in Seq(X) /\ ToSet(s \o one) = ToSet(s) \cup ToSet(one)
  BY SetOfConcat
<1>4. QED
  BY <1>1, <1>2, <1>3

\* One more call waits.
LEMMA LoadsAppend ==
  ASSUME NEW b \in Seq(Call), NEW m \in Seq(Job), NEW c \in Call
  PROVE  Loads(Append(b, c), m) = Loads(b, m) \cup {CallLoad(c)}
<1>1. ToSet(Append(b, c)) = ToSet(b) \cup {c}
  BY SetOfAppend
<1>2. QED
  BY <1>1 DEF Loads

\* One more continuation.
LEMMA LoadsGoOn ==
  ASSUME NEW b \in Seq(Call), NEW m \in Seq(Job), NEW j \in Job
  PROVE  Loads(b, Append(m, j)) = Loads(b, m) \cup {JobLoad(j)}
<1>1. ToSet(Append(m, j)) = ToSet(m) \cup {j}
  BY SetOfAppend
<1>2. QED
  BY <1>1 DEF Loads

\* A call that returns leaves its rest.
LEMMA LoadsReturn ==
  ASSUME NEW b \in Seq(Call), NEW m \in Seq(Job), NEW c \in Call, CallOK(c)
  PROVE  Loads(b, m \o Return(c)) \subseteq Loads(b, m) \cup {RestLoad(c)}
<1>1. CASE c.then = "nothing"
  <2>1. Return(c) = <<>>
    BY <1>1 DEF Return
  <2>2. m \o Return(c) = m
    BY <2>1, ConcatEmptySeq
  <2>3. QED
    BY <2>2
<1>2. CASE c.then # "nothing"
  <2>1. PICK j : j = Continuation(c, c.hops, c.then)
    OBVIOUS
  <2>2. j = [call |-> c, hops |-> c.hops, then |-> c.then]
    BY <2>1 DEF Continuation
  <2>3. /\ j.then = c.then /\ j.call = c /\ c.then \in {"flush", "message", "event"}
        /\ c.hops \in Nat \ {0}
    BY <1>2, <2>2, CallEventsAreEvents DEF CallOK
  <2>4. j \in Job /\ JobLoad(j) = RestLoad(c)
    BY <2>2, <2>3 DEF Job, JobLoad
  <2>5. Return(c) = <<j>>
    BY <1>2, <2>1 DEF Return
  <2>6. m \o Return(c) = Append(m, j)
    BY <2>4, <2>5, AppendIsConcat
  <2>7. QED
    BY <2>4, <2>6, LoadsGoOn
<1>3. QED
  BY <1>1, <1>2

\* The first continuation is taken.
LEMMA LoadsTail ==
  ASSUME NEW b, NEW m \in Seq(Job), m # <<>>
  PROVE  /\ JobLoad(Head(m)) \in Loads(b, m)
         /\ Loads(b, Tail(m)) \subseteq Loads(b, m)
<1>1. ToSet(m) = {Head(m)} \cup ToSet(Tail(m))
  BY SetOfTail
<1>2. QED
  BY <1>1 DEF Loads

\* Those that waited for room go on with what they carried.
LEMMA LoadsReleased ==
  ASSUME NEW m \in Seq(Job), blocked \in Seq(Call)
  PROVE  Released \in Seq(Job) /\ Loads(<<>>, m \o Released) = Loads(blocked, m)
<1>1. PICK r : r = Released
  OBVIOUS
<1>2. r = [i \in DOMAIN blocked |-> [call |-> blocked[i], hops |-> 1, then |-> "enqueue"]]
  BY <1>1 DEF Released, Continuation
<1>3. DOMAIN blocked = 1..Len(blocked) /\ Len(blocked) \in Nat
      /\ \A i \in DOMAIN blocked : blocked[i] \in Call
  BY LenProperties
<1>4. /\ DOMAIN r = DOMAIN blocked
      /\ \A i \in DOMAIN blocked : /\ r[i] \in Job /\ r[i].call = blocked[i]
                                   /\ r[i].then = "enqueue"
  BY <1>2, <1>3 DEF Job
<1>5. r \in Seq(Job)
  <2>1. r \in [1..Len(blocked) -> Job]
    BY <1>2, <1>3, <1>4
  <2>2. QED
    BY <1>3, <2>1
<1>6. \A i \in DOMAIN blocked : JobLoad(r[i]) = CallLoad(blocked[i])
  BY <1>4 DEF JobLoad
<1>7. {JobLoad(j) : j \in ToSet(r)} = {CallLoad(c) : c \in ToSet(blocked)}
  BY <1>4, <1>6 DEF ToSet
<1>8. ToSet(m \o r) = ToSet(m) \cup ToSet(r) /\ ToSet(<<>>) = {}
  BY <1>5, SetOfConcat, SetOfNone
<1>9. QED
  BY <1>1, <1>5, <1>7, <1>8 DEF Loads

-----------------------------------------------------------------------------
(* Steps of the uploader.                                                  *)
Line == received \o Chan

\* Nothing new is queued: what was in order stays so.
LEMMA LineThins ==
  ASSUME QueueOK, received \in Seq(Events), LineStep
  PROVE  /\ \A x, y : Ordered(x, y, Line') => Ordered(x, y, Line)
         /\ ToSet(Line') \subseteq ToSet(Line)
<1>1. PICK c \in Seq(Events) : c = Chan
  BY QueuedIs, SetOfDropping DEF Chan
<1>2. Line = received \o c /\ Line' = received' \o Chan'
  BY <1>1 DEF Line
<1>3. CASE Chan' = Chan /\ received' = received
  BY <1>1, <1>2, <1>3
<1>4. ASSUME NEW n \in 1..Len(Chan), received' = received \o SubSeq(Chan, 1, n),
             Chan' = SubSeq(Chan, n + 1, Len(Chan))
      PROVE  Line' = Line
  <2>1. n \in 0..Len(c)
    BY <1>1, <1>4, LenProperties
  <2>2. PICK u \in Seq(Events), v \in Seq(Events) :
          u = SubSeq(c, 1, n) /\ v = SubSeq(c, n + 1, Len(c)) /\ c = u \o v
    <3>1. /\ SubSeq(c, 1, n) \in Seq(Events) /\ SubSeq(c, n + 1, Len(c)) \in Seq(Events)
          /\ c = SubSeq(c, 1, n) \o SubSeq(c, n + 1, Len(c))
      BY <2>1, SetOfSplit
    <3>2. QED
      BY <3>1
  <2>3. Line' = (received \o u) \o v
    BY <1>1, <1>2, <1>4, <2>2
  <2>4. PICK r \in Seq(Events) : r = received
    OBVIOUS
  <2>5. (r \o u) \o v = r \o (u \o v)
    BY SMTT(30), ConcatAssociative
  <2>6. QED
    BY <1>2, <2>2, <2>3, <2>4, <2>5
<1>5. ASSUME NEW given \in SUBSET ToSet(Chan), Chan' = Dropping(Chan, given), received' = received
      PROVE  /\ \A x, y : Ordered(x, y, Line') => Ordered(x, y, Line)
             /\ ToSet(Line') \subseteq ToSet(Line)
  <2>1. PICK d \in Seq(Events) : d = Dropping(c, given) /\ ToSet(d) = ToSet(c) \ given
    BY SetOfDropping
  <2>2. Line' = received \o d
    BY <1>1, <1>2, <1>5, <2>1
  <2>3. \A x, y : Ordered(x, y, d) => Ordered(x, y, c)
    BY <2>1, DroppingOrder
  <2>4. /\ ToSet(received \o d) = ToSet(received) \cup ToSet(d)
        /\ ToSet(received \o c) = ToSet(received) \cup ToSet(c)
    BY SetOfConcat
  <2>5. ASSUME NEW x, NEW y, Ordered(x, y, received \o d) PROVE Ordered(x, y, received \o c)
    <3>1. \/ Ordered(x, y, received) \/ Ordered(x, y, d)
          \/ x \in ToSet(received) /\ y \in ToSet(d)
      BY <2>5, OrderedConcat
    <3>2. \/ Ordered(x, y, received) \/ Ordered(x, y, c)
          \/ x \in ToSet(received) /\ y \in ToSet(c)
      BY <2>1, <2>3, <3>1
    <3>3. QED
      BY <3>2, OrderedConcat
  <2>6. QED
    BY <1>2, <2>1, <2>2, <2>4, <2>5
<1>6. QED
  BY <1>3, <1>4, <1>5 DEF LineStep

\* A queue that has room for all events has room for any number of different ones.
LEMMA RoomForAll ==
  ASSUME config \in Configs, Roomy, NEW s \in Seq(Events), Distinct(s)
  PROVE  Len(s) <= config.queue
<1>1. PICK n \in Nat, k \in Nat : n = config.queue /\ k = Len(s)
  BY ConfigIsConfig, LenProperties
<1>2. DOMAIN s = 1..k /\ \A i \in 1..k : s[i] \in Events
  BY <1>1, LenProperties
<1>3. \A e \in Events : e \in 1..n
  BY <1>1, EventsAssumption DEF Roomy
<1>4. PICK f : f = [i \in 1..k |-> s[i]]
  OBVIOUS
<1>5. f \in [1..k -> 1..n]
  BY <1>2, <1>3, <1>4
<1>6. SUFFICES ASSUME n < k PROVE FALSE
  BY <1>1
<1>7. /\ IsFiniteSet(1..k) /\ Cardinality(1..k) = k
      /\ IsFiniteSet(1..n) /\ Cardinality(1..n) = n
  <2>1. 1 \in Int /\ k \in Int /\ n \in Int
    OBVIOUS
  <2>2. /\ IsFiniteSet(1..k) /\ Cardinality(1..k) = IF 1 > k THEN 0 ELSE k - 1 + 1
        /\ IsFiniteSet(1..n) /\ Cardinality(1..n) = IF 1 > n THEN 0 ELSE n - 1 + 1
    BY <2>1, FS_Interval
  <2>3. QED
    BY <2>2
<1>8. PICK i \in 1..k, j \in 1..k : i # j /\ f[i] = f[j]
  <2>1. Cardinality(1..n) < Cardinality(1..k)
    BY <1>6, <1>7
  <2>2. QED
    BY <1>5, <1>7, <2>1, FS_PigeonHole
<1>9. QED
  BY <1>2, <1>4, <1>8 DEF Distinct

\* enqueue keeps the order: its events are queued behind the others, wait, or
\* are dropped.
LEMMA EnqueueOrder ==
  ASSUME NEW m, CoreOK(m), NEW call \in Call, CallOK(call), CallEvents(call) \cap FlowOf(m) = {},
         Enqueue(call, m),
         NEW held, NEW a, OrderOf(Line, Loads(blocked, m), held, a),
         Joins(CallLoad(call), Line, Loads(blocked, m), held, a),
         Owns(CallLoad(call), ToSet(call.items), a) \/ Roomy
  PROVE  OrderOf(Line', Loads(blocked', micro'), held, a)
<1>1. /\ config \in Configs /\ QueueOK /\ FailuresOK /\ received \in Seq(Events)
      /\ blocked \in Seq(Call) /\ m \in Seq(Job)
  BY DEF CoreOK, CarriedOK, OutcomeOK
<1>2. UNCHANGED <<config, closed, received>> /\ call.items \in Seq(Events)
  BY CallEventsAreEvents DEF Enqueue
<1>3. PICK l, loads : l = CallLoad(call) /\ loads = Loads(blocked, m)
  OBVIOUS
<1>4. l.items = call.items /\ Rest(l) = RestLoad(call)
  BY <1>3, CarriedIs DEF CallLoad
<1>5. PICK c \in Seq(Events), s \in Seq(Events) : c = Chan /\ s = Line /\ s = received \o c
  <2>1. Chan \in Seq(Events)
    BY <1>1, QueuedIs, SetOfDropping DEF Chan
  <2>2. QED
    BY <1>1, <2>1, SetOfConcat DEF Line
<1>6. Loads(blocked, m \o Return(call)) \subseteq loads \cup {Rest(l)}
  BY <1>1, <1>3, <1>4, LoadsReturn
<1>7. OrderOf(s, loads, held, a) /\ Joins(l, s, loads, held, a)
      /\ (Owns(l, ToSet(l.items), a) \/ Roomy)
  BY <1>3, <1>4, <1>5
<1>8. CASE call.items = <<>> \/ closed
  <2>1. /\ micro' = m \o Return(call)
        /\ UNCHANGED <<pending, batch, blocked>>
    BY <1>8 DEF Enqueue
  <2>2. Line' = s
    BY <1>2, <1>5, <2>1 DEF Line, Chan, Queued
  <2>3. PICK t \in Seq(Events) : t = <<>> /\ s \o t = s /\ ToSet(t) = {}
    BY ConcatEmptySeq, SetOfNone
  <2>4. OrderOf(s \o t, Loads(blocked, m \o Return(call)), held, a)
    <3>1. (\A x, y : Ordered(x, y, t) => Ordered(x, y, l.items)) /\ ToSet(t) \subseteq ToSet(l.items)
      BY <2>3, OrderedFew
    <3>2. QED
      BY <1>6, <1>7, <3>1, OrderQueues
  <2>5. QED
    BY <2>1, <2>2, <2>3, <2>4
<1>9. CASE ~ (call.items = <<>> \/ closed) /\ ~Fits(call.items)
  <2>1. /\ blocked' = Append(blocked, call) /\ micro' = m /\ UNCHANGED <<pending, batch>>
    BY <1>9 DEF Enqueue
  <2>2. Line' = s
    BY <1>2, <1>5, <2>1 DEF Line, Chan, Queued
  <2>3. ~Roomy
    <3>1. SUFFICES ASSUME Roomy PROVE Fits(call.items)
      BY <1>9
    <3>2. /\ pending \in Seq(Events) /\ Distinct(pending) /\ Distinct(call.items)
          /\ ToSet(pending) \cap ToSet(call.items) = {}
      <4>1. /\ pending \in Seq(Events) /\ Distinct(pending)
            /\ ToSet(pending) \subseteq ToSet(Queued)
        BY <1>1, QueuedIs
      <4>2. ToSet(pending) \subseteq FlowOf(m) /\ ToSet(call.items) \subseteq CallEvents(call)
        BY <4>1 DEF FlowOf, CallEvents
      <4>3. QED
        BY <4>1, <4>2 DEF CallOK
    <3>3. PICK u \in Seq(Events) :
            u = pending \o call.items /\ Distinct(u) /\ Len(u) = Len(pending) + Len(call.items)
      BY <1>2, <3>2, DistinctConcat, ConcatProperties
    <3>4. Len(u) <= config.queue
      BY <1>1, <3>1, <3>3, RoomForAll
    <3>5. QED
      BY <3>3, <3>4 DEF Fits
  <2>4. Loads(Append(blocked, call), m) \subseteq loads \cup {l}
    BY <1>1, <1>3, LoadsAppend
  <2>5. QED
    BY <1>7, <2>1, <2>2, <2>3, <2>4, OrderWaits
<1>10. CASE ~ (call.items = <<>> \/ closed) /\ Fits(call.items)
  <2>1. /\ micro' = m \o Return(call) /\ Kick(pending \o call.items) /\ UNCHANGED blocked
    BY <1>10 DEF Enqueue
  <2>2. Distinct(Queued \o call.items)
    <3>1. ToSet(Queued) \cap ToSet(call.items) = {}
      <4>1. ToSet(Queued) \subseteq FlowOf(m) /\ ToSet(call.items) \subseteq CallEvents(call)
        BY DEF FlowOf, CallEvents
      <4>2. QED
        BY <4>1
    <3>2. Distinct(Queued) /\ Distinct(call.items) /\ Queued \in Seq(Events)
      BY <1>1, QueuedIs DEF QueueOK, CallOK
    <3>3. QED
      BY <1>2, <3>1, <3>2, DistinctConcat
  <2>3. Handled(Queued \o call.items, {})
    BY <1>1, <1>2, <2>1, <2>2, KickStep
  <2>4. PICK t \in Seq(Events) :
          /\ t = Dropping(call.items, config.bad \cup ToSet(received))
          /\ ToSet(t) \subseteq ToSet(call.items)
    BY <1>2, SetOfDropping
  <2>5. Chan' = c \o t
    BY <1>1, <1>2, <1>5, <2>3, <2>4, QueuedChannel
  <2>6. Line' = s \o t
    <3>1. PICK r \in Seq(Events) : r = received
      BY <1>1
    <3>2. (r \o c) \o t = r \o (c \o t)
      BY SMTT(30), ConcatAssociative
    <3>3. QED
      BY <1>2, <1>5, <2>5, <3>1, <3>2 DEF Line
  <2>7. \A x, y : Ordered(x, y, t) => Ordered(x, y, l.items)
    BY <1>2, <1>4, <2>4, DroppingOrder
  <2>8. OrderOf(s \o t, Loads(blocked, m \o Return(call)), held, a)
    BY <1>4, <1>6, <1>7, <2>4, <2>7, OrderQueues
  <2>9. QED
    BY <2>1, <2>6, <2>8
<1>11. QED
  BY <1>8, <1>9, <1>10

-----------------------------------------------------------------------------
(* Steps of the owners.                                                    *)
Orderly == Roomy \/ config.client = "plain"

\* What came out and what is on its way is in order, and so is what is yet to
\* be queued.
OrderNow == OrderOf(Line, Loads(blocked, micro), buffer, author)
OrderInv == Orderly => OrderNow

\* A step after which all is in order.
OrderNext == OrderOf(Line', Loads(blocked', micro'), buffer', author')

\* The configuration does not change.
LEMMA OrderNextIs ==
  ASSUME config' = config, Orderly => OrderNext
  PROVE  OrderInv'
<1>1. Orderly' <=> Orderly
  BY DEF Orderly, Roomy
<1>2. OrderNext => OrderNow'
  BY DEF OrderNext, OrderNow, OrderOf, InOrder, AllFine, Strangers, LoadOK, InRow, Owns, Fine,
         Related, Roomy, Ascending, Loads
<1>3. QED
  BY <1>1, <1>2 DEF OrderInv

\* A step that queues nothing and adds no load.
LEMMA ThinsOrder ==
  ASSUME OrderNow, QueueOK, received \in Seq(Events), LineStep,
         Loads(blocked', micro') \subseteq Loads(blocked, micro),
         buffer' = buffer \/ buffer' = <<>>, author' = author
  PROVE  OrderNext
  BY LineThins, OrderThins DEF OrderNow, OrderNext

\* The first continuation is taken: what it carries may be queued next.
LEMMA HeadJoins ==
  ASSUME OrderNow, CoreOK(micro), micro # <<>>
  PROVE  /\ OrderOf(Line, Loads(blocked, Tail(micro)), buffer, author)
         /\ Joins(JobLoad(Head(micro)), Line, Loads(blocked, Tail(micro)), buffer, author)
         /\ LoadOK(JobLoad(Head(micro)), author)
<1>1. PICK j, m, l, loads, less :
        /\ j \in Job /\ j = Head(micro) /\ m = Tail(micro) /\ l = JobLoad(j)
        /\ loads = Loads(blocked, micro) /\ less = Loads(blocked, m)
  BY HeadCore
<1>2. /\ CoreOK(m) /\ JobEvents(j) \cap FlowOf(m) = {} /\ Carried(l) = JobEvents(j)
  BY <1>1, HeadCore, CarriedIs
<1>3. l \in loads /\ less \subseteq loads
  <2>1. micro \in Seq(Job)
    BY DEF CoreOK, CarriedOK
  <2>2. QED
    BY <1>1, <2>1, LoadsTail
<1>4. OrderOf(Line, loads, buffer, author)
  BY <1>1 DEF OrderNow
<1>5. OrderOf(Line, less, buffer, author)
  BY <1>3, <1>4, OrderThins
<1>6. /\ LoadOK(l, author) /\ AllFine(ToSet(Line), Carried(l), author)
      /\ Strangers(Carried(l), ToSet(buffer), author)
  BY <1>3, <1>4 DEF OrderOf
<1>7. ASSUME NEW k \in less PROVE Strangers(Carried(k), Carried(l), author)
  <2>1. CASE k # l
    BY <1>3, <1>4, <2>1 DEF OrderOf
  <2>2. CASE k = l
    <3>1. blocked \in Seq(Call) /\ m \in Seq(Job)
      BY <1>2 DEF CoreOK, CarriedOK
    <3>2. Carried(k) \subseteq FlowOf(m)
      BY <1>1, <3>1, LoadsCarry DEF FlowOf
    <3>3. Carried(k) = {}
      BY <1>2, <2>2, <3>2
    <3>4. QED
      BY <3>3 DEF Strangers
  <2>3. QED
    BY <2>1, <2>2
<1>8. Joins(l, Line, less, buffer, author)
  <2>1. InRow(l, author) /\ Owns(l, ToSet(l.rest), author)
    BY <1>6 DEF LoadOK, Owns, Carried
  <2>2. QED
    BY <1>6, <1>7, <2>1 DEF Joins
<1>9. QED
  BY <1>1, <1>5, <1>6, <1>8

\* Nothing moves but a continuation.
LEMMA TurnOrder ==
  ASSUME FlowInv, OrderNow, Turn, UNCHANGED transport
  PROVE  OrderNext
<1>1. /\ micro # <<>> /\ micro' = Append(Tail(micro), [Head(micro) EXCEPT !.hops = @ - 1])
      /\ Head(micro).hops > 1
      /\ UNCHANGED <<config, pending, batch, blocked, received, buffer, author>>
  BY DEF Turn, transport, server
<1>2. /\ QueueOK /\ received \in Seq(Events) /\ micro \in Seq(Job) /\ blocked \in Seq(Call)
  BY DEF FlowInv, CoreOK, CarriedOK, OutcomeOK
<1>3. PICK j \in Job, m \in Seq(Job) : j = Head(micro) /\ m = Tail(micro)
  BY <1>1, <1>2, SetOfTail
<1>4. PICK k : k = [j EXCEPT !.hops = @ - 1]
  OBVIOUS
<1>5. k \in Job /\ k.call = j.call /\ k.then = j.then
  <2>1. j.hops \in Nat \ {0} /\ j.hops > 1
    BY <1>1, <1>3 DEF Job
  <2>2. PICK h \in Nat \ {0} : h = j.hops - 1
    BY <2>1
  <2>3. k = [j EXCEPT !.hops = h]
    BY <1>4, <2>2
  <2>4. QED
    BY <2>2, <2>3 DEF Job
<1>6. PICK n, b : n = Append(m, k) /\ b = blocked
  OBVIOUS
<1>7. micro' = n /\ blocked' = b
  BY <1>1, <1>3, <1>4, <1>6
<1>8. Loads(blocked', micro') \subseteq Loads(blocked, micro)
  <2>1. Loads(b, n) = Loads(blocked, m) \cup {JobLoad(k)}
    BY <1>2, <1>3, <1>5, <1>6, LoadsGoOn
  <2>2. JobLoad(k) = JobLoad(j)
    BY <1>5 DEF JobLoad
  <2>3. Loads(b, n) \subseteq Loads(blocked, micro)
    BY <1>1, <1>2, <1>3, <2>1, <2>2, LoadsTail
  <2>4. QED
    BY <1>7, <2>3
<1>9. LineStep
  <2>1. Queued' = Queued
    BY <1>1 DEF Queued
  <2>2. QED
    BY <1>1, <2>1, StillChannel
<1>10. QED
  BY <1>1, <1>2, <1>8, <1>9, ThinsOrder

\* A caller that looks for room again.
LEMMA RecheckOrder ==
  ASSUME FlowInv, OrderNow, Recheck, UNCHANGED transport
  PROVE  OrderNext
<1>1. /\ micro # <<>> /\ Head(micro).then = "enqueue" /\ Enqueue(Head(micro).call, Tail(micro))
      /\ buffer' = buffer /\ author' = author
  BY DEF Recheck, Runs, transport
<1>2. CoreOK(micro)
  BY FlowFacts
<1>3. PICK j, m : j \in Job /\ j = Head(micro) /\ m = Tail(micro)
  BY <1>1, <1>2, HeadCore
<1>4. /\ JobOK(j) /\ CoreOK(m) /\ JobEvents(j) \cap FlowOf(m) = {}
  BY <1>1, <1>2, <1>3, HeadCore
<1>5. PICK call \in Call : call = j.call
  BY <1>3 DEF Job
<1>6. /\ CallOK(call) /\ JobEvents(j) = CallEvents(call) /\ Enqueue(call, m)
      /\ JobLoad(j) = CallLoad(call)
  BY <1>1, <1>3, <1>4, <1>5 DEF JobOK, JobEvents, JobLoad
<1>7. /\ OrderOf(Line, Loads(blocked, m), buffer, author)
      /\ Joins(CallLoad(call), Line, Loads(blocked, m), buffer, author)
      /\ LoadOK(CallLoad(call), author)
  BY <1>1, <1>2, <1>3, <1>6, HeadJoins
<1>8. Owns(CallLoad(call), ToSet(call.items), author)
  BY <1>7 DEF LoadOK, Owns, Carried, CallLoad
<1>9. OrderOf(Line', Loads(blocked', micro'), buffer, author)
  BY <1>4, <1>6, <1>7, <1>8, EnqueueOrder
<1>10. QED
  BY <1>1, <1>9 DEF OrderNext

\* What a call carries as a load.
Load(p, items, rest) == [by |-> p, items |-> items, rest |-> rest]

\* The load of a call that is made.
LEMMA LoadOfCall ==
  ASSUME NEW p, NEW items, NEW then, NEW hops, NEW rest, NEW call,
         call = NewCall(p, items, then, hops, rest)
  PROVE  /\ call.by = p /\ call.items = items /\ call.rest = rest
         /\ CallLoad(call) = Load(p, items, rest) /\ RestLoad(call) = Load(p, <<>>, rest)
<1>1. call.by = p /\ call.items = items /\ call.rest = rest
  BY DEF NewCall
<1>2. QED
  BY <1>1 DEF CallLoad, RestLoad, Load

\* The fields of a load, and what it carries.
LEMMA LoadIs ==
  ASSUME NEW p, NEW items, NEW rest, NEW l, l = Load(p, items, rest)
  PROVE  /\ l.by = p /\ l.items = items /\ l.rest = rest
         /\ Carried(l) = ToSet(items) \cup ToSet(rest)
<1>1. l.by = p /\ l.items = items /\ l.rest = rest
  BY DEF Load
<1>2. QED
  BY <1>1 DEF Carried

\* A load of messages that are still to be queued.
LEMMA NextLoadIs ==
  ASSUME NEW p, NEW rest, NEW l, l = Load(p, <<>>, rest)
  PROVE  l.by = p /\ l.items = <<>> /\ l.rest = rest /\ Carried(l) = ToSet(rest)
<1>1. l.by = p /\ l.items = <<>> /\ l.rest = rest
  BY DEF Load
<1>2. ToSet(<<>>) = {}
  BY SetOfNone
<1>3. QED
  BY <1>1, <1>2 DEF Carried

\* A load that is queued at once.
LEMMA LastLoadIs ==
  ASSUME NEW p, NEW items, NEW l, l = Load(p, items, <<>>)
  PROVE  /\ l.by = p /\ l.items = items /\ l.rest = <<>>
         /\ ToSet(l.rest) = {} /\ Carried(l) = ToSet(items)
<1>1. l.by = p /\ l.items = items /\ l.rest = <<>>
  BY DEF Load
<1>2. ToSet(<<>>) = {}
  BY SetOfNone
<1>3. QED
  BY <1>1, <1>2 DEF Carried

\* A message is queued after its stream events.
LEMMA MessageOrder ==
  ASSUME FlowInv, OrderNow, Message
  PROVE  OrderNext
<1>1. /\ micro # <<>> /\ Head(micro).then = "message"
      /\ Enqueue(NewCall(Head(micro).call.by, <<Head(Head(micro).call.rest)>>, "event", 2,
                         Tail(Head(micro).call.rest)), Tail(micro))
      /\ buffer' = buffer /\ author' = author
  BY DEF Message, Runs, transport
<1>2. PICK m, rest, by : Carries(m, rest, by)
  BY <1>1, HeadCarriesRest
<1>3. /\ m = Tail(micro) /\ rest = Head(micro).call.rest /\ by = Head(micro).call.by
      /\ rest \in Seq(Events) /\ by \in Callers
      /\ CoreOK(m) /\ rest # <<>> /\ Distinct(rest)
      /\ ToSet(rest) \cap FlowOf(m) = {}
  BY <1>1, <1>2 DEF Carries
<1>4. rest \in Seq(Events) /\ rest # <<>> /\ Distinct(rest)
  BY <1>3
<1>5. PICK e \in Events, t \in Seq(Events), one \in Seq(Events) :
        /\ e = Head(rest) /\ t = Tail(rest) /\ one = <<e>> /\ rest = one \o t
        /\ ToSet(one) = {e} /\ Distinct(one)
        /\ ToSet(rest) = ToSet(one) \cup ToSet(t)
  <2>1. /\ Head(rest) \in Events /\ Tail(rest) \in Seq(Events) /\ rest = <<Head(rest)>> \o Tail(rest)
        /\ ToSet(rest) = {Head(rest)} \cup ToSet(Tail(rest))
    BY <1>4, SetOfTail
  <2>2. PICK f \in Events, u \in Seq(Events) :
          /\ f = Head(rest) /\ u = Tail(rest) /\ rest = <<f>> \o u
          /\ ToSet(rest) = {f} \cup ToSet(u)
    BY <2>1
  <2>3. <<f>> \in Seq(Events) /\ ToSet(<<f>>) = {f} /\ Distinct(<<f>>)
    BY SetOfOne
  <2>4. QED
    BY <2>2, <2>3
<1>6. rest = one \o t /\ ToSet(rest) = ToSet(one) \cup ToSet(t)
  BY <1>5
<1>7. Distinct(one) /\ Distinct(t) /\ ToSet(one) \cap ToSet(t) = {}
  BY <1>4, <1>6, DistinctConcat
<1>8. PICK call : call = NewCall(by, one, "event", 2, t)
  OBVIOUS
<1>9. /\ call \in Call /\ CallOK(call) /\ CallEvents(call) = ToSet(rest)
      /\ CallLoad(call) = Load(by, one, t) /\ call.items = one
  <2>1. call \in Call /\ CallOK(call) /\ CallEvents(call) = ToSet(one) \cup ToSet(t)
    BY <1>3, <1>7, <1>8, NewCallIs
  <2>2. QED
    BY <1>6, <1>8, <2>1, LoadOfCall
<1>10. Enqueue(call, m)
  BY <1>1, <1>3, <1>5, <1>8
<1>11. PICK l, k, loads : /\ l = JobLoad(Head(micro)) /\ k = CallLoad(call)
                          /\ loads = Loads(blocked, m)
  OBVIOUS
<1>12. /\ OrderOf(Line, loads, buffer, author) /\ Joins(l, Line, loads, buffer, author)
       /\ LoadOK(l, author)
  <2>1. CoreOK(micro)
    BY FlowFacts
  <2>2. QED
    BY <1>1, <1>3, <1>11, <2>1, HeadJoins
<1>13. l.rest = rest /\ l.items = <<>> /\ l.by = by
  BY <1>1, <1>3, <1>11 DEF JobLoad, RestLoad
<1>14. /\ k.by = by /\ k.items = one /\ k.rest = t /\ Carried(k) = ToSet(rest)
       /\ Carried(l) = ToSet(rest)
  <2>1. k = Load(by, one, t)
    BY <1>9, <1>11
  <2>2. k.by = by /\ k.items = one /\ k.rest = t /\ Carried(k) = ToSet(one) \cup ToSet(t)
    BY <2>1, LoadIs
  <2>3. ToSet(<<>>) = {}
    BY SetOfNone
  <2>4. Carried(l) = ToSet(rest)
    BY <1>13, <2>3 DEF Carried
  <2>5. QED
    BY <1>5, <2>2, <2>4
<1>15. Owns(k, ToSet(k.rest), author) /\ Owns(k, ToSet(call.items), author)
  BY <1>5, <1>9, <1>12, <1>13, <1>14 DEF LoadOK, Owns
<1>16. InRow(k, author)
  <2>1. InRow(l, author)
    BY <1>12 DEF LoadOK
  <2>2. Ascending(rest) /\ config.client # "hybrid"
    BY <1>4, <1>13, <2>1 DEF InRow
  <2>3. \A x, y : (Ordered(x, y, t) \/ (x \in ToSet(one) /\ y \in ToSet(t)))
                   => Ordered(x, y, rest)
    BY <1>6, OrderedConcat
  <2>4. Ascending(t)
    BY <2>2, <2>3 DEF Ascending
  <2>5. \A x \in ToSet(one), y \in ToSet(t) : x < y
    BY <2>2, <2>3 DEF Ascending
  <2>6. Ascending(one)
    BY <1>5, OrderedFew DEF Ascending
  <2>7. QED
    BY <1>14, <2>2, <2>4, <2>5, <2>6 DEF InRow, AllFine, Fine
<1>17. Joins(k, Line, loads, buffer, author)
  BY <1>12, <1>14, <1>15, <1>16 DEF Joins
<1>18. OrderOf(Line', Loads(blocked', micro'), buffer, author)
  <2>1. CallEvents(call) \cap FlowOf(m) = {}
    BY <1>3, <1>9
  <2>2. QED
    BY <1>3, <1>9, <1>10, <1>11, <1>12, <1>15, <1>17, <2>1, EnqueueOrder
<1>19. QED
  BY <1>1, <1>18 DEF OrderNext

\* What is held back may go before a load of the same caller, or before
\* nothing, when nothing else waits with related events.
LEMMA BufferJoins ==
  ASSUME buffer \in Seq(Events), NEW a, NEW loads, OrderOf(Line, loads, buffer, a),
         NEW p, NEW ms, Joins(Load(p, <<>>, ms), Line, loads, <<>>, a),
         AllFine(ToSet(buffer), ToSet(ms), a)
  PROVE  Joins(Load(p, buffer, ms), Line, loads, <<>>, a)
<1>1. PICK l, k : l = Load(p, buffer, ms) /\ k = Load(p, <<>>, ms)
  OBVIOUS
<1>2. /\ l.by = p /\ l.items = buffer /\ l.rest = ms
      /\ Carried(l) = ToSet(buffer) \cup ToSet(ms)
      /\ k.by = p /\ k.items = <<>> /\ k.rest = ms /\ Carried(k) = ToSet(ms)
  BY <1>1, LoadIs, NextLoadIs
<1>3. /\ InRow(k, a) /\ Owns(k, ToSet(ms), a) /\ AllFine(ToSet(Line), Carried(k), a)
      /\ \A j \in loads : Strangers(Carried(j), Carried(k), a)
  BY <1>1, <1>2 DEF Joins
<1>4. /\ Ascending(buffer) /\ AllFine(ToSet(Line), ToSet(buffer), a)
      /\ \A j \in loads : Strangers(Carried(j), ToSet(buffer), a)
  BY DEF OrderOf
<1>5. InRow(l, a) /\ Owns(l, ToSet(l.rest), a)
  BY <1>2, <1>3, <1>4 DEF InRow, Owns
<1>6. AllFine(ToSet(Line), Carried(l), a)
  BY <1>2, <1>3, <1>4 DEF AllFine
<1>7. Strangers(Carried(l), ToSet(<<>>), a)
  BY SetOfNone DEF Strangers
<1>8. \A j \in loads : Strangers(Carried(j), Carried(l), a)
  BY <1>2, <1>3, <1>4 DEF Strangers
<1>9. QED
  BY <1>1, <1>5, <1>6, <1>7, <1>8 DEF Joins

\* A step of writeBatch: what is held back is queued before the next message.
LEMMA StartOrder ==
  ASSUME buffer \in Seq(Events), Distinct(buffer), Orderly, NEW m, CoreOK(m), NEW p \in Callers,
         NEW ms \in Seq(Events), ms # <<>>, Distinct(ms), StartEvent(p, ms, m),
         ToSet(ms) \cap (FlowOf(m) \cup ToSet(buffer)) = {}, ToSet(buffer) \cap FlowOf(m) = {},
         NEW a, OrderOf(Line, Loads(blocked, m), buffer, a),
         Joins(Load(p, <<>>, ms), Line, Loads(blocked, m), <<>>, a),
         AllFine(ToSet(buffer), ToSet(ms), a)
  PROVE  OrderOf(Line', Loads(blocked', micro'), buffer', a)
<1>1. PICK loads : loads = Loads(blocked, m)
  OBVIOUS
<1>2. blocked \in Seq(Call) /\ m \in Seq(Job)
  BY DEF CoreOK, CarriedOK
<1>3. CASE buffer = <<>>
  <2>1. PICK call, j : /\ call = NewCall(p, <<>>, "nothing", 0, ms)
                       /\ j = Continuation(call, 1, "message")
    OBVIOUS
  <2>2. /\ micro' = Append(m, j) /\ blocked' = blocked /\ buffer' = buffer
        /\ UNCHANGED <<config, pending, batch, received>>
    BY <1>3, <2>1 DEF StartEvent, server
  <2>3. /\ call = [by |-> p, items |-> <<>>, then |-> "nothing", hops |-> 0, rest |-> ms]
        /\ j = [call |-> call, hops |-> 1, then |-> "message"]
    BY <2>1 DEF NewCall, Continuation
  <2>4. call \in Call
    BY <2>3, SetOfNone DEF Call
  <2>5. j.call = call /\ j.then = "message" /\ j \in Job
    BY <2>3, <2>4 DEF Job
  <2>6. JobLoad(j) = Load(p, <<>>, ms)
    BY <2>1, <2>5, LoadOfCall DEF JobLoad
  <2>7. PICK l, b, n : l = Load(p, <<>>, ms) /\ b = blocked /\ n = Append(m, j)
    OBVIOUS
  <2>8. Loads(b, n) = loads \cup {l}
    BY <1>1, <1>2, <2>5, <2>6, <2>7, LoadsGoOn
  <2>9. l.items = <<>> /\ Owns(l, ToSet(l.items), a)
    BY <2>7, LoadIs, SetOfNone DEF Owns
  <2>10. OrderOf(Line, loads, buffer, a) /\ Joins(l, Line, loads, buffer, a)
    BY <1>1, <1>3, <2>7
  <2>11. OrderOf(Line, Loads(b, n), buffer, a)
    BY <2>8, <2>9, <2>10, OrderWaits
  <2>12. Line' = Line
    BY <2>2 DEF Line, Chan, Queued
  <2>13. QED
    BY <2>2, <2>7, <2>11, <2>12
<1>4. CASE buffer # <<>>
  <2>1. PICK call : call = NewCall(p, buffer, "message", 2, ms)
    OBVIOUS
  <2>2. Enqueue(call, m) /\ buffer' = <<>>
    BY <1>4, <2>1 DEF StartEvent, TakeBuffer
  <2>3. /\ call \in Call /\ CallOK(call) /\ CallEvents(call) = ToSet(buffer) \cup ToSet(ms)
    <3>1. ToSet(buffer) \cap ToSet(ms) = {}
      OBVIOUS
    <3>2. QED
      BY <2>1, <3>1, NewCallIs
  <2>4. CallLoad(call) = Load(p, buffer, ms)
    BY <2>1, LoadOfCall
  <2>5. Roomy
    BY <1>4 DEF Orderly, OrderOf
  <2>6. OrderOf(Line, loads, <<>>, a)
    BY <1>1, OrderThins
  <2>7. Joins(CallLoad(call), Line, loads, <<>>, a)
    BY <1>1, <2>4, BufferJoins
  <2>8. CallEvents(call) \cap FlowOf(m) = {}
    BY <2>3
  <2>9. OrderOf(Line', Loads(blocked', micro'), <<>>, a)
    BY <1>1, <2>2, <2>3, <2>5, <2>6, <2>7, <2>8, EnqueueOrder
  <2>10. QED
    BY <2>2, <2>9
<1>5. QED
  BY <1>3, <1>4

\* The next message of a batch that is written one by one.
LEMMA NextEventOrder ==
  ASSUME FlowInv, OrderNow, Orderly, NextEvent
  PROVE  OrderNext
<1>1. micro # <<>> /\ Head(micro).then = "event" /\ author' = author
  BY DEF NextEvent, Runs
<1>2. PICK m, rest, by : Carries(m, rest, by)
  BY <1>1, HeadCarriesRest
<1>3. /\ m = Tail(micro) /\ rest = Head(micro).call.rest /\ by = Head(micro).call.by
      /\ rest \in Seq(Events) /\ by \in Callers /\ CoreOK(m) /\ Distinct(rest)
      /\ FlowOf(micro) = FlowOf(m) \cup ToSet(rest) /\ ToSet(rest) \cap FlowOf(m) = {}
  BY <1>2 DEF Carries
<1>4. CoreOK(micro) /\ buffer \in Seq(Events) /\ Distinct(buffer)
      /\ ToSet(buffer) \cap FlowOf(micro) = {}
  BY FlowFacts
<1>5. CASE rest = <<>> \/ closing
  <2>1. /\ micro' = m
        /\ UNCHANGED <<config, pending, batch, blocked, received, buffer>>
    BY <1>3, <1>5 DEF NextEvent, server
  <2>2. QueueOK /\ received \in Seq(Events) /\ micro \in Seq(Job)
    BY <1>4 DEF CoreOK, OutcomeOK, CarriedOK
  <2>3. LineStep
    <3>1. Queued' = Queued
      BY <2>1 DEF Queued
    <3>2. QED
      BY <2>1, <3>1, StillChannel
  <2>4. Loads(blocked', micro') \subseteq Loads(blocked, micro)
    BY <1>1, <1>3, <2>1, <2>2, LoadsTail
  <2>5. QED
    BY <1>1, <2>1, <2>2, <2>3, <2>4, ThinsOrder
<1>6. CASE ~ (rest = <<>> \/ closing)
  <2>1. StartEvent(by, rest, m)
    BY <1>1, <1>3, <1>6 DEF NextEvent
  <2>2. PICK l, loads : l = Load(by, <<>>, rest) /\ loads = Loads(blocked, m)
    OBVIOUS
  <2>3. l = JobLoad(Head(micro))
    BY <1>1, <1>3, <2>2 DEF JobLoad, RestLoad, Load
  <2>4. OrderOf(Line, loads, buffer, author) /\ Joins(l, Line, loads, buffer, author)
    BY <1>1, <1>3, <1>4, <2>2, <2>3, HeadJoins
  <2>5. Carried(l) = ToSet(rest)
    BY <2>2, NextLoadIs
  <2>6. Joins(l, Line, loads, <<>>, author)
    BY <2>4, SetOfNone DEF Joins, Strangers
  <2>7. AllFine(ToSet(buffer), ToSet(rest), author)
    <3>1. Strangers(ToSet(rest), ToSet(buffer), author)
      BY <2>4, <2>5 DEF Joins
    <3>2. Strangers(ToSet(buffer), ToSet(rest), author)
      BY <3>1, StrangersMutual
    <3>3. QED
      BY <3>2 DEF Strangers, AllFine, Fine
  <2>8. OrderOf(Line', Loads(blocked', micro'), buffer', author)
    <3>1. /\ ToSet(rest) \cap (FlowOf(m) \cup ToSet(buffer)) = {}
          /\ ToSet(buffer) \cap FlowOf(m) = {} /\ rest # <<>>
      BY <1>3, <1>4, <1>6
    <3>2. QED
      BY <1>3, <1>4, <2>1, <2>2, <2>4, <2>6, <2>7, <3>1, StartOrder
  <2>9. QED
    BY <1>1, <2>8 DEF OrderNext
<1>7. QED
  BY <1>5, <1>6

\* A flush takes its place.
LEMMA FlushCalledOrder ==
  ASSUME FlowInv, OrderNow, FlushCalled
  PROVE  OrderNext
<1>1. /\ micro # <<>> /\ micro' = Tail(micro)
      /\ UNCHANGED <<config, pending, batch, blocked, received, buffer, author>>
  BY DEF FlushCalled, Runs, Flush, transport, server
<1>2. QueueOK /\ received \in Seq(Events) /\ micro \in Seq(Job)
  BY FlowFacts DEF CoreOK, OutcomeOK, CarriedOK
<1>3. LineStep
  <2>1. Queued' = Queued
    BY <1>1 DEF Queued
  <2>2. QED
    BY <1>1, <2>1, StillChannel
<1>4. Loads(blocked', micro') \subseteq Loads(blocked, micro)
  BY <1>1, <1>2, LoadsTail
<1>5. QED
  BY <1>1, <1>2, <1>3, <1>4, ThinsOrder

\* New events are numbered after the others, and are their writer's.
LEMMA FreshOrder ==
  ASSUME author \in Seq(Users), Written \subseteq Events, NEW p \in Users, NEW n \in Nat \ {0},
         Writes(p, n)
  PROVE  /\ Ascending(Fresh(n)) /\ Fresh(n) \in Seq(Events)
         /\ \A x \in Written, y \in ToSet(Fresh(n)) : x < y
         /\ \A x \in Written : author'[x] = author[x]
         /\ \A y \in ToSet(Fresh(n)) : author'[y] = p
<1>1. PICK k \in Nat : k = Len(author) /\ Written = 1..k
  BY LenProperties DEF Written
<1>2. PICK f : f = Fresh(n)
  OBVIOUS
<1>3. f = [i \in 1..n |-> k + i]
  BY <1>1, <1>2 DEF Fresh
<1>4. DOMAIN f = 1..n /\ \A i \in 1..n : f[i] = k + i
  BY <1>3
<1>5. Ascending(f)
  BY <1>4 DEF Ascending, Ordered
<1>6. \A x \in Written, y \in ToSet(f) : x < y
  BY <1>1, <1>4 DEF ToSet
<1>7. PICK w \in Seq(Users) : w = [i \in 1..n |-> p] /\ Len(w) = n /\ \A i \in 1..n : w[i] = p
  <2>1. PICK w : w = [i \in 1..n |-> p]
    OBVIOUS
  <2>2. w \in Seq(Users) /\ Len(w) = n
    BY <2>1
  <2>3. \A i \in 1..n : w[i] = p
    BY <2>1
  <2>4. QED
    BY <2>1, <2>2, <2>3
<1>8. author' = author \o w
  BY <1>7 DEF Writes
<1>9. \A i \in 1..(k + n) : author'[i] = IF i <= k THEN author[i] ELSE w[i - k]
  BY <1>1, <1>7, <1>8, ConcatProperties
<1>10. \A x \in Written : author'[x] = author[x]
  BY <1>1, <1>9
<1>11. ASSUME NEW i \in 1..n PROVE author'[f[i]] = p
  <2>1. PICK e \in Nat : e = k + i /\ e \in 1..(k + n) /\ ~ (e <= k) /\ e - k = i
    OBVIOUS
  <2>2. author'[e] = w[i]
    BY <1>9, <2>1
  <2>3. QED
    BY <1>4, <1>7, <2>1, <2>2
<1>12. \A y \in ToSet(f) : author'[y] = p
  BY <1>4, <1>11 DEF ToSet
<1>13. f \in Seq(Events)
  BY <1>2, FreshIs
<1>14. QED
  BY <1>2, <1>5, <1>6, <1>10, <1>12, <1>13

\* What came out and what is on its way has been written.
LEMMA LineIsWritten ==
  ASSUME FlowInv
  PROVE  /\ received \in Seq(Events) /\ Chan \in Seq(Events) /\ Line \in Seq(Events)
         /\ ToSet(Line) \subseteq Written /\ ToSet(buffer) \subseteq Written
         /\ \A l \in Loads(blocked, micro) : Carried(l) \subseteq Written
<1>1. /\ CoreOK(micro) /\ QueueOK /\ received \in Seq(Events)
      /\ blocked \in Seq(Call) /\ micro \in Seq(Job)
  BY FlowFacts DEF CoreOK, OutcomeOK, CarriedOK
<1>2. FlowOf(micro) \cup ToSet(buffer) \cup ToSet(received) \cup lost = Written
  BY FlowFacts
<1>3. PICK c \in Seq(Events) : c = Chan /\ ToSet(c) \subseteq ToSet(Queued)
  BY <1>1, QueuedIs, SetOfDropping DEF Chan
<1>4. Line \in Seq(Events) /\ ToSet(Line) = ToSet(received) \cup ToSet(c)
  BY <1>1, <1>3, SetOfConcat DEF Line
<1>5. ToSet(Line) \subseteq Written
  BY <1>2, <1>3, <1>4 DEF FlowOf
<1>6. ASSUME NEW l \in Loads(blocked, micro) PROVE Carried(l) \subseteq Written
  <2>1. Carried(l) \subseteq InCalls(blocked) \cup InJobs(micro)
    BY <1>1, LoadsCarry
  <2>2. QED
    BY <1>2, <2>1 DEF FlowOf
<1>7. QED
  BY <1>1, <1>2, <1>3, <1>4, <1>5, <1>6

\* A load has a caller whose call has not returned.
LEMMA LoadsAreBusy ==
  ASSUME NEW l \in Loads(blocked, micro)
  PROVE  Busy(l.by)
<1>1. CASE \E c \in ToSet(blocked) : l = CallLoad(c)
  <2>1. PICK i \in DOMAIN blocked : l = CallLoad(blocked[i])
    BY <1>1 DEF ToSet
  <2>2. blocked[i].by = l.by
    BY <2>1 DEF CallLoad
  <2>3. QED
    BY <2>2 DEF Busy
<1>2. CASE \E j \in ToSet(micro) : l = JobLoad(j)
  <2>1. PICK i \in DOMAIN micro : l = JobLoad(micro[i])
    BY <1>2 DEF ToSet
  <2>2. micro[i].call.by = l.by
    BY <2>1 DEF JobLoad, CallLoad, RestLoad
  <2>3. QED
    BY <2>2 DEF Busy
<1>3. QED
  BY <1>1, <1>2 DEF Loads

\* New events come after what came out, what is on its way and what is held
\* back, and what waits is of others.
LEMMA WriteOrder ==
  ASSUME FlowInv, OrderNow, Orderly, NEW p \in Users, NEW n \in Nat \ {0}, Writes(p, n)
  PROVE  LET s == Fresh(n) IN
         /\ s \in Seq(Events) /\ Ascending(s) /\ Distinct(s) /\ s # <<>>
         /\ OrderOf(Line, Loads(blocked, micro), buffer, author')
         /\ \A y \in ToSet(s) : author'[y] = p
         /\ \A x \in ToSet(Line) \cup ToSet(buffer), y \in ToSet(s) : x < y
         /\ \A l \in Loads(blocked, micro) : Strangers(Carried(l), ToSet(s), author')
         /\ ToSet(s) \cap (FlowOf(micro) \cup ToSet(buffer)) = {}
<1>1. PICK s : s = Fresh(n)
  OBVIOUS
<1>2. PICK loads, a, b : loads = Loads(blocked, micro) /\ a = author /\ b = author'
  OBVIOUS
<1>3. /\ s \in Seq(Events) /\ Ascending(s) /\ Distinct(s) /\ s # <<>>
      /\ ToSet(s) \cap Written = {}
      /\ \A x \in Written, y \in ToSet(s) : x < y
      /\ \A x \in Written : b[x] = a[x]
      /\ \A y \in ToSet(s) : b[y] = p
  BY <1>1, <1>2, FlowFacts, FreshOrder, FreshIs
<1>4. /\ ToSet(Line) \subseteq Written /\ ToSet(buffer) \subseteq Written
      /\ \A l \in loads : Carried(l) \subseteq Written
  BY <1>2, LineIsWritten
<1>5. OrderOf(Line, loads, buffer, a)
  BY <1>2 DEF OrderNow
<1>6. OrderOf(Line, loads, buffer, b)
  BY <1>3, <1>4, <1>5, OrderStays
<1>7. ASSUME NEW l \in loads PROVE Strangers(Carried(l), ToSet(s), b)
  <2>1. LoadOK(l, b)
    BY <1>6 DEF OrderOf
  <2>2. CASE config.client = "hybrid"
    <3>1. Roomy
      BY <2>2 DEF Orderly
    <3>2. l.items = <<>> /\ l.rest = <<>>
      BY <2>1, <2>2, <3>1 DEF LoadOK, InRow
    <3>3. Carried(l) = {}
      BY <3>2, SetOfNone DEF Carried
    <3>4. QED
      BY <3>3 DEF Strangers
  <2>3. CASE config.client # "hybrid"
    <3>1. ~ (l.by = p /\ p \in Patient)
      BY <1>2, LoadsAreBusy DEF Writes, MayCall
    <3>2. \A x \in Carried(l) : b[x] = l.by
      BY <2>1 DEF LoadOK, Owns
    <3>3. QED
      BY <1>3, <2>3, <3>1, <3>2 DEF Strangers, Related
  <2>4. QED
    BY <2>2, <2>3
<1>8. ToSet(s) \cap (FlowOf(micro) \cup ToSet(buffer)) = {}
  BY <1>3, FlowFacts
<1>9. QED
  BY <1>1, <1>2, <1>3, <1>4, <1>6, <1>7, <1>8

\* A stream event is held back behind the others.
LEMMA WriteStreamOrder ==
  ASSUME FlowInv, OrderNow, Orderly, NEW p \in Users, WriteStream(p)
  PROVE  OrderNext
<1>1. PICK s : s = Fresh(1)
  OBVIOUS
<1>2. Writes(p, 1) /\ buffer' = buffer \o s /\ UNCHANGED uvars /\ config.client # "plain"
  BY <1>1 DEF WriteStream
<1>3. PICK loads, b : loads = Loads(blocked, micro) /\ b = author'
  OBVIOUS
<1>4. /\ s \in Seq(Events) /\ Ascending(s) /\ OrderOf(Line, loads, buffer, b)
      /\ \A x \in ToSet(Line) \cup ToSet(buffer), y \in ToSet(s) : x < y
      /\ \A l \in loads : Strangers(Carried(l), ToSet(s), b)
  BY <1>1, <1>2, <1>3, WriteOrder
<1>5. buffer \in Seq(Events)
  BY FlowFacts
<1>6. OrderOf(Line, loads, buffer \o s, b)
  BY <1>2, <1>4, <1>5, OrderHolds
<1>7. Line' = Line /\ blocked' = blocked /\ micro' = micro
  BY <1>2 DEF uvars, uploader, server, Line, Chan, Queued
<1>8. QED
  BY <1>2, <1>3, <1>6, <1>7 DEF OrderNext

\* The uploader's own events are queued as they come.
LEMMA WritePlainOrder ==
  ASSUME FlowInv, OrderNow, Orderly, NEW p \in Users, WritePlain(p)
  PROVE  OrderNext
<1>1. PICK s : s = Fresh(1)
  OBVIOUS
<1>2. PICK call : call = NewCall(p, s, "nothing", 0, <<>>)
  OBVIOUS
<1>3. /\ Writes(p, 1) /\ Enqueue(call, micro) /\ buffer' = buffer
      /\ config.client = "plain"
  BY <1>1, <1>2 DEF WritePlain
<1>4. PICK loads, b, k : loads = Loads(blocked, micro) /\ b = author' /\ k = CallLoad(call)
  OBVIOUS
<1>5. /\ s \in Seq(Events) /\ Ascending(s) /\ Distinct(s) /\ OrderOf(Line, loads, buffer, b)
      /\ \A x \in ToSet(Line) \cup ToSet(buffer), y \in ToSet(s) : x < y
      /\ \A l \in loads : Strangers(Carried(l), ToSet(s), b)
      /\ \A y \in ToSet(s) : b[y] = p
      /\ ToSet(s) \cap FlowOf(micro) = {}
  BY <1>1, <1>3, <1>4, WriteOrder
<1>6. call \in Call /\ CallOK(call) /\ CallEvents(call) = ToSet(s)
  BY <1>2, <1>5, ClockCalls, LastCallIs
<1>7. /\ k.by = p /\ k.items = s /\ k.rest = <<>> /\ call.items = s /\ ToSet(k.rest) = {}
      /\ Carried(k) = ToSet(s)
  BY <1>2, <1>4, LoadOfCall, LastLoadIs
<1>8. buffer = <<>>
  BY <1>3, <1>5 DEF OrderOf
<1>9. InRow(k, b)
  BY <1>5, <1>7, OrderedFew DEF InRow, AllFine, Ascending
<1>10. Owns(k, ToSet(k.rest), b) /\ Owns(k, ToSet(call.items), b)
  BY <1>5, <1>7 DEF Owns
<1>11. Joins(k, Line, loads, buffer, b)
  BY <1>5, <1>7, <1>8, <1>9, <1>10, SetOfNone DEF Joins, AllFine, Fine, Strangers
<1>12. OrderOf(Line', Loads(blocked', micro'), buffer, b)
  <2>1. CoreOK(micro) /\ CallEvents(call) \cap FlowOf(micro) = {}
    BY <1>5, <1>6, FlowFacts
  <2>2. QED
    BY <1>3, <1>4, <1>5, <1>6, <1>10, <1>11, <2>1, EnqueueOrder
<1>13. QED
  BY <1>3, <1>4, <1>12 DEF OrderNext

\* What is held back is queued, alone or before new messages.
LEMMA BufferOrder ==
  ASSUME FlowInv, OrderNow, Orderly, NEW p \in Callers, NEW then \in {"nothing", "flush"},
         NEW hops \in Nat, then # "nothing" => hops > 0,
         Enqueue(NewCall(p, buffer, then, hops, <<>>), micro), buffer' = <<>>, author' = author
  PROVE  OrderNext
<1>1. PICK call : call = NewCall(p, buffer, then, hops, <<>>)
  OBVIOUS
<1>2. PICK loads, k : loads = Loads(blocked, micro) /\ k = CallLoad(call)
  OBVIOUS
<1>3. /\ CoreOK(micro) /\ buffer \in Seq(Events) /\ Distinct(buffer)
      /\ ToSet(buffer) \cap FlowOf(micro) = {}
  BY FlowFacts
<1>4. call \in Call /\ CallOK(call) /\ CallEvents(call) = ToSet(buffer)
  BY <1>1, <1>3, LastCallIs
<1>5. k = Load(p, buffer, <<>>) /\ call.items = buffer
  BY <1>1, <1>2, LoadOfCall
<1>6. OrderOf(Line, loads, buffer, author)
  BY <1>2 DEF OrderNow
<1>7. OrderOf(Line, loads, <<>>, author)
  BY <1>6, OrderThins
<1>8. Joins(k, Line, loads, <<>>, author)
  <2>1. PICK l : l = Load(p, <<>>, <<>>)
    OBVIOUS
  <2>2. /\ l.items = <<>> /\ l.rest = <<>> /\ ToSet(<<>>) = {} /\ Carried(l) = {}
    BY <2>1, NextLoadIs, SetOfNone
  <2>3. Joins(l, Line, loads, <<>>, author)
    BY <2>2, OrderedFew DEF Joins, InRow, Ascending, Owns, AllFine, Strangers
  <2>4. AllFine(ToSet(buffer), ToSet(<<>>), author)
    BY <2>2 DEF AllFine
  <2>5. QED
    BY <1>3, <1>5, <1>6, <2>1, <2>3, <2>4, BufferJoins
<1>9. Owns(k, ToSet(call.items), author) \/ Roomy
  <2>1. CASE config.client = "plain"
    <3>1. buffer = <<>>
      BY <1>6, <2>1 DEF OrderOf
    <3>2. QED
      BY <1>5, <3>1, SetOfNone DEF Owns
  <2>2. QED
    BY <2>1 DEF Orderly
<1>10. OrderOf(Line', Loads(blocked', micro'), <<>>, author)
  <2>1. Enqueue(call, micro) /\ CallEvents(call) \cap FlowOf(micro) = {}
    BY <1>1, <1>3, <1>4
  <2>2. QED
    BY <1>2, <1>3, <1>4, <1>7, <1>8, <1>9, <2>1, EnqueueOrder
<1>11. QED
  BY <1>10 DEF OrderNext

\* HybridTransport.write: the messages follow the stream events held back.
LEMMA WriteHybridOrder ==
  ASSUME FlowInv, OrderNow, Orderly, NEW p \in Users, NEW n \in 1..MaxBatch, WriteHybrid(p, n)
  PROVE  OrderNext
<1>1. PICK s : s = Fresh(n)
  OBVIOUS
<1>2. /\ Writes(p, n) /\ n \in Nat \ {0} /\ buffer' = <<>> /\ config.client = "hybrid"
      /\ Enqueue(NewCall(p, buffer \o s, "flush", 1, <<>>), micro)
  BY <1>1 DEF WriteHybrid, TakeBuffer
<1>3. PICK loads, b : loads = Loads(blocked, micro) /\ b = author'
  OBVIOUS
<1>4. /\ s \in Seq(Events) /\ Ascending(s) /\ Distinct(s) /\ OrderOf(Line, loads, buffer, b)
      /\ \A x \in ToSet(Line) \cup ToSet(buffer), y \in ToSet(s) : x < y
      /\ \A l \in loads : Strangers(Carried(l), ToSet(s), b)
      /\ ToSet(s) \cap (FlowOf(micro) \cup ToSet(buffer)) = {}
  BY <1>1, <1>2, <1>3, WriteOrder
<1>5. /\ CoreOK(micro) /\ buffer \in Seq(Events) /\ Distinct(buffer)
      /\ ToSet(buffer) \cap FlowOf(micro) = {}
  BY FlowFacts
<1>6. PICK t \in Seq(Events) : /\ t = buffer \o s /\ Distinct(t)
                               /\ ToSet(t) = ToSet(buffer) \cup ToSet(s)
  <2>1. buffer \o s \in Seq(Events) /\ ToSet(buffer \o s) = ToSet(buffer) \cup ToSet(s)
    BY <1>4, <1>5, SetOfConcat
  <2>2. ToSet(buffer) \cap ToSet(s) = {}
    BY <1>4
  <2>3. Distinct(buffer \o s)
    BY <1>4, <1>5, <2>2, DistinctConcat
  <2>4. QED
    BY <2>1, <2>3
<1>7. PICK call, k : call = NewCall(p, t, "flush", 1, <<>>) /\ k = CallLoad(call)
  OBVIOUS
<1>8. call \in Call /\ CallOK(call) /\ CallEvents(call) = ToSet(t)
  <2>1. p \in Callers /\ t \in Seq(Events) /\ Distinct(t)
    BY <1>6, ClockCalls
  <2>2. QED
    BY <1>7, <2>1, LastCallIs
<1>9. k.items = t /\ k.rest = <<>> /\ ToSet(k.rest) = {} /\ Carried(k) = ToSet(t)
  <2>1. k = Load(p, t, <<>>)
    BY <1>7, LoadOfCall
  <2>2. k.items = t /\ k.rest = <<>>
    BY <2>1 DEF Load
  <2>3. ToSet(<<>>) = {}
    BY SetOfNone
  <2>4. QED
    BY <2>2, <2>3 DEF Carried
<1>10. /\ Ascending(buffer) /\ AllFine(ToSet(Line), ToSet(buffer), b)
       /\ \A j \in loads : Strangers(Carried(j), ToSet(buffer), b)
  BY <1>4 DEF OrderOf
<1>11. Ascending(t)
  <2>1. \A x, y : Ordered(x, y, t) => \/ Ordered(x, y, buffer) \/ Ordered(x, y, s)
                                      \/ x \in ToSet(buffer) /\ y \in ToSet(s)
    BY <1>4, <1>5, <1>6, OrderedConcat
  <2>2. QED
    BY <1>4, <1>10, <2>1 DEF Ascending
<1>12. InRow(k, b) /\ Owns(k, ToSet(k.rest), b)
  BY <1>9, <1>11, OrderedFew DEF InRow, Ascending, AllFine, Owns
<1>13. AllFine(ToSet(Line), Carried(k), b)
  BY <1>4, <1>6, <1>9, <1>10 DEF AllFine, Fine
<1>14. \A j \in loads : Strangers(Carried(j), Carried(k), b)
  BY <1>4, <1>6, <1>9, <1>10 DEF Strangers
<1>15. Strangers(Carried(k), ToSet(<<>>), b)
  BY SetOfNone DEF Strangers
<1>16. Joins(k, Line, loads, <<>>, b)
  BY <1>12, <1>13, <1>14, <1>15 DEF Joins
<1>17. OrderOf(Line, loads, <<>>, b)
  BY <1>4, OrderThins
<1>18. OrderOf(Line', Loads(blocked', micro'), <<>>, b)
  <2>1. Enqueue(call, micro) /\ CallEvents(call) \cap FlowOf(micro) = {}
    BY <1>2, <1>4, <1>5, <1>6, <1>7, <1>8
  <2>2. Roomy
    BY <1>2 DEF Orderly
  <2>3. QED
    BY <1>3, <1>5, <1>7, <1>8, <1>16, <1>17, <2>1, <2>2, EnqueueOrder
<1>19. QED
  BY <1>2, <1>3, <1>18 DEF OrderNext

\* The bridge's batch: its first message is next.
LEMMA WriteCcrOrder ==
  ASSUME FlowInv, OrderNow, Orderly, NEW p \in Users, NEW n \in 1..MaxBatch, WriteCcr(p, n)
  PROVE  OrderNext
<1>1. PICK s : s = Fresh(n)
  OBVIOUS
<1>2. /\ Writes(p, n) /\ n \in Nat \ {0} /\ config.client # "hybrid"
      /\ StartEvent(p, s, micro)
  BY <1>1 DEF WriteCcr
<1>3. PICK loads, b : loads = Loads(blocked, micro) /\ b = author'
  OBVIOUS
<1>4. /\ s \in Seq(Events) /\ Ascending(s) /\ Distinct(s) /\ s # <<>>
      /\ OrderOf(Line, loads, buffer, b)
      /\ \A x \in ToSet(Line) \cup ToSet(buffer), y \in ToSet(s) : x < y
      /\ \A l \in loads : Strangers(Carried(l), ToSet(s), b)
      /\ \A y \in ToSet(s) : b[y] = p
      /\ ToSet(s) \cap (FlowOf(micro) \cup ToSet(buffer)) = {}
  BY <1>1, <1>2, <1>3, WriteOrder
<1>5. /\ CoreOK(micro) /\ buffer \in Seq(Events) /\ Distinct(buffer)
      /\ ToSet(buffer) \cap FlowOf(micro) = {}
  BY FlowFacts
<1>6. PICK l : l = Load(p, <<>>, s)
  OBVIOUS
<1>7. l.by = p /\ l.items = <<>> /\ l.rest = s /\ Carried(l) = ToSet(s) /\ ToSet(<<>>) = {}
  BY <1>6, NextLoadIs, SetOfNone
<1>8. InRow(l, b) /\ Owns(l, ToSet(l.rest), b)
  BY <1>2, <1>4, <1>7, OrderedFew DEF InRow, Ascending, AllFine, Owns
<1>9. Joins(l, Line, loads, <<>>, b)
  BY <1>4, <1>7, <1>8 DEF Joins, AllFine, Fine, Strangers
<1>10. AllFine(ToSet(buffer), ToSet(s), b)
  BY <1>4 DEF AllFine, Fine
<1>11. OrderOf(Line', Loads(blocked', micro'), buffer', b)
  <2>1. ToSet(buffer) \cap FlowOf(micro) = {} /\ p \in Callers
    BY <1>5, ClockCalls
  <2>2. QED
    BY <1>2, <1>3, <1>4, <1>5, <1>6, <1>9, <1>10, <2>1, StartOrder
<1>12. QED
  BY <1>3, <1>11 DEF OrderNext

\* HybridTransport.close drops what is held back.
LEMMA CloseHybridOrder ==
  ASSUME FlowInv, OrderNow, CloseHybrid
  PROVE  OrderNext
<1>1. /\ buffer' = <<>>
      /\ UNCHANGED <<config, pending, batch, blocked, micro, received, author>>
  BY DEF CloseHybrid, TakeBuffer, uploader, server
<1>2. QueueOK /\ received \in Seq(Events)
  BY FlowFacts DEF CoreOK, OutcomeOK
<1>3. LineStep
  <2>1. Queued' = Queued
    BY <1>1 DEF Queued
  <2>2. QED
    BY <1>1, <2>1, StillChannel
<1>4. Loads(blocked', micro') \subseteq Loads(blocked, micro)
  BY <1>1
<1>5. QED
  BY <1>1, <1>2, <1>3, <1>4, ThinsOrder

\* The uploader is closed: those that wait look again.
LEMMA CloseOrder ==
  ASSUME FlowInv, OrderNow, NEW gone, Close(gone), buffer' = buffer \/ buffer' = <<>>,
         author' = author
  PROVE  OrderNext
<1>1. /\ pending' = <<>> /\ micro' = micro \o Released /\ blocked' = <<>>
      /\ UNCHANGED <<config, batch, received>>
  BY DEF Close, server
<1>2. /\ QueueOK /\ received \in Seq(Events) /\ blocked \in Seq(Call) /\ micro \in Seq(Job)
  BY FlowFacts DEF CoreOK, OutcomeOK, CarriedOK
<1>3. LineStep
  <2>1. batch \in Seq(Events)
    BY <1>2, QueuedIs
  <2>2. Queued' = batch
    BY <1>1, <2>1, ConcatEmptySeq DEF Queued
  <2>3. QED
    BY <1>1, <1>2, <2>2, CloseChannel
<1>4. Loads(blocked', micro') \subseteq Loads(blocked, micro)
  <2>1. PICK n, b : n = micro \o Released /\ b = <<>>
    OBVIOUS
  <2>2. Loads(b, n) = Loads(blocked, micro)
    BY <1>2, <2>1, LoadsReleased
  <2>3. micro' = n /\ blocked' = b
    BY <1>1, <2>1
  <2>4. QED
    BY <2>2, <2>3
<1>5. QED
  BY <1>2, <1>3, <1>4, ThinsOrder

\* The batch is done with, and those that wait look again.
LEMMA DoneOrder ==
  ASSUME FlowInv, OrderNow, micro = <<>>, UNCHANGED <<config, closed, received, transport>>,
         micro' = Released, blocked' = <<>>, NEW gone, Loop(pending, gone)
  PROVE  OrderNext
<1>1. /\ config \in Configs /\ QueueOK /\ received \in Seq(Events) /\ blocked \in Seq(Call)
      /\ micro \in Seq(Job)
  BY FlowFacts DEF CoreOK, OutcomeOK, CarriedOK
<1>2. pending \in Seq(Events) /\ Distinct(pending)
  BY <1>1, QueuedIs
<1>3. LineStep
  <2>1. Handled(pending, gone)
    BY <1>1, <1>2, LoopStep
  <2>2. QED
    BY <1>1, <2>1, DoneChannel
<1>4. Loads(blocked', micro') \subseteq Loads(blocked, micro)
  <2>1. PICK r, n, b :
          r \in Seq(Job) /\ r = Released /\ n = micro \o r /\ b = <<>> /\ Loads(b, n) = Loads(blocked, micro)
    BY <1>1, LoadsReleased
  <2>2. n = r
    BY <2>1, ConcatEmptySeq
  <2>3. micro' = n /\ blocked' = b
    BY <2>1, <2>2
  <2>4. QED
    BY <2>1, <2>3
<1>5. buffer' = buffer /\ author' = author
  BY DEF transport
<1>6. QED
  BY <1>1, <1>3, <1>4, <1>5, ThinsOrder

\* A failed batch is queued again in front of the rest.
LEMMA FailsOrder ==
  ASSUME FlowInv, OrderNow, Fails
  PROVE  OrderNext
<1>1. SendFails /\ UNCHANGED transport
  BY DEF Fails
<1>2. micro = <<>> /\ UNCHANGED <<config, closed, received>>
  BY <1>1 DEF SendFails, Idle
<1>3. CASE LastFailure
  <2>1. /\ micro' = Released /\ blocked' = <<>>
        /\ Loop(pending, ToSet(batch) \ ToSet(received))
    BY <1>1, <1>3 DEF SendFails
  <2>2. QED
    BY <1>1, <1>2, <2>1, DoneOrder
<1>4. CASE ~LastFailure
  <2>1. /\ pending' = Queued /\ batch' = <<>> /\ UNCHANGED <<blocked, micro>>
    BY <1>1, <1>4 DEF SendFails, Requeued, Queued
  <2>2. QueueOK /\ received \in Seq(Events)
    BY FlowFacts DEF CoreOK, OutcomeOK
  <2>3. Queued' = Queued
    <3>1. Queued \in Seq(Events)
      BY <2>2, QueuedIs
    <3>2. <<>> \o Queued = Queued
      BY <3>1, ConcatEmptySeq
    <3>3. Queued' = batch' \o pending'
      BY DEF Queued
    <3>4. QED
      BY <2>1, <3>2, <3>3
  <2>4. LineStep
    BY <1>2, <2>3, StillChannel
  <2>5. Loads(blocked', micro') \subseteq Loads(blocked, micro)
    BY <2>1
  <2>6. buffer' = buffer /\ author' = author
    BY <1>1 DEF transport
  <2>7. QED
    BY <2>2, <2>4, <2>5, <2>6, ThinsOrder
<1>5. QED
  BY <1>3, <1>4

\* What the server does, and the timer between retries.
LEMMA ServerOrder ==
  ASSUME FlowInv, OrderNow, Arrives \/ Returns \/ Fails \/ Wakes
  PROVE  OrderNext
<1>1. /\ config \in Configs /\ QueueOK /\ received \in Seq(Events)
  BY FlowFacts DEF CoreOK, OutcomeOK
<1>2. CASE Arrives
  <2>1. /\ UNCHANGED <<config, pending, batch, blocked, micro, buffer, author>>
        /\ received' = received \o Dropping(batch, ToSet(received))
    BY <1>2 DEF Arrives, Arrive, uploader, transport
  <2>2. Queued' = Queued
    BY <2>1 DEF Queued
  <2>3. LineStep
    BY <1>1, <2>1, <2>2, ArriveChannel
  <2>4. Loads(blocked', micro') \subseteq Loads(blocked, micro)
    BY <2>1
  <2>5. QED
    BY <1>1, <2>1, <2>3, <2>4, ThinsOrder
<1>3. CASE Returns
  <2>1. /\ micro = <<>> /\ micro' = Released /\ blocked' = <<>>
        /\ Loop(pending, ToSet(batch) \ ToSet(received))
        /\ UNCHANGED <<config, closed, received, transport>>
    BY <1>3 DEF Returns, SendReturns, Idle
  <2>2. QED
    BY <2>1, DoneOrder
<1>4. CASE Wakes
  <2>1. /\ Loop(pending, {}) /\ UNCHANGED <<config, closed, blocked, micro, received>>
        /\ buffer' = buffer /\ author' = author
    BY <1>4 DEF Wakes, WakeUp, transport
  <2>2. pending \in Seq(Events) /\ Distinct(pending)
    BY <1>1, QueuedIs
  <2>3. Handled(pending, {})
    BY <1>1, <2>1, <2>2, LoopStep
  <2>4. LineStep
    BY <1>1, <2>1, <2>3, DoneChannel
  <2>5. Loads(blocked', micro') \subseteq Loads(blocked, micro)
    BY <2>1
  <2>6. QED
    BY <1>1, <2>1, <2>4, <2>5, ThinsOrder
<1>5. QED
  BY <1>2, <1>3, <1>4, FailsOrder

\* Every step keeps the order.
LEMMA OrderKept ==
  ASSUME FlowInv, OrderInv, [Next]_vars
  PROVE  OrderInv'
<1>1. config' = config
  <2>1. CASE UNCHANGED vars
    BY <2>1 DEF vars, uvars, uploader
  <2>2. CASE \E p \in Users : Calls(p)
    BY <2>2 DEF Calls, WriteStream, WritePlain, FlushAll, WriteHybrid, WriteCcr, StartEvent,
                Enqueue, uvars, uploader
  <2>3. CASE Closes \/ GraceEnds
    BY <2>3 DEF Closes, CloseHybrid, CloseCcr, GraceEnds, Close, uploader
  <2>4. CASE Continue
    BY <2>4 DEF Continue, Turn, Recheck, Message, NextEvent, StartEvent, FlushCalled, Flush,
                Enqueue
  <2>5. CASE TimerFires
    BY <2>5 DEF TimerFires, Enqueue
  <2>6. CASE Arrives \/ Returns \/ Fails \/ Wakes
    BY <2>6 DEF Arrives, Returns, Fails, Wakes, Arrive, SendReturns, SendFails, WakeUp, uploader
  <2>7. QED
    BY <2>1, <2>2, <2>3, <2>4, <2>5, <2>6 DEF Next
<1>2. SUFFICES ASSUME Orderly PROVE OrderNext
  BY <1>1, OrderNextIs
<1>3. OrderNow
  BY <1>2 DEF OrderInv
<1>4. CASE \E p \in Users : Calls(p)
  <2>1. PICK p \in Users : Calls(p)
    BY <1>4
  <2>2. CASE WriteStream(p)
    BY <1>2, <1>3, <2>2, WriteStreamOrder
  <2>3. CASE WritePlain(p)
    BY <1>2, <1>3, <2>3, WritePlainOrder
  <2>4. CASE FlushAll(p)
    <3>1. PICK hops \in {1, 2} : Enqueue(NewCall(p, buffer, "flush", hops, <<>>), micro)
      BY <2>4 DEF FlushAll
    <3>2. buffer' = <<>> /\ author' = author /\ p \in Callers
      BY <2>4, ClockCalls DEF FlushAll, TakeBuffer
    <3>3. QED
      BY <1>2, <1>3, <3>1, <3>2, BufferOrder
  <2>5. CASE \E n \in 1..MaxBatch : WriteHybrid(p, n) \/ WriteCcr(p, n)
    BY <1>2, <1>3, <2>5, WriteHybridOrder, WriteCcrOrder
  <2>6. QED
    BY <2>1, <2>2, <2>3, <2>4, <2>5 DEF Calls
<1>5. CASE CloseHybrid
  BY <1>3, <1>5, CloseHybridOrder
<1>6. CASE CloseCcr
  <2>1. Close(ToSet(buffer)) /\ buffer' = <<>> /\ author' = author
    BY <1>6 DEF CloseCcr, TakeBuffer
  <2>2. QED
    BY <1>3, <2>1, CloseOrder
<1>7. CASE GraceEnds
  <2>1. Close({}) /\ buffer' = buffer /\ author' = author
    BY <1>7 DEF GraceEnds, transport
  <2>2. QED
    BY <1>3, <2>1, CloseOrder
<1>8. CASE Continue
  <2>1. CASE Turn /\ UNCHANGED transport
    BY <1>3, <2>1, TurnOrder
  <2>2. CASE Recheck /\ UNCHANGED transport
    BY <1>3, <2>2, RecheckOrder
  <2>3. CASE Message
    BY <1>3, <2>3, MessageOrder
  <2>4. CASE NextEvent
    BY <1>2, <1>3, <2>4, NextEventOrder
  <2>5. CASE FlushCalled
    BY <1>3, <2>5, FlushCalledOrder
  <2>6. QED
    BY <1>8, <2>1, <2>2, <2>3, <2>4, <2>5 DEF Continue
<1>9. CASE TimerFires
  <2>1. /\ Enqueue(NewCall(Clock, buffer, "nothing", 0, <<>>), micro)
        /\ buffer' = <<>> /\ author' = author
    BY <1>9 DEF TimerFires, TakeBuffer
  <2>2. QED
    BY <1>2, <1>3, <2>1, ClockCalls, BufferOrder
<1>10. CASE Arrives \/ Returns \/ Fails \/ Wakes
  BY <1>3, <1>10, ServerOrder
<1>11. CASE UNCHANGED vars
  <2>1. UNCHANGED <<config, pending, batch, blocked, micro, received, buffer, author>>
    BY <1>11 DEF vars, uvars, uploader, server, transport
  <2>2. QueueOK /\ received \in Seq(Events)
    BY FlowFacts DEF CoreOK, OutcomeOK
  <2>3. Queued' = Queued
    BY <2>1 DEF Queued
  <2>4. LineStep
    BY <2>1, <2>3, StillChannel
  <2>5. Loads(blocked', micro') \subseteq Loads(blocked, micro)
    BY <2>1
  <2>6. QED
    BY <1>3, <2>1, <2>2, <2>4, <2>5, ThinsOrder
<1>12. QED
  BY <1>4, <1>5, <1>6, <1>7, <1>8, <1>9, <1>10, <1>11 DEF Next, Closes

\* At first there is nothing to be in order.
LEMMA OrderAtFirst ==
  ASSUME TransportInit
  PROVE  OrderInv
<1>1. /\ pending = <<>> /\ batch = <<>> /\ blocked = <<>> /\ micro = <<>> /\ received = <<>>
      /\ buffer = <<>> /\ author = <<>>
  BY DEF TransportInit, Init
<1>2. ToSet(<<>>) = {}
  BY SetOfNone
<1>3. Loads(blocked, micro) = {}
  BY <1>1, <1>2 DEF Loads
<1>4. Line = <<>>
  <2>1. <<>> \o <<>> = <<>>
    BY SetOfNone, ConcatEmptySeq
  <2>2. QED
    BY <1>1, <2>1, DroppingEmpty DEF Line, Chan, Queued
<1>5. QED
  BY <1>1, <1>2, <1>3, <1>4, OrderedFew
     DEF OrderInv, OrderNow, OrderOf, InOrder, Ascending, AllFine

\* While the queue has room for all events, or nothing is held back, what comes
\* out is in the order in which it was written, but for the events of writes of
\* CCRClient that take turns; and those of one caller that awaits its writes
\* are in order among themselves.
THEOREM EventsArriveInOrder == Spec => []ArriveInOrder
<1>1. TransportInit => FlowInv /\ OrderInv
  BY FlowInit, OrderAtFirst
<1>2. (FlowInv /\ OrderInv) /\ [Next]_vars => (FlowInv /\ OrderInv)'
  BY NextKeeps, OrderKept
<1>3. FlowInv /\ OrderInv => ArriveInOrder
  <2>1. SUFFICES ASSUME FlowInv, OrderInv,
                        NEW i \in DOMAIN received, NEW j \in DOMAIN received,
                        i < j, received[i] > received[j]
                 PROVE  /\ config.client = "hybrid" => ~Roomy
                        /\ Roomy \/ config.client = "plain" =>
                             \/ author[received[i]] # author[received[j]]
                             \/ author[received[j]] \notin Patient
    BY DEF ArriveInOrder
  <2>2. SUFFICES ASSUME Orderly PROVE ~Related(received[i], received[j], author)
    BY DEF Orderly, Related
  <2>3. PICK x \in Events, y \in Events : x = received[i] /\ y = received[j]
    BY <2>1, LineIsWritten
  <2>4. Ordered(x, y, received)
    BY <2>1, <2>3 DEF Ordered
  <2>5. Ordered(x, y, Line)
    BY <2>1, <2>4, LineIsWritten, OrderedConcat DEF Line
  <2>6. Fine(x, y, author)
    BY <2>1, <2>2, <2>5 DEF OrderInv, OrderNow, OrderOf, InOrder
  <2>7. ~ (x < y)
    BY <2>1, <2>3, EventsAssumption
  <2>8. QED
    BY <2>3, <2>6, <2>7 DEF Fine
<1>4. QED
  BY <1>1, <1>2, <1>3, PTL DEF Spec
=============================================================================

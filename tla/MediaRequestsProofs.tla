-------------------------- MODULE MediaRequestsProofs --------------------------
(***************************************************************************)
(* Proofs about permissions: what a request is given is what it asked for  *)
(* and the application has granted, and no request is stranded; for any    *)
(* pages, frames, origins and requests.                                    *)
(***************************************************************************)
EXTENDS MediaRequests, SequenceTheorems, WellFoundedInduction, TLAPS

(* The functions of the permission manager walk over sequences; what holds *)
(* before the first element and is kept by each holds at the end.          *)
LEMMA LeastNat == ASSUME NEW T \in SUBSET Nat, T # {} PROVE \E n \in T : \A m \in T : n <= m
<1> DEFINE R == OpToRel(<, Nat)
<1>1. IsWellFoundedOn(R, Nat)
  BY NatLessThanWellFounded
<1>2. \A m, n \in Nat : m < n => <<m, n>> \in R
  BY DEF OpToRel
<1> HIDE DEF R
<1>3. PICK n \in T : \A m \in T : ~(<<m, n>> \in R)
  BY <1>1, WFMin
<1>4. \A m \in T : ~(m < n)
  BY <1>2, <1>3
<1>5. \A m \in Nat : ~(m < n) => n <= m
  OBVIOUS
<1> QED
  BY <1>4, <1>5

\* Induction up to n.
LEMMA UpTo ==
  ASSUME NEW n \in Nat, NEW T, 0 \in T, \A k \in 0 .. n - 1 : k \in T => k + 1 \in T
  PROVE  n \in T
<1> SUFFICES ASSUME n \notin T PROVE FALSE
  OBVIOUS
<1> DEFINE B == {k \in 0 .. n : k \notin T}
<1>1. B \in SUBSET Nat /\ B # {}
  OBVIOUS
<1>2. PICK k \in B : \A m \in B : k <= m
  BY <1>1, LeastNat
<1>3. k # 0 /\ k \in 0 .. n /\ k \notin T
  BY <1>2
<1>4. k - 1 \in 0 .. n - 1 /\ k - 1 \notin B
  BY <1>2, <1>3
<1> QED
  BY <1>3, <1>4

(* The elements of a sequence. *)
Elems(q) == {q[i] : i \in 1 .. Len(q)}

\* A sequence over S has elements of S only.
LEMMA ElemsOf ==
  ASSUME NEW S, NEW q \in Seq(S)
  PROVE  /\ Len(q) \in Nat /\ Elems(q) \subseteq S /\ ToSet(q) = Elems(q)
         /\ \A i \in 1 .. Len(q) : q[i] \in Elems(q)
         /\ q # <<>> => Len(q) >= 1
<1>1. Len(q) \in Nat /\ DOMAIN q = 1 .. Len(q) /\ \A i \in 1 .. Len(q) : q[i] \in S
  BY LenProperties, ElementOfSeq
<1>2. q # <<>> => Len(q) >= 1
  BY <1>1, EmptySeq
<1> QED
  BY <1>1, <1>2 DEF Elems, ToSet

\* What Append adds to a sequence.
LEMMA Appended ==
  ASSUME NEW S, NEW q \in Seq(S), NEW x \in S
  PROVE  /\ Append(q, x) \in Seq(S) /\ Elems(Append(q, x)) = Elems(q) \union {x}
         /\ Len(Append(q, x)) = Len(q) + 1 /\ Append(q, x)[Len(q) + 1] = x
         /\ \A i \in 1 .. Len(q) : Append(q, x)[i] = q[i]
         /\ Append(q, x) # <<>>
<1> DEFINE t == Append(q, x)
<1>1. Len(q) \in Nat
  BY LenProperties
<1>2. t \in Seq(S) /\ Len(t) = Len(q) + 1 /\ t[Len(q) + 1] = x /\ \A i \in 1 .. Len(q) : t[i] = q[i]
  BY AppendProperties
<1> HIDE DEF t
<1>3. Elems(t) \subseteq Elems(q) \union {x}
  <2> SUFFICES ASSUME NEW i \in 1 .. Len(q) + 1 PROVE t[i] \in Elems(q) \union {x}
    BY <1>2 DEF Elems
  <2>1. CASE i = Len(q) + 1
    BY <2>1, <1>2
  <2>2. CASE i \in 1 .. Len(q)
    BY <2>2, <1>2 DEF Elems
  <2> QED
    BY <2>1, <2>2, <1>1
<1>4. Elems(q) \union {x} \subseteq Elems(t)
  <2>1. x \in Elems(t)
    BY <1>1, <1>2 DEF Elems
  <2>2. \A i \in 1 .. Len(q) : i \in 1 .. Len(t) /\ q[i] = t[i]
    BY <1>1, <1>2
  <2> QED
    BY <2>1, <2>2 DEF Elems
<1>5. t # <<>>
  BY <1>1, <1>2, EmptySeq
<1> QED
  BY <1>2, <1>3, <1>4, <1>5 DEF t

(* A queue in which nobody waits twice, when one of those leaves it.       *)
Distinct(q) == \A i, j \in 1 .. Len(q) : q[i] = q[j] => i = j

\* The empty queue has nobody in it.
LEMMA NothingIn == Elems(<<>>) = {} /\ Distinct(<<>>)
BY DEF Elems, Distinct

\* Who was not in the queue may join it.
LEMMA DistinctAppended ==
  ASSUME NEW S, NEW q \in Seq(S), NEW x \in S, Distinct(q), x \notin Elems(q)
  PROVE  Distinct(Append(q, x))
<1> DEFINE t == Append(q, x)
<1>1. /\ Len(q) \in Nat /\ Len(t) = Len(q) + 1 /\ t[Len(q) + 1] = x
      /\ \A i \in 1 .. Len(q) : t[i] = q[i] /\ t[i] # x
  BY Appended, LenProperties DEF Elems
<1> HIDE DEF t
<1>2. \A i \in 1 .. Len(t) : i = Len(q) + 1 \/ i \in 1 .. Len(q)
  BY <1>1
<1>3. \A i, j \in 1 .. Len(t) : t[i] = t[j] => i = j
  BY <1>1, <1>2 DEF Distinct
<1> QED
  BY <1>3 DEF Distinct, t

\* Taking the head away takes one waiting request away.
LEMMA HeadLeaves ==
  ASSUME NEW S, NEW q \in Seq(S), q # <<>>, Distinct(q)
  PROVE  /\ Head(q) \in S /\ Tail(q) \in Seq(S) /\ Elems(Tail(q)) = Elems(q) \ {Head(q)}
         /\ Head(q) \in Elems(q) /\ Distinct(Tail(q)) /\ (Tail(q) # <<>> => Len(q) > 1)
<1> DEFINE t == Tail(q)
<1>1. /\ Head(q) \in S /\ t \in Seq(S) /\ Len(t) = Len(q) - 1 /\ Head(q) = q[1]
      /\ \A i \in 1 .. Len(t) : t[i] = q[i + 1]
  BY HeadTailProperties
<1>2. Len(q) \in Nat \ {0}
  BY EmptySeq
<1> HIDE DEF t
<1>3. Distinct(t)
  <2> SUFFICES ASSUME NEW i \in 1 .. Len(t), NEW j \in 1 .. Len(t), t[i] = t[j] PROVE i = j
    BY DEF Distinct
  <2>1. i + 1 \in 1 .. Len(q) /\ j + 1 \in 1 .. Len(q) /\ q[i + 1] = q[j + 1]
    BY <1>1, <1>2
  <2>2. i + 1 = j + 1
    BY <2>1 DEF Distinct
  <2> QED
    BY <2>2, <1>1, <1>2
<1>4. \A i \in 1 .. Len(t) : t[i] \in Elems(q) /\ t[i] # Head(q)
  <2> SUFFICES ASSUME NEW i \in 1 .. Len(t) PROVE t[i] \in Elems(q) /\ t[i] # Head(q)
    OBVIOUS
  <2>1. i + 1 \in 1 .. Len(q) /\ 1 \in 1 .. Len(q) /\ i + 1 # 1 /\ t[i] = q[i + 1]
    BY <1>1, <1>2
  <2> QED
    BY <2>1, <1>1 DEF Elems, Distinct
<1>5. \A i \in 1 .. Len(q) : q[i] = Head(q) \/ q[i] \in Elems(t)
  <2> SUFFICES ASSUME NEW i \in 1 .. Len(q), i # 1 PROVE q[i] \in Elems(t)
    BY <1>1
  <2>1. i - 1 \in 1 .. Len(t) /\ t[i - 1] = q[i]
    BY <1>1, <1>2
  <2> QED
    BY <2>1 DEF Elems
<1>6. Head(q) \in Elems(q)
  BY <1>1, <1>2 DEF Elems
<1>7. t # <<>> => Len(q) > 1
  BY <1>1, <1>2, EmptySeq
<1>8. Elems(t) \subseteq Elems(q) \ {Head(q)} /\ Elems(q) \ {Head(q)} \subseteq Elems(t)
  BY <1>4, <1>5 DEF Elems
<1> QED
  BY <1>1, <1>3, <1>6, <1>7, <1>8 DEF t

\* Removing a request that waits removes that one.
LEMMA OneLeaves ==
  ASSUME NEW S, NEW q \in Seq(S), NEW x \in Elems(q), Distinct(q)
  PROVE  /\ RemoveFirst(q, x) \in Seq(S) /\ Elems(RemoveFirst(q, x)) = Elems(q) \ {x}
         /\ Distinct(RemoveFirst(q, x))
<1> DEFINE t == RemoveFirst(q, x)
           I == {i \in 1 .. Len(q) : q[i] = x}
           n == CHOOSE i \in I : \A j \in I : i <= j
<1>0. Len(q) \in Nat /\ \A i \in 1 .. Len(q) : q[i] \in S
  BY ElemsOf, ElementOfSeq
<1>1. I \in SUBSET Nat /\ I # {}
  BY <1>0 DEF Elems
<1>2. n \in 1 .. Len(q) /\ q[n] = x
  <2>1. \E i \in I : \A j \in I : i <= j
    BY <1>1, LeastNat
  <2>2. n \in I
    BY <2>1
  <2> QED
    BY <2>2
<1>3. t = RemoveAt(q, n)
  <2>1. \E i \in 1 .. Len(q) : q[i] = x
    BY <1>2
  <2>2. n = SelectInSeq(q, LAMBDA v : v = x)
    BY <1>1 DEF SelectInSeq, Min
  <2> QED
    BY <2>1, <2>2 DEF RemoveFirst
<1> HIDE DEF n, I
<1> DEFINE a == SubSeq(q, 1, n - 1)
           b == SubSeq(q, n + 1, Len(q))
<1>4. a \in Seq(S) /\ Len(a) = n - 1 /\ \A i \in 1 .. n - 1 : a[i] = q[i]
  <2>1. \A i \in 1 .. n - 1 : q[i] \in S
    BY <1>0, <1>2
  <2>2. /\ a \in Seq(S) /\ Len(a) = IF 1 <= n - 1 THEN (n - 1) - 1 + 1 ELSE 0
        /\ \A i \in 1 .. (n - 1) - 1 + 1 : a[i] = q[1 + i - 1]
    BY <1>2, <2>1, SubSeqProperties, n - 1 \in Int
  <2> HIDE DEF a
  <2>3. \A i \in 1 .. n - 1 : i \in 1 .. (n - 1) - 1 + 1 /\ 1 + i - 1 = i
    BY <1>2
  <2>4. Len(a) = n - 1
    BY <2>2, <1>2
  <2> QED
    BY <2>2, <2>3, <2>4
<1>5. b \in Seq(S) /\ Len(b) = Len(q) - n /\ \A i \in 1 .. Len(q) - n : b[i] = q[n + i]
  <2>1. \A i \in n + 1 .. Len(q) : q[i] \in S
    BY <1>0, <1>2
  <2>2. /\ b \in Seq(S) /\ Len(b) = IF n + 1 <= Len(q) THEN Len(q) - (n + 1) + 1 ELSE 0
        /\ \A i \in 1 .. Len(q) - (n + 1) + 1 : b[i] = q[(n + 1) + i - 1]
    BY <1>0, <1>2, <2>1, SubSeqProperties, n + 1 \in Int
  <2> HIDE DEF b
  <2>3. \A i \in 1 .. Len(q) - n : i \in 1 .. Len(q) - (n + 1) + 1 /\ (n + 1) + i - 1 = n + i
    BY <1>0, <1>2
  <2>4. Len(b) = Len(q) - n
    BY <2>2, <1>0, <1>2
  <2> QED
    BY <2>2, <2>3, <2>4
<1>6. t = a \o b
  BY <1>3 DEF RemoveAt
<1> HIDE DEF a, b, t
<1>7. /\ t \in Seq(S) /\ Len(t) = Len(q) - 1
      /\ \A i \in 1 .. Len(t) : t[i] = q[IF i < n THEN i ELSE i + 1]
  <2>1. /\ t \in Seq(S) /\ Len(t) = Len(a) + Len(b)
        /\ \A i \in 1 .. Len(a) + Len(b) : t[i] = IF i <= Len(a) THEN a[i] ELSE b[i - Len(a)]
    BY <1>4, <1>5, <1>6, ConcatProperties
  <2>2. Len(t) = Len(q) - 1
    BY <2>1, <1>4, <1>5, <1>0, <1>2
  <2>3. ASSUME NEW i \in 1 .. Len(t) PROVE t[i] = q[IF i < n THEN i ELSE i + 1]
    <3>1. t[i] = IF i <= Len(a) THEN a[i] ELSE b[i - Len(a)]
      BY <2>1
    <3>2. CASE i < n
      BY <3>1, <3>2, <1>4, <2>2, <1>0, <1>2
    <3>3. CASE ~(i < n)
      <4>1. i - Len(a) \in 1 .. Len(q) - n /\ ~(i <= Len(a)) /\ n + (i - Len(a)) = i + 1
        BY <3>3, <1>4, <2>2, <1>0, <1>2
      <4> QED
        BY <4>1, <3>1, <3>3, <1>5
    <3> QED
      BY <3>2, <3>3
  <2> QED
    BY <2>1, <2>2, <2>3
<1> DEFINE w(i) == IF i < n THEN i ELSE i + 1
<1>8. \A i \in 1 .. Len(t) : w(i) \in 1 .. Len(q) /\ w(i) # n /\ t[i] = q[w(i)]
  BY <1>7, <1>0, <1>2
<1>9. \A i, j \in 1 .. Len(t) : w(i) = w(j) => i = j
  BY <1>7, <1>0, <1>2
<1>10. \A k \in 1 .. Len(q) : k = n \/ \E i \in 1 .. Len(t) : w(i) = k
  <2> SUFFICES ASSUME NEW k \in 1 .. Len(q), k # n PROVE \E i \in 1 .. Len(t) : w(i) = k
    OBVIOUS
  <2>1. CASE k < n
    BY <2>1, <1>7, <1>0, <1>2
  <2>2. CASE k > n
    <3>1. k - 1 \in 1 .. Len(t) /\ w(k - 1) = k
      BY <2>2, <1>7, <1>0, <1>2
    <3> QED
      BY <3>1
  <2> QED
    BY <2>1, <2>2, <1>2
<1> HIDE DEF w
<1>11. Distinct(t)
  BY <1>8, <1>9 DEF Distinct
<1>12. Elems(t) \subseteq Elems(q) \ {x}
  BY <1>8, <1>2 DEF Elems, Distinct
<1>13. Elems(q) \ {x} \subseteq Elems(t)
  <2> SUFFICES ASSUME NEW k \in 1 .. Len(q), q[k] # x PROVE q[k] \in Elems(t)
    BY DEF Elems
  <2>1. PICK i \in 1 .. Len(t) : w(i) = k
    BY <1>10, <1>2
  <2>2. t[i] = q[k]
    BY <2>1, <1>8
  <2> QED
    BY <2>2 DEF Elems
<1> QED
  BY <1>7, <1>11, <1>12, <1>13 DEF t
-----------------------------------------------------------------------------
(* The state as a record, whose operators the functions of the permission  *)
(* manager and of the dispatcher are.                                      *)
Message == [frame : Frames, types : Asked, req : Requests]
Given   == [m : Message, granted : SUBSET Types]
State   == [persistent : [Origins -> [Types -> Statuses]], transient : [Frames -> [Types -> Statuses]],
            multi : Seq(Message), prompts : SUBSET FrameTypes, alive : SUBSET ThePages,
            queue : [ThePages -> Seq(Requests)], tasks : [ThePages -> Nat],
            asked : [Requests -> FrameTypes \union {NotAsked}],
            state : [Requests -> {"new", "waiting", "answered", "refused", "closed"}],
            given : [Requests -> SUBSET Types], answers : Seq(Given)]

(* What was granted is allowed (A). *)
StoresInv(s, A) ==
  /\ \A o \in Origins, t \in Types : s.persistent[o][t] = "granted" => <<o, t>> \in A
  /\ \A f \in Frames, t \in Types : s.transient[f][t] = "granted" => <<OriginOf[f], t>> \in A

(* A message is the request its number stands for; what an answer gives    *)
(* was asked for and is allowed.                                           *)
Known(s, m) ==
  m \in Message /\ s.state[m.req] # "new" /\ s.asked[m.req] = [frame |-> m.frame, types |-> m.types]
(* Two messages are not of one request that the manager answers itself.    *)
Plain(m) == ~IsMedia(m.types)
Differ(m, k) == Plain(m) /\ Plain(k) => m.req # k.req
Unique(q, a) ==
  /\ \A i, j \in 1 .. Len(q) : i # j => Differ(q[i], q[j])
  /\ \A i, j \in 1 .. Len(a) : i # j => Differ(a[i].m, a[j].m)
  /\ \A i \in 1 .. Len(q), j \in 1 .. Len(a) : Differ(q[i], a[j].m)

AllowedTo(A, f, types, got) == \A t \in got : t \in ToSet(types) /\ <<OriginOf[f], t>> \in A
MessagesInv(s, A) ==
  /\ Unique(s.multi, s.answers)
  /\ \A m \in Elems(s.multi) : Known(s, m)
  /\ \A a \in Elems(s.answers) : Known(s, a.m) /\ AllowedTo(A, a.m.frame, a.m.types, a.granted)

(* Who is in the queue of a page waits for media, asked for by the page.   *)
QueueInv(s) ==
  \A p \in ThePages :
    /\ Distinct(s.queue[p])
    /\ \A r \in Elems(s.queue[p]) : /\ s.state[r] = "waiting" /\ s.asked[r] \in FrameTypes
                                    /\ IsMedia(s.asked[r].types) /\ PageOf[s.asked[r].frame] = p

RequestsInv(s, A) ==
  \A r \in Requests :
    /\ s.state[r] # "new" => s.asked[r] \in FrameTypes
    /\ s.given[r] # {} <=> s.state[r] = "answered"
    /\ AllowedTo(A, s.asked[r].frame, s.asked[r].types, s.given[r])

Base(s, A) == /\ s \in State /\ A \subseteq Origins \X Types
              /\ StoresInv(s, A) /\ MessagesInv(s, A) /\ QueueInv(s) /\ RequestsInv(s, A)

(* Nobody is stranded while the messages in P are on their way.            *)
MediaOf(m, p) == IsMedia(m.types) /\ PageOf[m.frame] = p
Owed(s, P) ==
  /\ \A r \in Requests : s.state[r] = "waiting" =>
       IF IsMedia(s.asked[r].types) THEN r \in Elems(s.queue[PageOf[s.asked[r].frame]])
       ELSE \E m \in P : m.req = r
  /\ \A p \in ThePages : s.queue[p] # <<>> => s.tasks[p] > 0 \/ \E m \in P : MediaOf(m, p)

(* A message of P waits for its answer, and what has an end keeps it.      *)
Awaits(s, P) == \A m \in P : Known(s, m) /\ (Plain(m) => s.state[m.req] = "waiting")
Stays(s, t) ==
  \A r \in Requests : s.state[r] \in {"answered", "refused", "closed"} =>
    t.state[r] = s.state[r] /\ t.given[r] = s.given[r]

\* A request that waits, and that no message is of, may have one.
LEMMA UniqueWaiting ==
  ASSUME NEW q \in Seq(Message), NEW a \in Seq(Given), Unique(q, a), NEW m \in Message,
         \A k \in Elems(q) \union {x.m : x \in Elems(a)} : Differ(m, k)
  PROVE  Unique(Append(q, m), a)
<1> DEFINE t == Append(q, m)
<1>1. /\ Len(q) \in Nat /\ Len(t) = Len(q) + 1 /\ t[Len(q) + 1] = m
      /\ \A i \in 1 .. Len(q) : t[i] = q[i]
  BY Appended, LenProperties
<1>2. /\ \A i \in 1 .. Len(q) : Differ(m, q[i]) /\ Differ(q[i], m)
      /\ \A i \in 1 .. Len(a) : Differ(m, a[i].m)
  BY DEF Elems, Differ
<1> HIDE DEF t
<1>3. \A i \in 1 .. Len(t) : (i = Len(q) + 1 /\ t[i] = m) \/ (i \in 1 .. Len(q) /\ t[i] = q[i])
  BY <1>1
<1>4. ASSUME NEW i \in 1 .. Len(t), NEW j \in 1 .. Len(t), i # j PROVE Differ(t[i], t[j])
  BY <1>2, <1>3, <1>4 DEF Unique
<1>5. ASSUME NEW i \in 1 .. Len(t), NEW j \in 1 .. Len(a) PROVE Differ(t[i], a[j].m)
  BY <1>2, <1>3, <1>5 DEF Unique
<1> QED
  BY <1>4, <1>5 DEF Unique, t

\* Or an answer.
LEMMA UniqueAnswered ==
  ASSUME NEW q \in Seq(Message), NEW a \in Seq(Given), Unique(q, a), NEW x \in Given,
         \A k \in Elems(q) \union {y.m : y \in Elems(a)} : Differ(x.m, k)
  PROVE  Unique(q, Append(a, x))
<1> DEFINE t == Append(a, x)
<1>1. /\ Len(a) \in Nat /\ Len(t) = Len(a) + 1 /\ t[Len(a) + 1] = x
      /\ \A i \in 1 .. Len(a) : t[i] = a[i]
  BY Appended, LenProperties
<1>2. /\ \A i \in 1 .. Len(q) : Differ(q[i], x.m)
      /\ \A i \in 1 .. Len(a) : Differ(x.m, a[i].m) /\ Differ(a[i].m, x.m)
  BY DEF Elems, Differ
<1> HIDE DEF t
<1>3. \A i \in 1 .. Len(t) : (i = Len(a) + 1 /\ t[i] = x) \/ (i \in 1 .. Len(a) /\ t[i] = a[i])
  BY <1>1
<1>4. ASSUME NEW i \in 1 .. Len(t), NEW j \in 1 .. Len(t), i # j PROVE Differ(t[i].m, t[j].m)
  BY <1>2, <1>3, <1>4 DEF Unique
<1>5. ASSUME NEW i \in 1 .. Len(q), NEW j \in 1 .. Len(t) PROVE Differ(q[i], t[j].m)
  BY <1>2, <1>3, <1>5 DEF Unique
<1> QED
  BY <1>4, <1>5 DEF Unique, t

\* Fewer messages are as unique.
LEMMA UniqueLess ==
  ASSUME NEW q, NEW a, Unique(q, a) PROVE Unique(<<>>, a) /\ Unique(q, <<>>) /\ Unique(<<>>, <<>>)
BY DEF Unique

\* What stays, stays over two steps.
LEMMA StaysOn == ASSUME NEW s, NEW t, NEW u, Stays(s, t), Stays(t, u) PROVE Stays(s, u)
BY DEF Stays

\* More messages on the way strand nobody.
LEMMA OwedMore == ASSUME NEW s, NEW P, NEW Q, Owed(s, P), P \subseteq Q PROVE Owed(s, Q)
BY DEF Owed

\* What a permission can be about is a sequence of types.
LEMMA TypesOf ==
  ASSUME NEW types \in Decidable
  PROVE  types \in Seq(Types) /\ ToSet(types) \subseteq Types
<1>1. types \in Seq(Types)
  <2>1. \A a, b \in Types : <<a>> \in Seq(Types) /\ <<a, b>> \in Seq(Types)
    OBVIOUS
  <2>2. "mic" \in Types /\ "cam" \in Types /\ "notify" \in Types
    BY DEF Types
  <2> QED
    BY <2>1, <2>2 DEF Decidable
<1> QED
  BY <1>1, ElemsOf

\* So is what pages ask for.
LEMMA AskedTypes == ASSUME NEW types \in Asked PROVE ToSet(types) \subseteq Types /\ types \in Seq(Types)
BY TypesOf, PermissionConstants

\* A frame has an origin and a page.
LEMMA OfFrame == ASSUME NEW f \in Frames PROVE OriginOf[f] \in Origins /\ PageOf[f] \in ThePages /\ f # NoFrame
BY MediaConstants DEF Origins, ThePages

(* Only the stores, the prompts and the messages of s and t differ.        *)
SameRequests(s, t) ==
  /\ t.alive = s.alive /\ t.queue = s.queue /\ t.tasks = s.tasks /\ t.asked = s.asked
  /\ t.state = s.state /\ t.given = s.given

\* What speaks of the requests only stays true.
LEMMA RequestsStay ==
  ASSUME NEW s, NEW t, NEW A, NEW P, SameRequests(s, t)
  PROVE  /\ QueueInv(s) => QueueInv(t) 
         /\ RequestsInv(s, A) => RequestsInv(t, A)
         /\ Owed(s, P) => Owed(t, P)
         /\ \A m : Known(s, m) => Known(t, m)
         /\ Awaits(s, P) => Awaits(t, P)
         /\ Stays(s, t)
<1>1. \A m : Known(s, m) => Known(t, m)
  BY DEF SameRequests, Known
<1>2. (Awaits(s, P) => Awaits(t, P)) /\ Stays(s, t)
  BY <1>1 DEF SameRequests, Awaits, Stays
<1> QED
  BY <1>1, <1>2 DEF SameRequests, QueueInv, RequestsInv, Owed, Known
-----------------------------------------------------------------------------
(* The stores. *)
LEMMA StatusIs ==
  ASSUME NEW s \in State, NEW A, StoresInv(s, A), NEW f \in Frames, NEW t \in Types
  PROVE  /\ Status(s, f, t) \in Statuses
         /\ Status(s, f, t) = "granted" => <<OriginOf[f], t>> \in A
<1>1. OriginOf[f] \in Origins
  BY OfFrame
<1>2. /\ s.persistent[OriginOf[f]][t] \in Statuses /\ s.transient[f][t] \in Statuses
  BY <1>1 DEF State
<1>3. /\ s.persistent[OriginOf[f]][t] = "granted" => <<OriginOf[f], t>> \in A
      /\ s.transient[f][t] = "granted" => <<OriginOf[f], t>> \in A
  BY <1>1 DEF StoresInv
<1> QED
  BY <1>2, <1>3 DEF Status

SameMessages(s, t) ==
  /\ SameRequests(s, t) /\ t.prompts = s.prompts /\ t.multi = s.multi /\ t.answers = s.answers

\* Moving a permission to the frame's own store moves no more than it says.
LEMMA MovedKeeps ==
  ASSUME NEW s \in State, NEW A, StoresInv(s, A), NEW f \in Frames, NEW T
  PROVE  Moved(s, f, T) \in State /\ StoresInv(Moved(s, f, T), A) /\ SameMessages(s, Moved(s, f, T))
<1> DEFINE M == {t \in T : Moves(s, f, t)}
           tr == [t \in Types |-> IF t \in M THEN Status(s, f, t) ELSE s.transient[f][t]]
           pe == [t \in Types |-> IF t \in M THEN "ask" ELSE s.persistent[OriginOf[f]][t]]
           u == [s EXCEPT !.transient = [@ EXCEPT ![f] = tr],
                          !.persistent = [@ EXCEPT ![OriginOf[f]] = pe]]
<1>0. OriginOf[f] \in Origins
  BY OfFrame
<1>1. tr \in [Types -> Statuses] /\ \A t \in Types : tr[t] = "granted" => <<OriginOf[f], t>> \in A
  <2> SUFFICES ASSUME NEW t \in Types
               PROVE  tr[t] \in Statuses /\ (tr[t] = "granted" => <<OriginOf[f], t>> \in A)
    OBVIOUS
  <2>1. tr[t] = IF t \in M THEN Status(s, f, t) ELSE s.transient[f][t]
    OBVIOUS
  <2>2. /\ s.transient[f][t] \in Statuses
        /\ s.transient[f][t] = "granted" => <<OriginOf[f], t>> \in A
    BY DEF State, StoresInv
  <2> HIDE DEF M, tr
  <2>3. /\ Status(s, f, t) \in Statuses
        /\ Status(s, f, t) = "granted" => <<OriginOf[f], t>> \in A
    BY StatusIs
  <2> QED
    BY <2>1, <2>2, <2>3
<1>2. pe \in [Types -> Statuses] /\ \A t \in Types : pe[t] = "granted" => <<OriginOf[f], t>> \in A
  BY <1>0 DEF State, StoresInv, Statuses
<1>3. Moved(s, f, T) = u
  BY DEF Moved, State
<1> HIDE DEF tr, pe
<1>4. u \in State /\ SameMessages(s, u)
  BY <1>0, <1>1, <1>2 DEF State, SameMessages, SameRequests
<1>5. StoresInv(u, A)
  BY <1>0, <1>1, <1>2 DEF State, StoresInv
<1> HIDE DEF u
<1> QED
  BY <1>3, <1>4, <1>5
-----------------------------------------------------------------------------
(* The messages: those that wait and those that are answered.              *)
OnTheWay(s) == Elems(s.multi) \union {a.m : a \in Elems(s.answers)}
Fresh(s, m) == \A k \in OnTheWay(s) : Differ(m, k)

\* A change of the stores alone keeps the invariant.
LEMMA Kept ==
  ASSUME NEW s, NEW t, NEW A, Base(s, A), t \in State, SameMessages(s, t), StoresInv(t, A)
  PROVE  Base(t, A) /\ OnTheWay(t) = OnTheWay(s)
<1>1. SameRequests(s, t)
  BY DEF SameMessages
<1>2. MessagesInv(t, A)
  BY <1>1, RequestsStay DEF SameMessages, Base, MessagesInv
<1> QED
  BY <1>1, <1>2, RequestsStay DEF Base, OnTheWay, SameMessages

\* A request that is put to those that wait is on the way.
LEMMA WaitsOn ==
  ASSUME NEW s, NEW A, Base(s, A), NEW m, Known(s, m), Fresh(s, m),
         NEW t, t = [s EXCEPT !.multi = Append(@, m)]
  PROVE  Base(t, A) /\ SameRequests(s, t) /\ OnTheWay(t) = OnTheWay(s) \union {m}
<1>1. s \in State /\ s.multi \in Seq(Message) /\ m \in Message
  BY DEF Base, State, Known
<1>2. Append(s.multi, m) \in Seq(Message) /\ Elems(Append(s.multi, m)) = Elems(s.multi) \union {m}
  BY <1>1, Appended
<1> DEFINE q == Append(s.multi, m)
<1>3. t = [s EXCEPT !.multi = q]
  OBVIOUS
<1> HIDE DEF q
<1>4. /\ t \in State /\ SameRequests(s, t) /\ t.multi = q /\ t.answers = s.answers
      /\ t.persistent = s.persistent /\ t.transient = s.transient
  BY <1>1, <1>2, <1>3 DEF State, SameRequests, q
<1>5. Elems(t.multi) = Elems(s.multi) \union {m}
  BY <1>2, <1>4 DEF q
<1>6. MessagesInv(t, A)
  <2>1. Unique(t.multi, t.answers)
    <3>1. Unique(s.multi, s.answers) /\ s.answers \in Seq(Given)
      BY <1>1 DEF Base, MessagesInv, State
    <3>2. Unique(Append(s.multi, m), s.answers)
      BY <1>1, <3>1, UniqueWaiting DEF Fresh, OnTheWay
    <3> QED
      BY <1>4, <3>2 DEF q
  <2> QED
    BY <1>4, <1>5, <2>1, RequestsStay DEF Base, MessagesInv
<1>7. StoresInv(t, A)
  BY <1>4 DEF Base, StoresInv
<1> QED
  BY <1>4, <1>5, <1>6, <1>7, RequestsStay DEF Base, OnTheWay

\* So is one that is answered.
LEMMA Answered ==
  ASSUME NEW s, NEW A, Base(s, A), NEW m, Known(s, m), Fresh(s, m),
         NEW g, AllowedTo(A, m.frame, m.types, g)
  PROVE  LET t == Answer(s, m, g)
         IN Base(t, A) /\ SameRequests(s, t) /\ OnTheWay(t) = OnTheWay(s) \union {m}
<1> DEFINE t == Answer(s, m, g)
           a == [m |-> m, granted |-> g]
           q == Append(s.answers, a)
<1>1. s \in State /\ s.answers \in Seq(Given) /\ m \in Message
  BY DEF Base, State, Known
<1>2. a \in Given
  <2>1. m.types \in Asked
    BY <1>1 DEF Message
  <2>2. g \subseteq Types
    BY <2>1, AskedTypes DEF AllowedTo
  <2> QED
    BY <1>1, <2>2 DEF Given
<1>3. q \in Seq(Given) /\ Elems(q) = Elems(s.answers) \union {a}
  <2> HIDE DEF a
  <2> QED
    BY <1>1, <1>2, Appended
<1>4. t = [s EXCEPT !.answers = q]
  BY DEF Answer
<1>5. a.m = m /\ a.granted = g
  OBVIOUS
<1>0. Unique(s.multi, q)
  <2>1. Unique(s.multi, s.answers) /\ s.multi \in Seq(Message)
    BY <1>1 DEF Base, MessagesInv, State
  <2> HIDE DEF a
  <2> QED
    BY <1>1, <1>2, <1>5, <2>1, UniqueAnswered DEF Fresh, OnTheWay
<1> HIDE DEF q, a, t
<1>6. /\ t \in State /\ SameRequests(s, t) /\ t.multi = s.multi /\ t.answers = q
      /\ t.persistent = s.persistent /\ t.transient = s.transient
  BY <1>1, <1>3, <1>4 DEF State, SameRequests
<1>7. MessagesInv(t, A)
  BY <1>0, <1>3, <1>5, <1>6, RequestsStay DEF Base, MessagesInv
<1>8. StoresInv(t, A)
  BY <1>6 DEF Base, StoresInv
<1>9. OnTheWay(t) = OnTheWay(s) \union {m}
  BY <1>3, <1>5, <1>6 DEF OnTheWay
<1> QED
  BY <1>6, <1>7, <1>8, <1>9, RequestsStay DEF Base, t

(* A request finds its answer in the stores, or waits. *)
LEMMA RequestKeeps ==
  ASSUME NEW s, NEW A, Base(s, A), NEW m, Known(s, m), Fresh(s, m)
  PROVE  LET t == RequestPermissions(s, m)
         IN Base(t, A) /\ SameRequests(s, t) /\ OnTheWay(t) = OnTheWay(s) \union {m}
<1> DEFINE undecided == {t \in ToSet(m.types) : Status(s, m.frame, t) = "ask"}
           looked == LookedAt(m.types, undecided)
           g == {t \in ToSet(m.types) : Status(s, m.frame, t) = "granted"}
           v == Moved(s, m.frame, looked)
           w == [v EXCEPT !.multi = Append(@, m)]
           u == [v EXCEPT !.multi = Append(@, m),
                          !.prompts = @ \union {[frame |-> m.frame, types |-> m.types]}]
<1>1. m.frame \in Frames /\ m.types \in Asked /\ s \in State /\ StoresInv(s, A)
  BY DEF Known, Message, Base
<1>2. RequestPermissions(s, m) = IF undecided # {} THEN u ELSE Answer(v, m, g)
  BY DEF RequestPermissions
<1>3. AllowedTo(A, m.frame, m.types, g)
  BY <1>1, StatusIs, AskedTypes DEF AllowedTo
<1> HIDE DEF undecided, g, looked
<1>4. v \in State /\ StoresInv(v, A) /\ SameMessages(s, v)
  BY <1>1, MovedKeeps
<1> HIDE DEF v
<1>5. Base(v, A) /\ OnTheWay(v) = OnTheWay(s) /\ SameRequests(s, v) /\ Known(v, m) /\ Fresh(v, m)
  BY <1>4, Kept, RequestsStay DEF SameMessages, Fresh
<1>6. Base(w, A) /\ SameRequests(v, w) /\ OnTheWay(w) = OnTheWay(v) \union {m}
  BY <1>5, WaitsOn
<1>7. Base(u, A) /\ SameRequests(s, u) /\ OnTheWay(u) = OnTheWay(s) \union {m}
  <2>1. w \in State
    BY <1>6 DEF Base
  <2> DEFINE pr == v.prompts \union {[frame |-> m.frame, types |-> m.types]}
  <2>2. pr \in SUBSET FrameTypes
    BY <1>1, <1>4 DEF State, FrameTypes
  <2>3. u = [w EXCEPT !.prompts = pr]
    BY <1>4 DEF State
  <2> HIDE DEF w, u, pr
  <2>4. /\ u \in State /\ SameRequests(w, u) /\ u.multi = w.multi /\ u.answers = w.answers
        /\ u.persistent = w.persistent /\ u.transient = w.transient
    BY <2>1, <2>2, <2>3 DEF State, SameRequests
  <2>5. MessagesInv(u, A)
    BY <2>4, <1>6, RequestsStay DEF Base, MessagesInv
  <2>6. StoresInv(u, A)
    BY <2>4, <1>6 DEF Base, StoresInv
  <2> QED
    BY <2>4, <2>5, <2>6, <1>5, <1>6, RequestsStay DEF Base, OnTheWay, SameRequests
<1>8. LET t == Answer(v, m, g) IN Base(t, A) /\ SameRequests(v, t) /\ OnTheWay(t) = OnTheWay(v) \union {m}
  BY <1>3, <1>5, Answered
<1>9. LET t == Answer(v, m, g) IN SameRequests(s, t)
  BY <1>5, <1>8 DEF SameRequests
<1> QED
  BY <1>2, <1>5, <1>7, <1>8, <1>9
-----------------------------------------------------------------------------
(* A decision is stored, and the waiting requests of its origin looked at. *)
FrameFor(o, f) == f = NoFrame \/ (f \in Frames /\ OriginOf[f] = o)
Decision(A, o, t, status, f) ==
  /\ o \in Origins /\ t \in Types /\ status \in Statuses /\ FrameFor(o, f)
  /\ status = "granted" => <<o, t>> \in A

\* A decision that is stored is one that was allowed.
LEMMA StoredKeeps ==
  ASSUME NEW s, NEW A, Base(s, A), NEW o, NEW t, NEW status, NEW f, Decision(A, o, t, status, f)
  PROVE  LET u == Stored(s, o, t, status, f)
         IN Base(u, A) /\ SameRequests(s, u) /\ OnTheWay(u) = OnTheWay(s)
<1> DEFINE a == [s EXCEPT !.transient[f][t] = status]
           b == [s EXCEPT !.persistent[o][t] = status]
<1>1. s \in State /\ StoresInv(s, A) /\ o \in Origins /\ t \in Types /\ status \in Statuses
  BY DEF Base, Decision
<1>2. ASSUME f \in Frames PROVE a \in State /\ SameMessages(s, a) /\ StoresInv(a, A)
  <2>1. a \in State /\ SameMessages(s, a)
    BY <1>1, <1>2 DEF State, SameMessages, SameRequests
  <2>2. \A e \in Frames, k \in Types :
          a.transient[e][k] = IF e = f /\ k = t THEN status ELSE s.transient[e][k]
    BY <1>1, <1>2 DEF State
  <2>3. a.persistent = s.persistent
    BY <1>1 DEF State
  <2>4. f # NoFrame
    BY <1>2, OfFrame
  <2> HIDE DEF a
  <2>5. StoresInv(a, A)
    BY <2>2, <2>3, <2>4, <1>1 DEF StoresInv, Decision, FrameFor
  <2> QED
    BY <2>1, <2>5
<1>3. b \in State /\ SameMessages(s, b) /\ StoresInv(b, A)
  <2>1. b \in State /\ SameMessages(s, b)
    BY <1>1 DEF State, SameMessages, SameRequests
  <2>2. \A e \in Origins, k \in Types :
          b.persistent[e][k] = IF e = o /\ k = t THEN status ELSE s.persistent[e][k]
    BY <1>1 DEF State
  <2>3. b.transient = s.transient
    BY <1>1 DEF State
  <2> HIDE DEF b
  <2>5. StoresInv(b, A)
    BY <2>2, <2>3, <1>1 DEF StoresInv, Decision
  <2> QED
    BY <2>1, <2>5
<1>4. (Stored(s, o, t, status, f) = a /\ f \in Frames) \/ Stored(s, o, t, status, f) = b
  BY DEF Stored, InTransientStore, Decision, FrameFor
<1> HIDE DEF a, b
<1>5. LET u == Stored(s, o, t, status, f) IN u \in State /\ SameMessages(s, u) /\ StoresInv(u, A)
  BY <1>2, <1>3, <1>4
<1> QED
  BY <1>5, Kept DEF SameMessages

FrameOf(inT, o, f) == inT => f \in Frames /\ OriginOf[f] = o

\* A waiting request that is visited is answered or goes on waiting.
LEMMA VisitKeeps ==
  ASSUME NEW s, NEW A, Base(s, A), NEW m, Known(s, m), Fresh(s, m),
         NEW o \in Origins, NEW inT, NEW f, FrameOf(inT, o, f), NEW status
  PROVE  LET t == Visit(s, m, o, inT, f, status)
         IN Base(t, A) /\ SameRequests(s, t) /\ OnTheWay(t) = OnTheWay(s) \union {m}
<1> DEFINE C == inT /\ AliveFrame(s, f)
           differ == {u \in ToSet(m.types) : StatusFor(s, o, inT, f, u) # status}
           looked == LookedAt(m.types, differ)
           v == IF C THEN Moved(s, f, looked) ELSE s
           g == IF status = "granted" THEN ToSet(m.types) ELSE {}
<1>1. m.frame \in Frames /\ m.types \in Asked /\ s \in State /\ StoresInv(s, A)
  BY DEF Known, Message, Base
<1>2. AnswerIfAgreed(s, m, o, inT, f, status) =
        IF differ # {} THEN [v EXCEPT !.multi = Append(@, m)] ELSE Answer(v, m, g)
  BY DEF AnswerIfAgreed
<1>3. C => f \in Frames /\ OriginOf[f] = o
  BY DEF FrameOf
<1>4. \A u \in Types : StatusFor(s, o, inT, f, u) = "granted" => <<o, u>> \in A
  <2>1. \A u \in Types : s.persistent[o][u] = "granted" => <<o, u>> \in A
    BY <1>1 DEF StoresInv
  <2>2. C => \A u \in Types : Status(s, f, u) = "granted" => <<o, u>> \in A
    BY <1>1, <1>3, StatusIs
  <2>3. \A u : StatusFor(s, o, inT, f, u) = IF C THEN Status(s, f, u) ELSE s.persistent[o][u]
    BY DEF StatusFor
  <2> HIDE DEF C
  <2> QED
    BY <2>1, <2>2, <2>3
<1>5. ASSUME SameOrigin(m, o), differ = {} PROVE AllowedTo(A, m.frame, m.types, g)
  <2>1. OriginOf[m.frame] = o /\ ToSet(m.types) \subseteq Types
    BY <1>1, <1>5, AskedTypes DEF SameOrigin
  <2>2. \A u \in ToSet(m.types) : StatusFor(s, o, inT, f, u) = status
    BY <1>5
  <2> QED
    BY <1>4, <2>1, <2>2 DEF AllowedTo
<1> HIDE DEF C, differ, looked, g
<1>6. v \in State /\ StoresInv(v, A) /\ SameMessages(s, v)
  <2>1. C => Moved(s, f, looked) \in State /\ StoresInv(Moved(s, f, looked), A)
             /\ SameMessages(s, Moved(s, f, looked))
    BY <1>1, <1>3, MovedKeeps
  <2>2. SameMessages(s, s)
    BY DEF SameMessages, SameRequests
  <2> QED
    BY <1>1, <2>1, <2>2
<1> HIDE DEF v
<1>7. Base(v, A) /\ OnTheWay(v) = OnTheWay(s) /\ SameRequests(s, v) /\ Known(v, m) /\ Fresh(v, m)
  BY <1>6, Kept, RequestsStay DEF SameMessages, Fresh
<1> DEFINE w(x) == [x EXCEPT !.multi = Append(@, m)]
<1>8. \A x : Base(x, A) /\ Known(x, m) /\ Fresh(x, m) =>
        Base(w(x), A) /\ SameRequests(x, w(x)) /\ OnTheWay(w(x)) = OnTheWay(x) \union {m}
  BY WaitsOn
<1>9. Visit(s, m, o, inT, f, status) =
        IF SameOrigin(m, o) THEN IF differ # {} THEN w(v) ELSE Answer(v, m, g) ELSE w(s)
  BY <1>2 DEF Visit
<1> HIDE DEF w
<1>10. CASE ~SameOrigin(m, o)
  BY <1>8, <1>9, <1>10
<1>11. CASE SameOrigin(m, o) /\ differ # {}
  <2>1. SameRequests(s, w(v))
    BY <1>7, <1>8 DEF SameRequests
  <2> QED
    BY <2>1, <1>7, <1>8, <1>9, <1>11
<1>12. CASE SameOrigin(m, o) /\ differ = {}
  <2> DEFINE t == Answer(v, m, g)
  <2>1. Base(t, A) /\ SameRequests(v, t) /\ OnTheWay(t) = OnTheWay(v) \union {m}
    BY <1>5, <1>7, <1>12, Answered
  <2>2. SameRequests(s, t)
    BY <1>7, <2>1 DEF SameRequests
  <2> QED
    BY <2>1, <2>2, <1>7, <1>9, <1>12
<1> QED
  BY <1>10, <1>11, <1>12

(* The walk over the waiting requests. *)
IsVisited(v, S, o, inT, f, status, N) ==
  v = [n \in 0 .. N |-> IF n = 0 THEN [S EXCEPT !.multi = <<>>]
                        ELSE Visit(v[n - 1], S.multi[n], o, inT, f, status)]

\* The recursive function of VisitAll exists up to any N.
LEMMA VisitedOnce ==
  ASSUME NEW S, NEW o, NEW inT, NEW f, NEW status, NEW N \in Nat
  PROVE  \E v : IsVisited(v, S, o, inT, f, status, N)
<1> DEFINE T == {n \in Nat : \E v : IsVisited(v, S, o, inT, f, status, n)}
<1>1. 0 \in T
  <2> DEFINE v == [n \in 0 .. 0 |-> [S EXCEPT !.multi = <<>>]]
  <2>1. IsVisited(v, S, o, inT, f, status, 0)
    BY DEF IsVisited
  <2> QED
    BY <2>1
<1>2. ASSUME NEW n \in Nat, n \in T PROVE n + 1 \in T
  <2>1. PICK v : IsVisited(v, S, o, inT, f, status, n)
    BY <1>2
  <2> DEFINE b == [S EXCEPT !.multi = <<>>]
             V(x, k) == Visit(x, S.multi[k], o, inT, f, status)
             u == [k \in 0 .. n + 1 |-> IF k = n + 1 THEN V(v[n], n + 1) ELSE v[k]]
  <2>2. v = [k \in 0 .. n |-> IF k = 0 THEN b ELSE V(v[k - 1], k)]
    BY <2>1 DEF IsVisited
  <2> HIDE DEF b, V
  <2>3. u = [k \in 0 .. n + 1 |-> IF k = 0 THEN b ELSE V(u[k - 1], k)]
    BY <2>2
  <2>4. IsVisited(u, S, o, inT, f, status, n + 1)
    BY <2>3 DEF IsVisited, b, V
  <2> QED
    BY <2>4
<1> HIDE DEF T
<1>3. N \in T
  BY <1>1, <1>2, UpTo
<1> QED
  BY <1>3 DEF T

Visiting(v, S, o, inT, f, status) ==
  /\ v[0] = [S EXCEPT !.multi = <<>>]
  /\ \A n \in 0 .. Len(S.multi) - 1 : v[n + 1] = Visit(v[n], S.multi[n + 1], o, inT, f, status)
  /\ VisitAll(S, o, inT, f, status) = v[Len(S.multi)]

\* Hence VisitAll is its last value.
LEMMA VisitAllIs ==
  ASSUME NEW S, NEW o, NEW inT, NEW f, NEW status, Len(S.multi) \in Nat
  PROVE  \E v : Visiting(v, S, o, inT, f, status)
<1> DEFINE W(v) == v = [n \in 0 .. Len(S.multi) |->
                          IF n = 0 THEN [S EXCEPT !.multi = <<>>]
                          ELSE Visit(v[n - 1], S.multi[n], o, inT, f, status)]
           w == CHOOSE v : W(v)
<1>1. VisitAll(S, o, inT, f, status) = w[Len(S.multi)]
  BY DEF VisitAll
<1>2. \E v : W(v)
  <2>1. PICK v : IsVisited(v, S, o, inT, f, status, Len(S.multi))
    BY VisitedOnce
  <2>2. W(v)
    BY <2>1 DEF IsVisited
  <2> HIDE DEF W
  <2> QED
    BY <2>2
<1>3. W(w)
  <2> HIDE DEF W
  <2> QED
    BY <1>2
<1> HIDE DEF w
<1>4. \A n \in 0 .. Len(S.multi) : w[n] = IF n = 0 THEN [S EXCEPT !.multi = <<>>]
                                          ELSE Visit(w[n - 1], S.multi[n], o, inT, f, status)
  BY <1>3
<1>5. \A n \in 0 .. Len(S.multi) - 1 : w[n + 1] = Visit(w[n], S.multi[n + 1], o, inT, f, status)
  <2> SUFFICES ASSUME NEW n \in 0 .. Len(S.multi) - 1
               PROVE  w[n + 1] = Visit(w[n], S.multi[n + 1], o, inT, f, status)
    OBVIOUS
  <2>1. n + 1 \in 0 .. Len(S.multi) /\ n + 1 # 0 /\ (n + 1) - 1 = n
    OBVIOUS
  <2> QED
    BY <1>4, <2>1
<1>6. Visiting(w, S, o, inT, f, status)
  BY <1>1, <1>4, <1>5 DEF Visiting
<1> QED
  BY <1>6
\* The walk starts with nobody waiting; those who did are to be visited.
LEMMA NoneWaits ==
  ASSUME NEW s, NEW A, Base(s, A), NEW t, t = [s EXCEPT !.multi = <<>>]
  PROVE  /\ Base(t, A) /\ SameRequests(s, t)
         /\ OnTheWay(s) = OnTheWay(t) \union Elems(s.multi)
         /\ \A m \in Elems(s.multi) : Fresh(t, m)
<1>1. s \in State /\ <<>> \in Seq(Message)
  BY EmptySeq DEF Base
<1>2. /\ t \in State /\ SameRequests(s, t) /\ t.multi = <<>> /\ t.answers = s.answers
      /\ t.persistent = s.persistent /\ t.transient = s.transient
  BY <1>1 DEF State, SameRequests
<1>3. MessagesInv(t, A)
  BY <1>2, NothingIn, UniqueLess, RequestsStay DEF Base, MessagesInv
<1>4. StoresInv(t, A)
  BY <1>2 DEF Base, StoresInv
<1>5. OnTheWay(t) = {a.m : a \in Elems(s.answers)}
  BY <1>2, NothingIn DEF OnTheWay
<1>6. \A m \in Elems(s.multi) : Fresh(t, m)
  BY <1>5 DEF Base, MessagesInv, Unique, Fresh, Elems
<1> QED
  BY <1>2, <1>3, <1>4, <1>5, <1>6, RequestsStay DEF Base, OnTheWay

\* The walk over all the waiting requests loses none.
LEMMA VisitAllKeeps ==
  ASSUME NEW s, NEW A, Base(s, A), NEW o \in Origins, NEW inT, NEW f,
         FrameOf(inT, o, f), NEW status
  PROVE  LET t == VisitAll(s, o, inT, f, status)
         IN Base(t, A) /\ SameRequests(s, t) /\ OnTheWay(t) = OnTheWay(s)
<1>1. s.multi \in Seq(Message) /\ Len(s.multi) \in Nat /\ \A i \in 1 .. Len(s.multi) : Known(s, s.multi[i])
  <2>1. s.multi \in Seq(Message)
    BY DEF Base, State
  <2> QED
    BY <2>1, ElemsOf DEF Base, MessagesInv
<1>0. PICK v : Visiting(v, s, o, inT, f, status)
  BY <1>1, VisitAllIs
<1>2. /\ v[0] = [s EXCEPT !.multi = <<>>]
      /\ \A n \in 0 .. Len(s.multi) - 1 : v[n + 1] = Visit(v[n], s.multi[n + 1], o, inT, f, status)
      /\ VisitAll(s, o, inT, f, status) = v[Len(s.multi)]
  BY <1>0 DEF Visiting
<1> DEFINE Rest(n) == {s.multi[i] : i \in n + 1 .. Len(s.multi)}
           T == {n \in 0 .. Len(s.multi) :
                   /\ Base(v[n], A) /\ SameRequests(s, v[n])
                   /\ OnTheWay(s) = OnTheWay(v[n]) \union Rest(n)
                   /\ \A m \in Rest(n) : Fresh(v[n], m)}
<1>3. 0 \in T
  <2>1. /\ Base(v[0], A) /\ SameRequests(s, v[0])
        /\ OnTheWay(s) = OnTheWay(v[0]) \union Elems(s.multi)
        /\ \A m \in Elems(s.multi) : Fresh(v[0], m)
    BY <1>2, NoneWaits
  <2>2. Rest(0) = Elems(s.multi)
    BY DEF Elems
  <2> QED
    BY <2>1, <2>2, <1>1
<1>4. ASSUME NEW n \in 0 .. Len(s.multi) - 1, n \in T PROVE n + 1 \in T
  <2> DEFINE m == s.multi[n + 1]
  <2>1. /\ Base(v[n], A) /\ SameRequests(s, v[n])
        /\ OnTheWay(s) = OnTheWay(v[n]) \union Rest(n)
        /\ \A k \in Rest(n) : Fresh(v[n], k)
    BY <1>4
  <2>2. n + 1 \in 1 .. Len(s.multi) /\ n + 1 \in 0 .. Len(s.multi)
    BY <1>1
  <2>3. Known(v[n], m)
    <3>1. Known(s, m)
      BY <1>1, <2>2
    <3> HIDE DEF m
    <3> QED
      BY <2>1, <3>1, RequestsStay
  <2>4. v[n + 1] = Visit(v[n], m, o, inT, f, status)
    BY <1>2
  <2>5. Rest(n) = Rest(n + 1) \union {m} /\ \A k \in Rest(n + 1) : Differ(k, m)
    <3>1. \A i \in n + 1 .. Len(s.multi) : i = n + 1 \/ i \in n + 1 + 1 .. Len(s.multi)
      BY <1>1
    <3>2. \A i \in n + 1 + 1 .. Len(s.multi) : /\ i \in n + 1 .. Len(s.multi) /\ i \in 1 .. Len(s.multi)
                                              /\ i # n + 1
      BY <1>1
    <3>3. \A i, j \in 1 .. Len(s.multi) : i # j => Differ(s.multi[i], s.multi[j])
      BY DEF Base, MessagesInv, Unique
    <3>4. n + 1 \in n + 1 .. Len(s.multi)
      BY <1>1
    <3> QED
      BY <2>2, <3>1, <3>2, <3>3, <3>4
  <2> HIDE DEF m, Rest
  <2>6. /\ Base(v[n + 1], A) /\ SameRequests(v[n], v[n + 1])
        /\ OnTheWay(v[n + 1]) = OnTheWay(v[n]) \union {m}
    <3> DEFINE z == v[n]
    <3>0. Base(z, A) /\ Known(z, m) /\ Fresh(z, m)
      BY <2>1, <2>3, <2>5
    <3> HIDE DEF z
    <3>1. LET t == Visit(z, m, o, inT, f, status)
          IN Base(t, A) /\ SameRequests(z, t) /\ OnTheWay(t) = OnTheWay(z) \union {m}
      BY <3>0, VisitKeeps
    <3> QED
      BY <2>4, <3>1 DEF z
  <2>7. SameRequests(s, v[n + 1])
    BY <2>1, <2>6 DEF SameRequests
  <2>8. OnTheWay(s) = OnTheWay(v[n + 1]) \union Rest(n + 1)
    BY <2>1, <2>5, <2>6
  <2>9. \A k \in Rest(n + 1) : Fresh(v[n + 1], k)
    BY <2>1, <2>5, <2>6 DEF Fresh
  <2> QED
    BY <2>2, <2>6, <2>7, <2>8, <2>9
<1> DEFINE N == Len(s.multi)
<1>5. N \in Nat /\ N \in T
  <2> HIDE DEF T
  <2> QED
    BY <1>1, <1>3, <1>4, UpTo
<1>6. Rest(N) = {}
  BY <1>1
<1> HIDE DEF Rest
<1>7. Base(v[N], A) /\ SameRequests(s, v[N]) /\ OnTheWay(v[N]) = OnTheWay(s)
  BY <1>5, <1>6
<1> QED
  BY <1>2, <1>7

\* One type of a decision.
LEMMA setPermissionImplKeeps ==
  ASSUME NEW s, NEW A, Base(s, A), NEW o, NEW t, NEW status, NEW f, Decision(A, o, t, status, f)
  PROVE  LET u == setPermissionImpl(s, o, t, status, f)
         IN Base(u, A) /\ SameRequests(s, u) /\ OnTheWay(u) = OnTheWay(s)
<1> DEFINE v == Stored(s, o, t, status, f)
           inT == InTransientStore(t, f)
           w == VisitAll(v, o, inT, f, status)
<1>1. Base(v, A) /\ SameRequests(s, v) /\ OnTheWay(v) = OnTheWay(s)
  BY StoredKeeps
<1>2. o \in Origins /\ FrameOf(inT, o, f)
  BY DEF InTransientStore, Decision, FrameFor, FrameOf
<1>3. setPermissionImpl(s, o, t, status, f) = IF status = "ask" THEN v ELSE w
  BY DEF setPermissionImpl
<1> HIDE DEF v, inT
<1>4. Base(w, A) /\ SameRequests(v, w) /\ OnTheWay(w) = OnTheWay(v)
  BY <1>1, <1>2, VisitAllKeeps
<1>5. SameRequests(s, w) /\ OnTheWay(w) = OnTheWay(s)
  BY <1>1, <1>4 DEF SameRequests
<1> QED
  BY <1>1, <1>3, <1>4, <1>5

(* A decision on several types, one after the other. *)
IsDone(v, S, o, types, status, f, N) ==
  v = [n \in 0 .. N |-> IF n = 0 THEN S ELSE setPermissionImpl(v[n - 1], o, types[n], status, f)]

\* The recursive function of setPermission exists up to any N.
LEMMA DoneOnce ==
  ASSUME NEW S, NEW o, NEW types, NEW status, NEW f, NEW N \in Nat
  PROVE  \E v : IsDone(v, S, o, types, status, f, N)
<1> DEFINE T == {n \in Nat : \E v : IsDone(v, S, o, types, status, f, n)}
<1>1. 0 \in T
  <2> DEFINE v == [n \in 0 .. 0 |-> S]
  <2>1. IsDone(v, S, o, types, status, f, 0)
    BY DEF IsDone
  <2> QED
    BY <2>1
<1>2. ASSUME NEW n \in Nat, n \in T PROVE n + 1 \in T
  <2>1. PICK v : IsDone(v, S, o, types, status, f, n)
    BY <1>2
  <2> DEFINE V(x, k) == setPermissionImpl(x, o, types[k], status, f)
             u == [k \in 0 .. n + 1 |-> IF k = n + 1 THEN V(v[n], n + 1) ELSE v[k]]
  <2>2. v = [k \in 0 .. n |-> IF k = 0 THEN S ELSE V(v[k - 1], k)]
    BY <2>1 DEF IsDone
  <2> HIDE DEF V
  <2>3. u = [k \in 0 .. n + 1 |-> IF k = 0 THEN S ELSE V(u[k - 1], k)]
    BY <2>2
  <2>4. IsDone(u, S, o, types, status, f, n + 1)
    BY <2>3 DEF IsDone, V
  <2> QED
    BY <2>4
<1> HIDE DEF T
<1>3. N \in T
  BY <1>1, <1>2, UpTo
<1> QED
  BY <1>3 DEF T

Doing(v, S, o, types, status, f) ==
  /\ v[0] = S
  /\ \A n \in 0 .. Len(types) - 1 :
       v[n + 1] = setPermissionImpl(v[n], o, types[n + 1], status, f)
  /\ setPermission(S, o, types, status, f) = v[Len(types)]

\* Hence setPermission is its last value.
LEMMA setPermissionIs ==
  ASSUME NEW S, NEW o, NEW types, NEW status, NEW f, Len(types) \in Nat
  PROVE  \E v : Doing(v, S, o, types, status, f)
<1> DEFINE W(v) == v = [n \in 0 .. Len(types) |->
                          IF n = 0 THEN S ELSE setPermissionImpl(v[n - 1], o, types[n], status, f)]
           w == CHOOSE v : W(v)
<1>1. setPermission(S, o, types, status, f) = w[Len(types)]
  BY DEF setPermission
<1>2. \E v : W(v)
  <2>1. PICK v : IsDone(v, S, o, types, status, f, Len(types))
    BY DoneOnce
  <2>2. W(v)
    BY <2>1 DEF IsDone
  <2> HIDE DEF W
  <2> QED
    BY <2>2
<1>3. W(w)
  <2> HIDE DEF W
  <2> QED
    BY <1>2
<1> HIDE DEF w
<1>4. \A n \in 0 .. Len(types) : w[n] = IF n = 0 THEN S
                                        ELSE setPermissionImpl(w[n - 1], o, types[n], status, f)
  BY <1>3
<1>5. \A n \in 0 .. Len(types) - 1 : w[n + 1] = setPermissionImpl(w[n], o, types[n + 1], status, f)
  <2> SUFFICES ASSUME NEW n \in 0 .. Len(types) - 1
               PROVE  w[n + 1] = setPermissionImpl(w[n], o, types[n + 1], status, f)
    OBVIOUS
  <2>1. n + 1 \in 0 .. Len(types) /\ n + 1 # 0 /\ (n + 1) - 1 = n
    OBVIOUS
  <2> QED
    BY <1>4, <2>1
<1>6. Doing(w, S, o, types, status, f)
  BY <1>1, <1>4, <1>5 DEF Doing
<1> QED
  BY <1>6

\* All types of a decision.
LEMMA setPermissionKeeps ==
  ASSUME NEW s, NEW A, Base(s, A), NEW o, NEW types \in Seq(Types), NEW status, NEW f,
         \A t \in ToSet(types) : Decision(A, o, t, status, f)
  PROVE  LET u == setPermission(s, o, types, status, f)
         IN Base(u, A) /\ SameRequests(s, u) /\ OnTheWay(u) = OnTheWay(s)
<1>1. Len(types) \in Nat /\ \A i \in 1 .. Len(types) : types[i] \in ToSet(types)
  BY ElemsOf
<1>0. PICK v : Doing(v, s, o, types, status, f)
  BY <1>1, setPermissionIs
<1>2. /\ v[0] = s
      /\ \A n \in 0 .. Len(types) - 1 :
           v[n + 1] = setPermissionImpl(v[n], o, types[n + 1], status, f)
      /\ setPermission(s, o, types, status, f) = v[Len(types)]
  BY <1>0 DEF Doing
<1> DEFINE T == {n \in 0 .. Len(types) :
                   Base(v[n], A) /\ SameRequests(s, v[n]) /\ OnTheWay(v[n]) = OnTheWay(s)}
<1>3. 0 \in T
  BY <1>1, <1>2 DEF SameRequests
<1>4. ASSUME NEW n \in 0 .. Len(types) - 1, n \in T PROVE n + 1 \in T
  <2>1. Base(v[n], A) /\ SameRequests(s, v[n]) /\ OnTheWay(v[n]) = OnTheWay(s)
    BY <1>4
  <2>2. n + 1 \in 1 .. Len(types) /\ n + 1 \in 0 .. Len(types)
    BY <1>1
  <2>3. Decision(A, o, types[n + 1], status, f)
    BY <1>1, <2>2
  <2>4. v[n + 1] = setPermissionImpl(v[n], o, types[n + 1], status, f)
    BY <1>2
  <2>5. /\ Base(v[n + 1], A) /\ SameRequests(v[n], v[n + 1])
        /\ OnTheWay(v[n + 1]) = OnTheWay(v[n])
    BY <2>1, <2>3, <2>4, setPermissionImplKeeps
  <2>6. SameRequests(s, v[n + 1])
    BY <2>1, <2>5 DEF SameRequests
  <2> QED
    BY <2>1, <2>2, <2>5, <2>6
<1> DEFINE N == Len(types)
<1>5. N \in Nat /\ N \in T
  <2> HIDE DEF T
  <2> QED
    BY <1>1, <1>3, <1>4, UpTo
<1>6. Base(v[N], A) /\ SameRequests(s, v[N]) /\ OnTheWay(v[N]) = OnTheWay(s)
  BY <1>5
<1> QED
  BY <1>2, <1>6
-----------------------------------------------------------------------------
(* A response takes the front of a queue. *)
SomeMessages(s, t) ==
  /\ t.persistent = s.persistent /\ t.transient = s.transient /\ t.multi = s.multi
  /\ t.prompts = s.prompts /\ t.alive = s.alive /\ t.answers = s.answers /\ t.asked = s.asked

\* Messages keep their meaning while no request becomes new again.
LEMMA MessagesStay ==
  ASSUME NEW s, NEW t, NEW A, Base(s, A), t \in State, SomeMessages(s, t),
         \A r \in Requests : s.state[r] # "new" => t.state[r] # "new"
  PROVE  MessagesInv(t, A) /\ StoresInv(t, A) /\ \A m : Known(s, m) => Known(t, m)
<1>1. \A m : Known(s, m) => Known(t, m)
  BY DEF Known, SomeMessages, Message
<1>2. StoresInv(t, A)
  BY DEF Base, StoresInv, SomeMessages
<1>3. MessagesInv(t, A)
  BY <1>1 DEF Base, MessagesInv, SomeMessages
<1> QED
  BY <1>1, <1>2, <1>3

(* The messages of P that are not in Q were for the page of the response.  *)
Spent(s, p, P, Q) == \A m \in P : m \in Q \/ (Known(s, m) /\ MediaOf(m, p))
FlagsAllowed(A, o, flags) == \A t \in flags : <<o, t>> \in A

\* An answer takes the front of a queue; the next one has a task if there is one.
LEMMA ResponseKeeps ==
  ASSUME NEW s, NEW A, Base(s, A), NEW p \in ThePages, NEW o, NEW flags, FlagsAllowed(A, o, flags),
         NEW P, NEW Q, Owed(s, P), Spent(s, p, P, Q)
  PROVE  LET u == HandleResponse(s, p, o, flags)
         IN Base(u, A) /\ Owed(u, Q) /\ SomeMessages(s, u) /\ \A m : Known(s, m) => Known(u, m)
<1>0. s \in State /\ QueueInv(s) /\ RequestsInv(s, A) /\ A \subseteq Origins \X Types
  BY DEF Base
<1>1. \A x \in Requests : s.state[x] = "waiting" /\ ~IsMedia(s.asked[x].types) => \E m \in Q : m.req = x
  <2> SUFFICES ASSUME NEW x \in Requests, s.state[x] = "waiting", ~IsMedia(s.asked[x].types)
               PROVE  \E m \in Q : m.req = x
    OBVIOUS
  <2>1. PICK m \in P : m.req = x
    BY DEF Owed
  <2>2. m \in Q \/ (Known(s, m) /\ MediaOf(m, p))
    BY DEF Spent
  <2>3. ~(Known(s, m) /\ MediaOf(m, p))
    BY <2>1 DEF Known, MediaOf
  <2> QED
    BY <2>1, <2>2, <2>3
<1>2. \A q \in ThePages : q # p /\ s.queue[q] # <<>> => s.tasks[q] > 0 \/ \E m \in Q : MediaOf(m, q)
  <2> SUFFICES ASSUME NEW q \in ThePages, q # p, s.queue[q] # <<>>, ~(s.tasks[q] > 0)
               PROVE  \E m \in Q : MediaOf(m, q)
    OBVIOUS
  <2>1. PICK m \in P : MediaOf(m, q)
    BY DEF Owed
  <2> QED
    BY <2>1 DEF Spent, MediaOf
<1>3. CASE s.queue[p] = <<>>
  <2>1. Owed(s, Q)
    BY <1>1, <1>2, <1>3 DEF Owed
  <2>2. SomeMessages(s, s)
    BY DEF SomeMessages
  <2> QED
    BY <1>3, <2>1, <2>2 DEF HandleResponse
<1>4. CASE s.queue[p] # <<>>
  <2> DEFINE r == Head(s.queue[p])
             got == Granting(s.asked[r], o, flags)
             n == Posted(s.queue[p], s.tasks[p])
             tl == Tail(s.queue[p])
             st == Result(got)
             u == [s EXCEPT !.queue[p] = tl, !.tasks[p] = n, !.state[r] = st, !.given[r] = got]
  <2>1. s.queue[p] \in Seq(Requests) /\ Distinct(s.queue[p]) /\ s.tasks[p] \in Nat
    BY <1>0 DEF State, QueueInv
  <2>2. /\ r \in Requests /\ tl \in Seq(Requests) /\ Elems(tl) = Elems(s.queue[p]) \ {r}
        /\ r \in Elems(s.queue[p]) /\ Distinct(tl) /\ (tl # <<>> => Len(s.queue[p]) > 1)
    BY <1>4, <2>1, HeadLeaves
  <2>3. n \in Nat /\ (tl # <<>> => n > 0)
    BY <2>1, <2>2 DEF Posted
  <2>4. /\ s.state[r] = "waiting" /\ s.asked[r] \in FrameTypes /\ IsMedia(s.asked[r].types)
        /\ PageOf[s.asked[r].frame] = p
    BY <1>0, <2>2 DEF QueueInv
  <2>5. AllowedTo(A, s.asked[r].frame, s.asked[r].types, got) /\ got \subseteq Types
    <3>1. s.asked[r].types \in Asked
      BY <2>4 DEF FrameTypes
    <3>2. ToSet(s.asked[r].types) \subseteq Types
      BY <3>1, AskedTypes
    <3>3. AllowedTo(A, s.asked[r].frame, s.asked[r].types, got)
      BY DEF Granting, OriginsMatch, FlagsAllowed, AllowedTo
    <3> QED
      BY <3>2, <3>3 DEF AllowedTo
  <2>6. st \in {"answered", "refused"} /\ (got # {} <=> st = "answered")
    BY DEF Result
  <2>7. HandleResponse(s, p, o, flags) = u
    BY <1>4 DEF HandleResponse
  <2> HIDE DEF r, got, n, tl, st
  <2>8. /\ u \in State /\ SomeMessages(s, u)
        /\ u.queue = [s.queue EXCEPT ![p] = tl] /\ u.tasks = [s.tasks EXCEPT ![p] = n]
        /\ u.state = [s.state EXCEPT ![r] = st] /\ u.given = [s.given EXCEPT ![r] = got]
    BY <1>0, <2>2, <2>3, <2>5, <2>6 DEF State, SomeMessages
  <2>9. /\ \A q \in ThePages : u.queue[q] = IF q = p THEN tl ELSE s.queue[q]
        /\ \A q \in ThePages : u.tasks[q] = IF q = p THEN n ELSE s.tasks[q]
        /\ \A x \in Requests : u.state[x] = IF x = r THEN st ELSE s.state[x]
        /\ \A x \in Requests : u.given[x] = IF x = r THEN got ELSE s.given[x]
        /\ u.asked = s.asked
    BY <2>8, <1>0 DEF State, SomeMessages
  <2>10. \A q \in ThePages : Elems(s.queue[q]) \subseteq Requests
    BY <1>0, ElemsOf DEF State
  <2> HIDE DEF u
  <2>11. QueueInv(u)
    <3> SUFFICES ASSUME NEW q \in ThePages
                 PROVE  /\ Distinct(u.queue[q])
                        /\ \A x \in Elems(u.queue[q]) :
                             /\ u.state[x] = "waiting" /\ u.asked[x] \in FrameTypes
                             /\ IsMedia(u.asked[x].types) /\ PageOf[u.asked[x].frame] = q
      BY DEF QueueInv
    <3>1. Distinct(u.queue[q])
      BY <1>0, <2>2, <2>9 DEF QueueInv
    <3>2. \A x \in Elems(u.queue[q]) : x \in Elems(s.queue[q]) /\ x # r /\ x \in Requests
      <4>1. CASE q = p
        BY <4>1, <2>2, <2>9, <2>10
      <4>2. CASE q # p
        <5>1. r \notin Elems(s.queue[q])
          BY <1>0, <2>4, <4>2 DEF QueueInv
        <5> QED
          BY <4>2, <5>1, <2>9, <2>10
      <4> QED
        BY <4>1, <4>2
    <3>3. \A x \in Elems(u.queue[q]) : u.state[x] = s.state[x] /\ u.asked[x] = s.asked[x]
      BY <3>2, <2>9
    <3> QED
      BY <1>0, <3>1, <3>2, <3>3 DEF QueueInv
  <2>12. RequestsInv(u, A)
    <3> SUFFICES ASSUME NEW x \in Requests
                 PROVE  /\ u.state[x] # "new" => u.asked[x] \in FrameTypes
                        /\ u.given[x] # {} <=> u.state[x] = "answered"
                        /\ AllowedTo(A, u.asked[x].frame, u.asked[x].types, u.given[x])
      BY DEF RequestsInv
    <3>1. CASE x = r
      BY <3>1, <2>4, <2>5, <2>6, <2>9
    <3>2. CASE x # r
      BY <3>2, <2>9, <1>0 DEF RequestsInv
    <3> QED
      BY <3>1, <3>2
  <2>13. \A x \in Requests : s.state[x] # "new" => u.state[x] # "new"
    BY <2>6, <2>9
  <2>14. MessagesInv(u, A) /\ StoresInv(u, A) /\ \A m : Known(s, m) => Known(u, m)
    BY <2>8, <2>13, MessagesStay
  <2>15. Owed(u, Q)
    <3>1. ASSUME NEW x \in Requests, u.state[x] = "waiting"
          PROVE  IF IsMedia(u.asked[x].types) THEN x \in Elems(u.queue[PageOf[u.asked[x].frame]])
                 ELSE \E m \in Q : m.req = x
      <4>1. x # r /\ s.state[x] = "waiting" /\ u.asked[x] = s.asked[x]
        BY <3>1, <2>6, <2>9
      <4>2. CASE ~IsMedia(s.asked[x].types)
        BY <4>1, <4>2, <1>1
      <4>3. CASE IsMedia(s.asked[x].types)
        <5> DEFINE q == PageOf[s.asked[x].frame]
        <5>1. x \in Elems(s.queue[q])
          BY <4>1, <4>3 DEF Owed
        <5>2. q \in ThePages
          <6>1. s.asked[x] \in FrameTypes
            BY <1>0, <4>1 DEF RequestsInv
          <6> QED
            BY <6>1, OfFrame DEF FrameTypes
        <5>3. x \in Elems(u.queue[q])
          BY <5>1, <5>2, <4>1, <2>2, <2>9
        <5> QED
          BY <4>1, <4>3, <5>3
      <4> QED
        BY <4>2, <4>3
    <3>2. ASSUME NEW q \in ThePages, u.queue[q] # <<>>
          PROVE  u.tasks[q] > 0 \/ \E m \in Q : MediaOf(m, q)
      BY <3>2, <1>2, <2>3, <2>9
    <3> QED
      BY <3>1, <3>2 DEF Owed
  <2>16. Base(u, A)
    BY <1>0, <2>8, <2>11, <2>12, <2>14 DEF Base
  <2> QED
    BY <2>7, <2>8, <2>14, <2>15, <2>16
<1> QED
  BY <1>3, <1>4

\* Only a request in the queue is answered: one for media, which waits.
LEMMA ResponseOnce ==
  ASSUME NEW s, NEW A, Base(s, A), NEW p \in ThePages, NEW o, NEW flags, NEW P, Awaits(s, P),
         NEW u, u = HandleResponse(s, p, o, flags), \A k : Known(s, k) => Known(u, k)
  PROVE  Awaits(u, P) /\ Stays(s, u)
<1>1. s \in State /\ QueueInv(s)
  BY DEF Base
<1>2. CASE s.queue[p] = <<>>
  BY <1>2 DEF HandleResponse, Stays
<1>3. CASE s.queue[p] # <<>>
  <2> DEFINE r == Head(s.queue[p])
             got == Granting(s.asked[r], o, flags)
             tl == Tail(s.queue[p])
             n == Posted(s.queue[p], s.tasks[p])
             st == Result(got)
  <2>1. u = [s EXCEPT !.queue[p] = tl, !.tasks[p] = n, !.state[r] = st, !.given[r] = got]
    BY <1>1, <1>3 DEF HandleResponse, State
  <2>2. r \in Elems(s.queue[p])
    <3>1. s.queue[p] \in Seq(Requests) /\ Distinct(s.queue[p])
      BY <1>1 DEF State, QueueInv
    <3> QED
      BY <1>3, <3>1, HeadLeaves
  <2>3. s.state[r] = "waiting" /\ IsMedia(s.asked[r].types)
    BY <1>1, <2>2 DEF QueueInv
  <2> HIDE DEF r, got, n, tl, st
  <2>4. \A x \in Requests : x # r => u.state[x] = s.state[x] /\ u.given[x] = s.given[x]
    BY <1>1, <2>1 DEF State
  <2>5. Stays(s, u)
    BY <2>3, <2>4 DEF Stays
  <2>6. ASSUME NEW m \in P PROVE Known(u, m) /\ (Plain(m) => u.state[m.req] = "waiting")
    <3>1. Known(s, m) /\ (Plain(m) => s.state[m.req] = "waiting")
      BY <2>6 DEF Awaits
    <3>2. m.req \in Requests /\ s.asked[m.req].types = m.types
      BY <3>1 DEF Known, Message
    <3>3. Plain(m) => m.req # r
      BY <2>3, <3>2 DEF Plain
    <3> QED
      BY <2>4, <3>1, <3>2, <3>3
  <2> QED
    BY <2>5, <2>6 DEF Awaits
<1> QED
  BY <1>2, <1>3

\* A callback answers a request that waits, and none of the messages left is of it.
LEMMA CallbackOnce ==
  ASSUME NEW s, NEW A, Base(s, A), NEW P, NEW Q, NEW m, Awaits(s, P), m \in P, Q \subseteq P,
         \A k \in Q : Differ(k, m), NEW g,
         NEW u, u = Callback(s, m, g), \A k : Known(s, k) => Known(u, k)
  PROVE  Awaits(u, Q) /\ Stays(s, u)
<1>0. s \in State /\ Awaits(s, Q) /\ Known(s, m)
  BY DEF Base, Awaits
<1>1. CASE IsMedia(m.types)
  <2>1. PageOf[m.frame] \in ThePages
    BY <1>0, OfFrame DEF Known, Message
  <2> QED
    BY <1>0, <1>1, <2>1, ResponseOnce DEF Callback
<1>2. CASE ~IsMedia(m.types)
  <2> DEFINE r == m.req
             st == Result(g)
  <2>1. u = [s EXCEPT !.state[r] = st, !.given[r] = g]
    BY <1>2 DEF Callback
  <2>2. s.state[r] = "waiting"
    BY <1>2 DEF Awaits, Plain
  <2> HIDE DEF r, st
  <2>3. \A x \in Requests : x # r => u.state[x] = s.state[x] /\ u.given[x] = s.given[x]
    BY <1>0, <2>1 DEF State
  <2>4. Stays(s, u)
    BY <2>2, <2>3 DEF Stays
  <2>5. ASSUME NEW k \in Q PROVE Known(u, k) /\ (Plain(k) => u.state[k.req] = "waiting")
    <3>1. Known(s, k) /\ (Plain(k) => s.state[k.req] = "waiting") /\ k.req \in Requests
      BY <1>0, <2>5 DEF Awaits, Known, Message
    <3>2. Plain(k) => k.req # r
      BY <1>2, <2>5 DEF Differ, Plain, r
    <3> QED
      BY <2>3, <3>1, <3>2
  <2> QED
    BY <2>4, <2>5 DEF Awaits
<1> QED
  BY <1>1, <1>2

(* A callback answers a request for media through the queue of its page,   *)
(* any other directly.                                                     *)
LEMMA CallbackKeeps ==
  ASSUME NEW s, NEW A, Base(s, A), NEW m, Known(s, m), NEW g, AllowedTo(A, m.frame, m.types, g),
         NEW P, NEW Q, Owed(s, P), P \subseteq Q \union {m}
  PROVE  LET u == Callback(s, m, g)
         IN Base(u, A) /\ Owed(u, Q) /\ SomeMessages(s, u) /\ \A k : Known(s, k) => Known(u, k)
<1>0. /\ s \in State /\ QueueInv(s) /\ RequestsInv(s, A) /\ A \subseteq Origins \X Types
      /\ m.frame \in Frames /\ m.types \in Asked /\ m.req \in Requests
  BY DEF Base, Known, Message
<1>1. CASE IsMedia(m.types)
  <2> DEFINE p == PageOf[m.frame]
             o == OriginOf[m.frame]
  <2>1. p \in ThePages
    BY <1>0, OfFrame
  <2>2. FlagsAllowed(A, o, g)
    BY DEF AllowedTo, FlagsAllowed
  <2>3. Spent(s, p, P, Q)
    BY <1>1 DEF Spent, MediaOf
  <2>4. Callback(s, m, g) = HandleResponse(s, p, o, g)
    BY <1>1 DEF Callback
  <2> HIDE DEF p, o
  <2> QED
    BY <2>1, <2>2, <2>3, <2>4, ResponseKeeps
<1>2. CASE ~IsMedia(m.types)
  <2> DEFINE r == m.req
             st == Result(g)
             u == [s EXCEPT !.state[r] = st, !.given[r] = g]
  <2>1. s.state[r] # "new" /\ s.asked[r] = [frame |-> m.frame, types |-> m.types]
    BY DEF Known
  <2>2. g \subseteq Types
    BY <1>0, AskedTypes DEF AllowedTo
  <2>3. st \in {"answered", "refused"} /\ (g # {} <=> st = "answered")
    BY DEF Result
  <2>4. Callback(s, m, g) = u
    BY <1>2 DEF Callback
  <2> HIDE DEF st
  <2>5. /\ u \in State /\ SomeMessages(s, u) /\ u.queue = s.queue /\ u.tasks = s.tasks
        /\ u.state = [s.state EXCEPT ![r] = st] /\ u.given = [s.given EXCEPT ![r] = g]
    BY <1>0, <2>2, <2>3 DEF State, SomeMessages
  <2>6. /\ \A x \in Requests : u.state[x] = IF x = r THEN st ELSE s.state[x]
        /\ \A x \in Requests : u.given[x] = IF x = r THEN g ELSE s.given[x]
        /\ u.asked = s.asked
    BY <2>5, <1>0 DEF State, SomeMessages
  <2>7. \A q \in ThePages : Elems(s.queue[q]) \subseteq Requests
    BY <1>0, ElemsOf DEF State
  <2> HIDE DEF u
  <2>8. QueueInv(u)
    <3>1. \A q \in ThePages : r \notin Elems(s.queue[q])
      BY <1>0, <1>2, <2>1 DEF QueueInv
    <3> HIDE DEF r
    <3> QED
      BY <1>0, <2>5, <2>6, <2>7, <3>1 DEF QueueInv
  <2>9. RequestsInv(u, A)
    <3> SUFFICES ASSUME NEW x \in Requests
                 PROVE  /\ u.state[x] # "new" => u.asked[x] \in FrameTypes
                        /\ u.given[x] # {} <=> u.state[x] = "answered"
                        /\ AllowedTo(A, u.asked[x].frame, u.asked[x].types, u.given[x])
      BY DEF RequestsInv
    <3>1. CASE x = r
      <4>1. s.asked[r] \in FrameTypes /\ s.asked[r].frame = m.frame /\ s.asked[r].types = m.types
        BY <1>0, <2>1 DEF FrameTypes
      <4> QED
        BY <3>1, <4>1, <2>3, <2>6
    <3>2. CASE x # r
      BY <3>2, <2>6, <1>0 DEF RequestsInv
    <3> QED
      BY <3>1, <3>2
  <2>10. \A x \in Requests : s.state[x] # "new" => u.state[x] # "new"
    BY <2>3, <2>6
  <2>11. MessagesInv(u, A) /\ StoresInv(u, A) /\ \A k : Known(s, k) => Known(u, k)
    BY <2>5, <2>10, MessagesStay
  <2>12. Owed(u, Q)
    <3>1. ASSUME NEW x \in Requests, u.state[x] = "waiting"
          PROVE  IF IsMedia(u.asked[x].types) THEN x \in Elems(u.queue[PageOf[u.asked[x].frame]])
                 ELSE \E k \in Q : k.req = x
      <4>1. x # r /\ s.state[x] = "waiting" /\ u.asked[x] = s.asked[x]
        BY <3>1, <2>3, <2>6
      <4>2. CASE ~IsMedia(s.asked[x].types)
        <5>1. PICK k \in P : k.req = x
          BY <4>1, <4>2 DEF Owed
        <5>2. k # m
          BY <5>1, <4>1
        <5> QED
          BY <4>1, <4>2, <5>1, <5>2
      <4>3. CASE IsMedia(s.asked[x].types)
        <5>1. x \in Elems(s.queue[PageOf[s.asked[x].frame]])
          BY <4>1, <4>3 DEF Owed
        <5> QED
          BY <5>1, <4>1, <4>3, <2>5
      <4> QED
        BY <4>2, <4>3
    <3>2. ASSUME NEW q \in ThePages, u.queue[q] # <<>>
          PROVE  u.tasks[q] > 0 \/ \E k \in Q : MediaOf(k, q)
      <4>1. s.tasks[q] > 0 \/ \E k \in P : MediaOf(k, q)
        BY <3>2, <2>5 DEF Owed
      <4>2. \A k \in P : MediaOf(k, q) => k \in Q
        BY <1>2 DEF MediaOf
      <4> QED
        BY <4>1, <4>2, <2>5
    <3> QED
      BY <3>1, <3>2 DEF Owed
  <2>13. Base(u, A)
    BY <1>0, <2>5, <2>8, <2>9, <2>11 DEF Base
  <2> QED
    BY <2>4, <2>5, <2>11, <2>12, <2>13
<1> QED
  BY <1>1, <1>2

(* All the callbacks that have been run. *)
IsDelivered(v, s, N) ==
  v = [n \in 0 .. N |-> IF n = 0 THEN s ELSE Callback(v[n - 1], s.answers[n].m, s.answers[n].granted)]

\* The recursive function of Delivered exists up to any N.
LEMMA DeliveredOnce == ASSUME NEW s, NEW N \in Nat PROVE \E v : IsDelivered(v, s, N)
<1> DEFINE T == {n \in Nat : \E v : IsDelivered(v, s, n)}
<1>1. 0 \in T
  <2> DEFINE v == [n \in 0 .. 0 |-> s]
  <2>1. IsDelivered(v, s, 0)
    BY DEF IsDelivered
  <2> QED
    BY <2>1
<1>2. ASSUME NEW n \in Nat, n \in T PROVE n + 1 \in T
  <2>1. PICK v : IsDelivered(v, s, n)
    BY <1>2
  <2> DEFINE V(x, k) == Callback(x, s.answers[k].m, s.answers[k].granted)
             u == [k \in 0 .. n + 1 |-> IF k = n + 1 THEN V(v[n], n + 1) ELSE v[k]]
  <2>2. v = [k \in 0 .. n |-> IF k = 0 THEN s ELSE V(v[k - 1], k)]
    BY <2>1 DEF IsDelivered
  <2> HIDE DEF V
  <2>3. u = [k \in 0 .. n + 1 |-> IF k = 0 THEN s ELSE V(u[k - 1], k)]
    BY <2>2
  <2>4. IsDelivered(u, s, n + 1)
    BY <2>3 DEF IsDelivered, V
  <2> QED
    BY <2>4
<1> HIDE DEF T
<1>3. N \in T
  BY <1>1, <1>2, UpTo
<1> QED
  BY <1>3 DEF T

Delivering(v, s) ==
  /\ v[0] = s
  /\ \A n \in 0 .. Len(s.answers) - 1 :
       v[n + 1] = Callback(v[n], s.answers[n + 1].m, s.answers[n + 1].granted)
  /\ Delivered(s) = v[Len(s.answers)]

\* Hence Delivered is its last value.
LEMMA DeliveredIs == ASSUME NEW s, Len(s.answers) \in Nat PROVE \E v : Delivering(v, s)
<1> DEFINE V(x, k) == Callback(x, s.answers[k].m, s.answers[k].granted)
           W(v) == v = [n \in 0 .. Len(s.answers) |-> IF n = 0 THEN s ELSE V(v[n - 1], n)]
           w == CHOOSE v : W(v)
<1>1. Delivered(s) = w[Len(s.answers)]
  BY DEF Delivered
<1>2. \E v : W(v)
  <2>1. PICK v : IsDelivered(v, s, Len(s.answers))
    BY DeliveredOnce
  <2>2. W(v)
    BY <2>1 DEF IsDelivered
  <2> HIDE DEF W
  <2> QED
    BY <2>2
<1>3. W(w)
  <2> HIDE DEF W
  <2> QED
    BY <1>2
<1> HIDE DEF w, V
<1>4. \A n \in 0 .. Len(s.answers) : w[n] = IF n = 0 THEN s ELSE V(w[n - 1], n)
  BY <1>3
<1>5. \A n \in 0 .. Len(s.answers) - 1 : w[n + 1] = V(w[n], n + 1)
  <2> SUFFICES ASSUME NEW n \in 0 .. Len(s.answers) - 1 PROVE w[n + 1] = V(w[n], n + 1)
    OBVIOUS
  <2>1. n + 1 \in 0 .. Len(s.answers) /\ n + 1 # 0 /\ (n + 1) - 1 = n
    OBVIOUS
  <2> QED
    BY <1>4, <2>1
<1>6. Delivering(w, s)
  BY <1>1, <1>4, <1>5 DEF Delivering, V
<1> QED
  BY <1>6

\* When all callbacks have run, nothing but the waiting requests is on the way.
LEMMA DeliveredKeeps ==
  ASSUME NEW s, NEW A, Base(s, A), Owed(s, OnTheWay(s)), Awaits(s, OnTheWay(s))
  PROVE  LET u == Delivered(s)
         IN Base(u, A) /\ Owed(u, Elems(u.multi)) /\ Awaits(u, Elems(u.multi)) /\ Stays(s, u)
<1>1. /\ s.answers \in Seq(Given) /\ Len(s.answers) \in Nat
      /\ \A i \in 1 .. Len(s.answers) :
           LET a == s.answers[i] IN Known(s, a.m) /\ AllowedTo(A, a.m.frame, a.m.types, a.granted)
  <2>1. s.answers \in Seq(Given)
    BY DEF Base, State
  <2> QED
    BY <2>1, ElemsOf DEF Base, MessagesInv
<1>0. PICK v : Delivering(v, s)
  BY <1>1, DeliveredIs
<1>2. /\ v[0] = s
      /\ \A n \in 0 .. Len(s.answers) - 1 :
           v[n + 1] = Callback(v[n], s.answers[n + 1].m, s.answers[n + 1].granted)
      /\ Delivered(s) = v[Len(s.answers)]
  BY <1>0 DEF Delivering
<1> DEFINE Rest(n) == Elems(s.multi) \union {s.answers[i].m : i \in n + 1 .. Len(s.answers)}
           Good(z, n) == /\ Base(z, A) /\ Owed(z, Rest(n)) /\ SomeMessages(s, z)
                         /\ \A k : Known(s, k) => Known(z, k)
                         /\ Awaits(z, Rest(n)) /\ Stays(s, z)
           T == {n \in 0 .. Len(s.answers) : Good(v[n], n)}
<1>3. 0 \in T
  <2>1. OnTheWay(s) = Rest(0)
    BY <1>1 DEF OnTheWay, Elems
  <2>2. Owed(s, Rest(0)) /\ Awaits(s, Rest(0)) /\ Stays(s, s)
    <3> HIDE DEF Rest
    <3> QED
      BY <2>1 DEF Stays
  <2>3. SomeMessages(s, s)
    BY DEF SomeMessages
  <2>4. Good(s, 0)
    BY <2>2, <2>3
  <2> HIDE DEF Good
  <2> QED
    BY <2>4, <1>1, <1>2
<1>4. ASSUME NEW n \in 0 .. Len(s.answers) - 1, n \in T PROVE n + 1 \in T
  <2> DEFINE m == s.answers[n + 1].m
             g == s.answers[n + 1].granted
             z == v[n]
             u == Callback(z, m, g)
             P == Rest(n)
             Q == Rest(n + 1)
  <2>1. /\ Base(z, A) /\ Owed(z, P) /\ SomeMessages(s, z) /\ \A k : Known(s, k) => Known(z, k)
        /\ Awaits(z, P) /\ Stays(s, z)
    BY <1>4
  <2>2. n + 1 \in 1 .. Len(s.answers) /\ n + 1 \in 0 .. Len(s.answers)
    BY <1>1
  <2>3. Known(s, m) /\ AllowedTo(A, m.frame, m.types, g)
    BY <1>1, <2>2
  <2>4. v[n + 1] = u
    BY <1>2
  <2>5. P = Q \union {m} /\ \A k \in Q : Differ(k, m)
    <3>1. \A i \in n + 1 .. Len(s.answers) : i = n + 1 \/ i \in n + 1 + 1 .. Len(s.answers)
      BY <1>1
    <3>2. \A i \in n + 1 + 1 .. Len(s.answers) :
            i \in n + 1 .. Len(s.answers) /\ i \in 1 .. Len(s.answers) /\ i # n + 1
      BY <1>1
    <3>3. /\ \A i, j \in 1 .. Len(s.answers) : i # j => Differ(s.answers[i].m, s.answers[j].m)
          /\ \A i \in 1 .. Len(s.multi), j \in 1 .. Len(s.answers) : Differ(s.multi[i], s.answers[j].m)
      BY DEF Base, MessagesInv, Unique
    <3>4. n + 1 \in n + 1 .. Len(s.answers)
      BY <1>1
    <3>5. \A k \in Elems(s.multi) : Differ(k, m)
      BY <2>2, <3>3 DEF Elems
    <3>6. P = Q \union {m}
      BY <3>1, <3>2, <3>4
    <3>7. \A i \in n + 1 + 1 .. Len(s.answers) : Differ(s.answers[i].m, m)
      BY <2>2, <3>2, <3>3
    <3> QED
      BY <3>5, <3>6, <3>7
  <2> HIDE DEF m, g, z, P, Q
  <2>6. Known(z, m)
    BY <2>1, <2>3
  <2>7. Base(u, A) /\ Owed(u, Q) /\ SomeMessages(z, u) /\ \A k : Known(z, k) => Known(u, k)
    BY <2>1, <2>3, <2>5, <2>6, CallbackKeeps
  <2>11. u = Callback(z, m, g)
    OBVIOUS
  <2> HIDE DEF u
  <2>10. Awaits(u, Q) /\ Stays(z, u)
    <3>1. m \in P /\ Q \subseteq P /\ \A k \in Q : Differ(k, m)
      BY <2>5
    <3>2. Base(z, A) /\ Awaits(z, P) /\ \A k : Known(z, k) => Known(u, k)
      BY <2>1, <2>7
    <3> QED
      BY <2>11, <3>1, <3>2, CallbackOnce
  <2>8. SomeMessages(s, u) /\ Stays(s, u)
    BY <2>1, <2>7, <2>10, StaysOn DEF SomeMessages
  <2>9. Good(u, n + 1)
    BY <2>1, <2>7, <2>8, <2>10 DEF Q
  <2> HIDE DEF Good
  <2> QED
    BY <2>2, <2>4, <2>9
<1> DEFINE N == Len(s.answers)
<1>5. N \in Nat /\ N \in T
  <2> HIDE DEF T
  <2> QED
    BY <1>1, <1>3, <1>4, UpTo
<1>6. Rest(N) = Elems(s.multi)
  BY <1>1
<1> HIDE DEF Rest
<1>7. /\ Base(v[N], A) /\ Owed(v[N], Elems(s.multi)) /\ SomeMessages(s, v[N])
      /\ Awaits(v[N], Elems(s.multi)) /\ Stays(s, v[N])
  BY <1>5, <1>6
<1> QED
  BY <1>2, <1>7 DEF SomeMessages
-----------------------------------------------------------------------------
(* The actions.  Between two of them no callback is left to run.           *)
Sound(s, A) == Base(s, A) /\ Owed(s, Elems(s.multi)) /\ Awaits(s, Elems(s.multi))
MediaInv == Sound(Now, allowed) /\ decisions \in 0 .. MaxDecisions

\* More may be allowed later.
LEMMA BaseMore ==
  ASSUME NEW s, NEW A, NEW B, Base(s, A), A \subseteq B, B \subseteq Origins \X Types
  PROVE  Base(s, B)
<1>1. StoresInv(s, B)
  BY DEF Base, StoresInv
<1>2. MessagesInv(s, B)
  BY DEF Base, MessagesInv, AllowedTo
<1>3. RequestsInv(s, B)
  BY DEF Base, RequestsInv, AllowedTo
<1> QED
  BY <1>1, <1>2, <1>3 DEF Base

\* Without answers left the state is sound as it is.
LEMMA Settled ==
  ASSUME NEW s, NEW A, Sound(s, A), NEW t, t = [s EXCEPT !.answers = <<>>]
  PROVE  Sound(t, A)
<1>1. s \in State /\ <<>> \in Seq(Given)
  BY EmptySeq DEF Base, Sound
<1>2. /\ t \in State /\ SameRequests(s, t) /\ t.multi = s.multi /\ t.answers = <<>>
      /\ t.persistent = s.persistent /\ t.transient = s.transient
  BY <1>1 DEF State, SameRequests
<1>3. MessagesInv(t, A)
  BY <1>2, NothingIn, UniqueLess, RequestsStay DEF Base, Sound, MessagesInv
<1>4. StoresInv(t, A)
  BY <1>2 DEF Base, Sound, StoresInv
<1> QED
  BY <1>2, <1>3, <1>4, RequestsStay DEF Base, Sound

\* The record of the state has the variables as its fields.
LEMMA NowFields ==
  /\ Now.persistent = persistent /\ Now.transient = transient /\ Now.multi = multi
  /\ Now.prompts = prompts /\ Now.alive = alive /\ Now.queue = queue /\ Now.tasks = tasks
  /\ Now.asked = asked /\ Now.state = state /\ Now.given = given /\ Now.answers = <<>>
BY DEF Now

\* A step to a sound record is a step to a sound state.
LEMMA Becoming ==
  ASSUME NEW s, Becomes(s), Sound(s, allowed'), NEW n, n = Now, Stays(n, s)
  PROVE  Sound(Now', allowed') /\ AnswersStay
<1>1. s \in State
  BY DEF Sound, Base
<1>2. Now' = [s EXCEPT !.answers = <<>>]
  <2>1. [s EXCEPT !.answers = <<>>] =
          [persistent |-> s.persistent, transient |-> s.transient, multi |-> s.multi,
           prompts |-> s.prompts, alive |-> s.alive, queue |-> s.queue, tasks |-> s.tasks,
           asked |-> s.asked, state |-> s.state, given |-> s.given, answers |-> <<>>]
    <3>1. s = [persistent |-> s.persistent, transient |-> s.transient, multi |-> s.multi,
               prompts |-> s.prompts, alive |-> s.alive, queue |-> s.queue, tasks |-> s.tasks,
               asked |-> s.asked, state |-> s.state, given |-> s.given, answers |-> s.answers]
      BY <1>1, Zenon DEF State
    <3> QED
      BY <3>1
  <2>2. Now' = [persistent |-> s.persistent, transient |-> s.transient, multi |-> s.multi,
           prompts |-> s.prompts, alive |-> s.alive, queue |-> s.queue, tasks |-> s.tasks,
           asked |-> s.asked, state |-> s.state, given |-> s.given, answers |-> <<>>]
    BY DEF Now, Becomes
  <2> QED
    BY <2>1, <2>2
<1> DEFINE t == Now'
<1> HIDE DEF t
<1>3. t = [s EXCEPT !.answers = <<>>]
  BY <1>2 DEF t
<1>4. Sound(t, allowed')
  BY <1>3, Settled
<1>5. AnswersStay
  BY NowFields DEF Becomes, Stays, AnswersStay
<1> QED
  BY <1>4, <1>5 DEF t

\* Between steps the messages on the way are the waiting requests.
LEMMA AllOnTheWay == ASSUME NEW s, s.answers = <<>> PROVE OnTheWay(s) = Elems(s.multi)
BY NothingIn DEF OnTheWay

\* A request asked of the permission manager, answered at once or not.
LEMMA AskingKeeps ==
  ASSUME NEW s, NEW A, Base(s, A), NEW f, NEW types, NEW r,
         Known(s, [frame |-> f, types |-> types, req |-> r]),
         Fresh(s, [frame |-> f, types |-> types, req |-> r]),
         Owed(s, OnTheWay(s) \union {[frame |-> f, types |-> types, req |-> r]}),
         Awaits(s, OnTheWay(s) \union {[frame |-> f, types |-> types, req |-> r]})
  PROVE  Sound(Asking(s, f, types, r), A) /\ Stays(s, Asking(s, f, types, r))
<1> DEFINE m == [frame |-> f, types |-> types, req |-> r]
           t == RequestPermissions(s, m)
<1>0. /\ Known(s, m) /\ Fresh(s, m)
      /\ Owed(s, OnTheWay(s) \union {m}) /\ Awaits(s, OnTheWay(s) \union {m})
  OBVIOUS
<1>1. Asking(s, f, types, r) = Delivered(t)
  BY DEF Asking
<1> HIDE DEF m
<1>2. Base(t, A) /\ SameRequests(s, t) /\ OnTheWay(t) = OnTheWay(s) \union {m}
  BY <1>0, RequestKeeps
<1> HIDE DEF t
<1>3. Owed(t, OnTheWay(t)) /\ Awaits(t, OnTheWay(t)) /\ Stays(s, t)
  BY <1>0, <1>2, RequestsStay
<1> DEFINE u == Delivered(t)
<1>4. Base(u, A) /\ Owed(u, Elems(u.multi)) /\ Awaits(u, Elems(u.multi)) /\ Stays(t, u)
  BY <1>2, <1>3, DeliveredKeeps
<1> HIDE DEF u
<1>5. Sound(u, A) /\ Stays(s, u)
  BY <1>3, <1>4, StaysOn DEF Sound
<1> QED
  BY <1>1, <1>5 DEF u

\* A decision of the application with all the callbacks it causes.
LEMMA DecisionKeeps ==
  ASSUME NEW s, NEW A, Sound(s, A), s.answers = <<>>, NEW o, NEW types \in Seq(Types), NEW status, NEW f,
         \A t \in ToSet(types) : Decision(A, o, t, status, f),
         NEW v, v = Delivered(setPermission(s, o, types, status, f))
  PROVE  Sound(v, A) /\ Stays(s, v)
<1> DEFINE u == setPermission(s, o, types, status, f)
<1>1. Base(u, A) /\ SameRequests(s, u) /\ OnTheWay(u) = OnTheWay(s)
  BY setPermissionKeeps DEF Sound
<1>0. v = Delivered(u)
  OBVIOUS
<1> HIDE DEF u
<1>2. Owed(s, OnTheWay(s)) /\ Awaits(s, OnTheWay(s))
  BY AllOnTheWay DEF Sound
<1>3. Owed(u, OnTheWay(u)) /\ Awaits(u, OnTheWay(u)) /\ Stays(s, u)
  BY <1>1, <1>2, RequestsStay
<1>4. Base(v, A) /\ Owed(v, Elems(v.multi)) /\ Awaits(v, Elems(v.multi)) /\ Stays(u, v)
  BY <1>0, <1>1, <1>3, DeliveredKeeps
<1> QED
  BY <1>3, <1>4, StaysOn DEF Sound

\* An answer to the dispatcher alone.
LEMMA AnsweredAgain ==
  ASSUME NEW s, NEW A, Sound(s, A), NEW p \in ThePages, NEW o, NEW flags, FlagsAllowed(A, o, flags),
         NEW u, u = HandleResponse(s, p, o, flags)
  PROVE  Sound(u, A) /\ Stays(s, u)
<1> DEFINE P == Elems(s.multi)
<1>1. Base(s, A) /\ Owed(s, P) /\ Spent(s, p, P, P) /\ Awaits(s, P)
  BY DEF Sound, Spent
<1>2. Base(u, A) /\ Owed(u, P) /\ SomeMessages(s, u) /\ \A m : Known(s, m) => Known(u, m)
  BY <1>1, ResponseKeeps
<1>3. Awaits(u, P) /\ Stays(s, u)
  BY <1>1, <1>2, ResponseOnce
<1> QED
  BY <1>2, <1>3 DEF Sound, SomeMessages

\* Nobody has asked for anything yet.
LEMMA InitMedia == Init => MediaInv
<1> SUFFICES ASSUME Init PROVE MediaInv
  OBVIOUS
<1> DEFINE s == Now
<1>1. /\ s.persistent = [o \in Origins |-> Nothing] /\ s.transient = [f \in Frames |-> Nothing]
      /\ s.multi = <<>> /\ s.prompts = {} /\ s.alive = ThePages
      /\ s.queue = [p \in ThePages |-> <<>>] /\ s.tasks = [p \in ThePages |-> 0]
      /\ s.asked = [r \in Requests |-> NotAsked]
      /\ s.state = [r \in Requests |-> "new"] /\ s.given = [r \in Requests |-> {}]
      /\ s.answers = <<>> /\ allowed = {} /\ decisions = 0
  BY DEF Init, Now
<1>2. Nothing \in [Types -> Statuses] /\ \A t \in Types : Nothing[t] # "granted"
  BY DEF Nothing, Statuses
<1>3. <<>> \in Seq(Message) /\ <<>> \in Seq(Given) /\ <<>> \in Seq(Requests)
  BY EmptySeq
<1>4. s \in State
  <2> HIDE DEF s
  <2>0. s = [persistent |-> s.persistent, transient |-> s.transient, multi |-> s.multi,
             prompts |-> s.prompts, alive |-> s.alive, queue |-> s.queue, tasks |-> s.tasks,
             asked |-> s.asked, state |-> s.state, given |-> s.given, answers |-> s.answers]
    BY DEF s, Now
  <2>1. s.persistent \in [Origins -> [Types -> Statuses]]
    BY <1>1, <1>2
  <2>2. s.transient \in [Frames -> [Types -> Statuses]]
    BY <1>1, <1>2
  <2>3. s.multi \in Seq(Message) /\ s.answers \in Seq(Given)
    BY <1>1, <1>3
  <2>4. s.queue \in [ThePages -> Seq(Requests)] /\ s.tasks \in [ThePages -> Nat]
    BY <1>1, <1>3
  <2>5. s.state \in [Requests -> {"new", "waiting", "answered", "refused", "closed"}]
    BY <1>1
  <2>6. s.asked \in [Requests -> FrameTypes \union {NotAsked}] /\ s.given \in [Requests -> SUBSET Types]
    BY <1>1
  <2>7. s.prompts \in SUBSET FrameTypes /\ s.alive \in SUBSET ThePages
    BY <1>1
  <2> QED
    BY <2>0, <2>1, <2>2, <2>3, <2>4, <2>5, <2>6, <2>7 DEF State
<1> HIDE DEF s
<1>5. StoresInv(s, allowed) /\ MessagesInv(s, allowed)
  BY <1>1, <1>2, NothingIn DEF StoresInv, MessagesInv, Unique
<1>6. QueueInv(s)
  BY <1>1, NothingIn DEF QueueInv
<1>7. RequestsInv(s, allowed)
  BY <1>1 DEF RequestsInv, AllowedTo
<1>8. Owed(s, Elems(s.multi)) /\ Awaits(s, Elems(s.multi))
  BY <1>1, NothingIn DEF Owed, Awaits
<1>9. decisions \in 0 .. MaxDecisions /\ allowed \subseteq Origins \X Types
  BY <1>1, MediaConstants
<1> QED
  BY <1>4, <1>5, <1>6, <1>7, <1>8, <1>9 DEF MediaInv, Sound, Base, s

\* A page asks for a permission.
LEMMA RequestMedia ==
  ASSUME MediaInv, NEW r \in Requests, NEW f \in Frames, NEW types \in Asked, Request(r, f, types)
  PROVE  MediaInv' /\ AnswersStay
<1> DEFINE A == allowed
           p == PageOf[f]
           a == [frame |-> f, types |-> types]
           q == IF IsMedia(types) THEN Append(Now.queue[p], r) ELSE Now.queue[p]
           s == [Now EXCEPT !.asked[r] = a, !.state[r] = "waiting", !.queue[p] = q]
           m == [frame |-> f, types |-> types, req |-> r]
<1>0. /\ Now \in State /\ StoresInv(Now, A) /\ MessagesInv(Now, A) /\ QueueInv(Now)
      /\ RequestsInv(Now, A) /\ A \subseteq Origins \X Types
      /\ Owed(Now, Elems(Now.multi)) /\ Awaits(Now, Elems(Now.multi))
      /\ Now.answers = <<>> /\ decisions \in 0 .. MaxDecisions
  BY NowFields DEF MediaInv, Sound, Base
<1>1. /\ Now.state[r] = "new" /\ p \in ThePages /\ decisions' = decisions /\ allowed' = A
  BY NowFields, OfFrame DEF Request
<1>2. Becomes(Asking(s, f, types, r))
  BY DEF Request
<1> DEFINE n == Now
<1>n. n = Now
  OBVIOUS
<1> HIDE DEF n
<1>3. s = [n EXCEPT !.asked = [@ EXCEPT ![r] = a], !.state = [@ EXCEPT ![r] = "waiting"],
                    !.queue = [@ EXCEPT ![p] = q]]
  BY DEF n
<1>4. /\ n \in State /\ StoresInv(n, A) /\ MessagesInv(n, A) /\ QueueInv(n) /\ RequestsInv(n, A)
      /\ Owed(n, Elems(n.multi)) /\ Awaits(n, Elems(n.multi))
      /\ n.answers = <<>> /\ n.state[r] = "new"
      /\ q = IF IsMedia(types) THEN Append(n.queue[p], r) ELSE n.queue[p]
  BY <1>0, <1>1 DEF n
<1>5. a \in FrameTypes /\ m \in Message
  BY DEF FrameTypes, Message
<1>6. \A x \in ThePages : Elems(n.queue[x]) \subseteq Requests /\ r \notin Elems(n.queue[x])
                          /\ n.queue[x] \in Seq(Requests) /\ Distinct(n.queue[x])
  <2> SUFFICES ASSUME NEW x \in ThePages
               PROVE  Elems(n.queue[x]) \subseteq Requests /\ r \notin Elems(n.queue[x])
                      /\ n.queue[x] \in Seq(Requests) /\ Distinct(n.queue[x])
    OBVIOUS
  <2>1. n.queue[x] \in Seq(Requests)
    BY <1>4 DEF State
  <2> QED
    BY <2>1, <1>4, ElemsOf DEF QueueInv
<1>7. /\ q \in Seq(Requests) /\ Distinct(q) /\ Elems(n.queue[p]) \subseteq Elems(q)
      /\ Elems(q) \subseteq Elems(n.queue[p]) \union {r}
      /\ IsMedia(types) => r \in Elems(q)
      /\ ~IsMedia(types) => q = n.queue[p]
  <2> HIDE DEF q
  <2> QED
    BY <1>1, <1>4, <1>6, Appended, DistinctAppended
<1> HIDE DEF s, q
<1>8. /\ s \in State /\ s.persistent = n.persistent /\ s.transient = n.transient
      /\ s.multi = n.multi /\ s.prompts = n.prompts /\ s.alive = n.alive /\ s.answers = <<>>
      /\ s.tasks = n.tasks /\ s.given = n.given
      /\ \A x \in Requests : s.asked[x] = IF x = r THEN a ELSE n.asked[x]
      /\ \A x \in Requests : s.state[x] = IF x = r THEN "waiting" ELSE n.state[x]
      /\ \A x \in ThePages : s.queue[x] = IF x = p THEN q ELSE n.queue[x]
  BY <1>1, <1>3, <1>4, <1>5, <1>7 DEF State
<1>9. Known(s, m)
  BY <1>5, <1>8 DEF Known
<1>10. \A k : Known(n, k) => Known(s, k)
  BY <1>4, <1>8 DEF Known, Message
<1>11. MessagesInv(s, A) /\ StoresInv(s, A)
  BY <1>4, <1>8, <1>10 DEF MessagesInv, StoresInv
<1> HIDE DEF p
<1>12. QueueInv(s)
  <2> SUFFICES ASSUME NEW x \in ThePages
               PROVE  /\ Distinct(s.queue[x])
                      /\ \A y \in Elems(s.queue[x]) :
                           /\ s.state[y] = "waiting" /\ s.asked[y] \in FrameTypes
                           /\ IsMedia(s.asked[y].types) /\ PageOf[s.asked[y].frame] = x
    BY DEF QueueInv
  <2>1. Distinct(s.queue[x])
    BY <1>6, <1>7, <1>8
  <2>2. ASSUME NEW y \in Elems(s.queue[x]), y # r
        PROVE  /\ s.state[y] = "waiting" /\ s.asked[y] \in FrameTypes
               /\ IsMedia(s.asked[y].types) /\ PageOf[s.asked[y].frame] = x
    <3>1. y \in Elems(n.queue[x])
      BY <2>2, <1>7, <1>8
    <3>2. s.state[y] = n.state[y] /\ s.asked[y] = n.asked[y]
      BY <2>2, <3>1, <1>6, <1>8
    <3> QED
      BY <3>1, <3>2, <1>4 DEF QueueInv
  <2>3. ASSUME r \in Elems(s.queue[x])
        PROVE  /\ s.state[r] = "waiting" /\ s.asked[r] \in FrameTypes
               /\ IsMedia(s.asked[r].types) /\ PageOf[s.asked[r].frame] = x
    <3>1. x = p /\ IsMedia(types)
      BY <2>3, <1>6, <1>7, <1>8
    <3> QED
      BY <3>1, <1>5, <1>8 DEF p
  <2> QED
    BY <2>1, <2>2, <2>3
<1>13. RequestsInv(s, A)
  <2> SUFFICES ASSUME NEW x \in Requests
               PROVE  /\ s.state[x] # "new" => s.asked[x] \in FrameTypes
                      /\ s.given[x] # {} <=> s.state[x] = "answered"
                      /\ AllowedTo(A, s.asked[x].frame, s.asked[x].types, s.given[x])
    BY DEF RequestsInv
  <2>1. CASE x = r
    <3>1. n.given[r] = {}
      BY <1>4 DEF RequestsInv
    <3> QED
      BY <2>1, <3>1, <1>5, <1>8 DEF AllowedTo
  <2>2. CASE x # r
    BY <2>2, <1>4, <1>8 DEF RequestsInv
  <2> QED
    BY <2>1, <2>2
<1>14. Owed(s, Elems(n.multi) \union {m})
  <2>1. ASSUME NEW x \in Requests, s.state[x] = "waiting"
        PROVE  IF IsMedia(s.asked[x].types) THEN x \in Elems(s.queue[PageOf[s.asked[x].frame]])
               ELSE \E k \in Elems(n.multi) \union {m} : k.req = x
    <3>1. CASE x = r
      <4>1. s.asked[x].types = types /\ PageOf[s.asked[x].frame] = p
        BY <3>1, <1>8 DEF p
      <4>2. IsMedia(types) => r \in Elems(s.queue[p])
        BY <1>1, <1>7, <1>8
      <4>3. m.req = r
        OBVIOUS
      <4> QED
        BY <3>1, <4>1, <4>2, <4>3
    <3>2. CASE x # r
      <4>1. n.state[x] = "waiting" /\ s.asked[x] = n.asked[x]
        BY <3>2, <2>1, <1>8
      <4>2. CASE ~IsMedia(n.asked[x].types)
        BY <4>1, <4>2, <1>4 DEF Owed
      <4>3. CASE IsMedia(n.asked[x].types)
        <5> DEFINE z == PageOf[n.asked[x].frame]
        <5>1. x \in Elems(n.queue[z])
          BY <4>1, <4>3, <1>4 DEF Owed
        <5>2. n.asked[x] \in FrameTypes
          BY <4>1, <1>4 DEF RequestsInv
        <5>3. z \in ThePages
          BY <5>2, OfFrame DEF FrameTypes
        <5>4. x \in Elems(s.queue[z])
          BY <5>1, <5>3, <1>7, <1>8
        <5> QED
          BY <4>1, <4>3, <5>4
      <4> QED
        BY <4>2, <4>3
    <3> QED
      BY <3>1, <3>2
  <2>2. ASSUME NEW x \in ThePages, s.queue[x] # <<>>
        PROVE  s.tasks[x] > 0 \/ \E k \in Elems(n.multi) \union {m} : MediaOf(k, x)
    <3>1. CASE x = p /\ IsMedia(types)
      <4>1. MediaOf(m, x)
        BY <3>1 DEF MediaOf, p
      <4> QED
        BY <4>1
    <3>2. CASE ~(x = p /\ IsMedia(types))
      <4>1. s.queue[x] = n.queue[x]
        BY <3>2, <1>7, <1>8
      <4> QED
        BY <4>1, <2>2, <1>4, <1>8 DEF Owed
    <3> QED
      BY <3>1, <3>2
  <2> QED
    BY <2>1, <2>2 DEF Owed
<1>15. OnTheWay(s) = Elems(n.multi)
  BY <1>8, AllOnTheWay
<1>16. Base(s, A)
  BY <1>0, <1>8, <1>11, <1>12, <1>13 DEF Base
<1>19. Fresh(s, m) /\ Awaits(s, OnTheWay(s) \union {m}) /\ Stays(n, s)
  <2>1. \A k \in Elems(n.multi) : k.req # r /\ k.req \in Requests
    BY <1>4 DEF MessagesInv, Known, Message
  <2>2. Fresh(s, m)
    BY <1>15, <2>1 DEF Fresh, Differ
  <2>3. ASSUME NEW k \in Elems(n.multi) PROVE Known(s, k) /\ (Plain(k) => s.state[k.req] = "waiting")
    <3>1. Known(n, k) /\ (Plain(k) => n.state[k.req] = "waiting")
      BY <1>4, <2>3 DEF Awaits
    <3> QED
      BY <3>1, <2>1, <1>8, <1>10
  <2>4. s.state[m.req] = "waiting"
    BY <1>8
  <2>5. Stays(n, s)
    BY <1>4, <1>8 DEF Stays
  <2> HIDE DEF m
  <2>6. Awaits(s, OnTheWay(s) \union {m})
    BY <1>9, <1>15, <2>3, <2>4 DEF Awaits
  <2> QED
    BY <2>2, <2>5, <2>6
<1>17. Sound(Asking(s, f, types, r), A) /\ Stays(s, Asking(s, f, types, r))
  BY <1>9, <1>14, <1>15, <1>16, <1>19, AskingKeeps
<1>18. Sound(Now', allowed') /\ AnswersStay
  <2> DEFINE u == Asking(s, f, types, r)
  <2>1. Becomes(u) /\ Sound(u, allowed') /\ Stays(s, u)
    BY <1>1, <1>2, <1>17 DEF s, q
  <2> HIDE DEF u
  <2>2. Stays(n, u)
    BY <2>1, <1>19, StaysOn
  <2> QED
    BY <2>1, <2>2, <1>n, Becoming
<1> QED
  BY <1>0, <1>1, <1>18 DEF MediaInv

(* The queues of t are those of s but for members of X, who are closed.    *)
Closing(s, t, X) ==
  /\ t.persistent = s.persistent /\ t.transient = s.transient /\ t.multi = s.multi
  /\ t.prompts = s.prompts /\ t.answers = s.answers /\ t.asked = s.asked /\ t.tasks = s.tasks
  /\ t.given = s.given
  /\ \A p \in ThePages : Distinct(t.queue[p]) /\ Elems(t.queue[p]) = Elems(s.queue[p]) \ X
                         /\ t.queue[p] \in Seq(Requests) /\ s.queue[p] \in Seq(Requests)
  /\ \A r \in Requests : t.state[r] = IF r \in X THEN "closed" ELSE s.state[r]

\* A queue is empty when nobody is in it.
LEMMA NonEmpty == ASSUME NEW q \in Seq(Requests) PROVE q = <<>> <=> Elems(q) = {}
<1>1. q # <<>> => 1 \in 1 .. Len(q)
  BY ElemsOf
<1> QED
  BY <1>1, NothingIn DEF Elems

\* Requests that leave their queues unanswered.
LEMMA ClosingKeeps ==
  ASSUME NEW s, NEW A, Sound(s, A), NEW t \in State, NEW X, Closing(s, t, X),
         \A r \in X : \E p \in ThePages : r \in Elems(s.queue[p])
  PROVE  Sound(t, A) /\ Stays(s, t)
<1>0. /\ s \in State /\ StoresInv(s, A) /\ MessagesInv(s, A) /\ QueueInv(s) /\ RequestsInv(s, A)
      /\ Owed(s, Elems(s.multi)) /\ Awaits(s, Elems(s.multi)) /\ A \subseteq Origins \X Types
  BY DEF Sound, Base
<1>1. \A r \in Requests : s.state[r] # "new" => t.state[r] # "new"
  BY DEF Closing
<1>2. \A m : Known(s, m) => Known(t, m)
  BY <1>1 DEF Known, Closing, Message
<1>3. MessagesInv(t, A) /\ StoresInv(t, A)
  BY <1>0, <1>2 DEF MessagesInv, StoresInv, Closing
<1>4. \A p \in ThePages : Elems(s.queue[p]) \subseteq Requests
  BY ElemsOf DEF Closing
<1>5. \A r \in X : s.state[r] = "waiting" /\ IsMedia(s.asked[r].types) /\ r \in Requests
  BY <1>0, <1>4 DEF QueueInv
<1>6. QueueInv(t)
  <2> SUFFICES ASSUME NEW p \in ThePages
               PROVE  /\ Distinct(t.queue[p])
                      /\ \A r \in Elems(t.queue[p]) :
                           /\ t.state[r] = "waiting" /\ t.asked[r] \in FrameTypes
                           /\ IsMedia(t.asked[r].types) /\ PageOf[t.asked[r].frame] = p
    BY DEF QueueInv
  <2>1. /\ Distinct(t.queue[p]) /\ Elems(t.queue[p]) = Elems(s.queue[p]) \ X /\ t.asked = s.asked
        /\ \A r \in Requests : t.state[r] = IF r \in X THEN "closed" ELSE s.state[r]
    BY DEF Closing
  <2> QED
    BY <1>0, <1>4, <2>1 DEF QueueInv
<1>7. RequestsInv(t, A)
  <2> SUFFICES ASSUME NEW x \in Requests
               PROVE  /\ t.state[x] # "new" => t.asked[x] \in FrameTypes
                      /\ t.given[x] # {} <=> t.state[x] = "answered"
                      /\ AllowedTo(A, t.asked[x].frame, t.asked[x].types, t.given[x])
    BY DEF RequestsInv
  <2>1. t.asked = s.asked /\ t.given = s.given /\ t.state[x] = IF x \in X THEN "closed" ELSE s.state[x]
    BY DEF Closing
  <2>2. /\ s.state[x] # "new" => s.asked[x] \in FrameTypes
        /\ s.given[x] # {} <=> s.state[x] = "answered"
        /\ AllowedTo(A, s.asked[x].frame, s.asked[x].types, s.given[x])
    BY <1>0 DEF RequestsInv
  <2>3. x \in X => s.state[x] = "waiting"
    BY <1>5
  <2> QED
    BY <2>1, <2>2, <2>3
<1>8. Owed(t, Elems(t.multi))
  <2>1. ASSUME NEW x \in Requests, t.state[x] = "waiting"
        PROVE  IF IsMedia(t.asked[x].types) THEN x \in Elems(t.queue[PageOf[t.asked[x].frame]])
               ELSE \E k \in Elems(t.multi) : k.req = x
    <3>1. x \notin X /\ s.state[x] = "waiting" /\ t.asked = s.asked /\ t.multi = s.multi
      BY <2>1 DEF Closing
    <3>2. PageOf[s.asked[x].frame] \in ThePages
      <4>1. s.asked[x] \in FrameTypes
        BY <1>0, <3>1 DEF RequestsInv
      <4> QED
        BY <4>1, OfFrame DEF FrameTypes
    <3> QED
      BY <1>0, <3>1, <3>2 DEF Owed, Closing
  <2>2. ASSUME NEW p \in ThePages, t.queue[p] # <<>>
        PROVE  t.tasks[p] > 0 \/ \E k \in Elems(t.multi) : MediaOf(k, p)
    <3>1. s.queue[p] # <<>>
      BY <2>2, NonEmpty DEF Closing
    <3> QED
      BY <1>0, <3>1 DEF Owed, Closing
  <2> QED
    BY <2>1, <2>2 DEF Owed
<1>9. Stays(s, t)
  BY <1>5 DEF Stays, Closing
<1>10. ASSUME NEW m \in Elems(t.multi) PROVE Known(t, m) /\ (Plain(m) => t.state[m.req] = "waiting")
  <2>1. Known(s, m) /\ (Plain(m) => s.state[m.req] = "waiting")
    BY <1>0, <1>10 DEF Awaits, Closing
  <2>2. m.req \in Requests /\ s.asked[m.req].types = m.types
    BY <2>1 DEF Known, Message
  <2>3. Plain(m) => m.req \notin X
    BY <1>5, <2>2 DEF Plain
  <2> QED
    BY <1>2, <2>1, <2>2, <2>3 DEF Closing
<1>11. Awaits(t, Elems(t.multi))
  BY <1>10 DEF Awaits
<1> QED
  BY <1>0, <1>3, <1>6, <1>7, <1>8, <1>9, <1>11 DEF Sound, Base

\* The queue of a page.
LEMMA QueueOf ==
  ASSUME NEW s, NEW A, Sound(s, A), NEW p \in ThePages
  PROVE  s.queue[p] \in Seq(Requests) /\ Distinct(s.queue[p]) /\ Elems(s.queue[p]) \subseteq Requests
<1>1. s.queue[p] \in Seq(Requests) /\ Distinct(s.queue[p])
  BY DEF Sound, Base, State, QueueInv
<1> QED
  BY <1>1, ElemsOf

\* A page takes a request back.
LEMMA CancelMedia == ASSUME MediaInv, NEW r \in Requests, Cancel(r) PROVE MediaInv' /\ AnswersStay
<1> DEFINE n == Now
<1>1. PICK p \in ThePages : /\ r \in ToSet(queue[p])
        /\ Becomes([n EXCEPT !.queue[p] = Removed(@, r), !.state[r] = "closed"])
  BY DEF Cancel
<1>2. /\ Sound(n, allowed) /\ decisions \in 0 .. MaxDecisions /\ n.queue = queue
      /\ allowed' = allowed /\ decisions' = decisions
  BY NowFields DEF MediaInv, Cancel
<1>n. n = Now
  OBVIOUS
<1> HIDE DEF n
<1> DEFINE q == RemoveFirst(n.queue[p], r)
           t == [n EXCEPT !.queue[p] = q, !.state[r] = "closed"]
<1>3. r \in Elems(n.queue[p])
  <2>1. queue[p] \in Seq(Requests)
    BY <1>2, QueueOf
  <2> QED
    BY <1>1, <1>2, <2>1, ElemsOf
<1>4. q \in Seq(Requests) /\ Elems(q) = Elems(n.queue[p]) \ {r} /\ Distinct(q)
  BY <1>2, <1>3, OneLeaves, QueueOf
<1>5. n \in State /\ QueueInv(n)
  BY <1>2 DEF Sound, Base
<1>6. Becomes(t)
  BY <1>1 DEF Removed
<1> HIDE DEF q
<1>7. t \in State /\ Closing(n, t, {r})
  <2>1. /\ t \in State /\ t.persistent = n.persistent /\ t.transient = n.transient /\ t.multi = n.multi
        /\ t.prompts = n.prompts /\ t.answers = n.answers /\ t.asked = n.asked /\ t.tasks = n.tasks
        /\ t.given = n.given
        /\ \A x \in ThePages : t.queue[x] = IF x = p THEN q ELSE n.queue[x]
        /\ \A x \in Requests : t.state[x] = IF x = r THEN "closed" ELSE n.state[x]
    BY <1>4, <1>5 DEF State
  <2> HIDE DEF t
  <2>2. ASSUME NEW x \in ThePages
        PROVE  /\ Distinct(t.queue[x]) /\ Elems(t.queue[x]) = Elems(n.queue[x]) \ {r}
               /\ t.queue[x] \in Seq(Requests) /\ n.queue[x] \in Seq(Requests)
    <3>1. n.queue[x] \in Seq(Requests) /\ Distinct(n.queue[x])
      BY <1>2, QueueOf
    <3>2. CASE x = p
      BY <3>1, <3>2, <2>1, <1>4
    <3>3. CASE x # p
      <4>1. r \notin Elems(n.queue[x])
        BY <1>3, <1>5, <3>3 DEF QueueInv
      <4> QED
        BY <3>1, <3>3, <4>1, <2>1
    <3> QED
      BY <3>2, <3>3
  <2> QED
    BY <2>1, <2>2 DEF Closing
<1> HIDE DEF t
<1>8. Sound(t, allowed') /\ Stays(n, t)
  BY <1>2, <1>3, <1>7, ClosingKeeps
<1>9. Sound(Now', allowed') /\ AnswersStay
  BY <1>6, <1>8, <1>n, Becoming
<1> QED
  BY <1>2, <1>9 DEF MediaInv

\* A page goes away with its queue.
LEMMA DestroyMedia == ASSUME MediaInv, NEW p \in ThePages, DestroyPage(p) PROVE MediaInv' /\ AnswersStay
<1> DEFINE n == Now
           X == ToSet(queue[p])
           st == [r \in Requests |-> IF r \in X THEN "closed" ELSE n.state[r]]
           al == n.alive \ {p}
           t == [n EXCEPT !.alive = al, !.queue[p] = <<>>, !.state = st]
<1>1. /\ Sound(n, allowed) /\ decisions \in 0 .. MaxDecisions /\ n.queue = queue
      /\ allowed' = allowed /\ decisions' = decisions
  BY NowFields DEF MediaInv, DestroyPage
<1>2. Becomes(t)
  BY DEF DestroyPage
<1>3. n \in State /\ QueueInv(n)
  BY <1>1 DEF Sound, Base
<1>4. X = Elems(n.queue[p]) /\ X \subseteq Requests
  <2>1. queue[p] \in Seq(Requests)
    BY <1>1, QueueOf
  <2> QED
    BY <1>1, <2>1, ElemsOf
<1>n. n = Now
  OBVIOUS
<1> HIDE DEF n, X
<1>5. st \in [Requests -> {"new", "waiting", "answered", "refused", "closed"}] /\ al \in SUBSET ThePages
  BY <1>3 DEF State
<1>6. <<>> \in Seq(Requests)
  BY EmptySeq
<1>7. \A x \in Requests : st[x] = IF x \in X THEN "closed" ELSE n.state[x]
  OBVIOUS
<1> HIDE DEF st, al
<1>8. t \in State /\ Closing(n, t, X)
  <2>1. /\ t \in State /\ t.persistent = n.persistent /\ t.transient = n.transient /\ t.multi = n.multi
        /\ t.prompts = n.prompts /\ t.answers = n.answers /\ t.asked = n.asked /\ t.tasks = n.tasks
        /\ t.given = n.given /\ t.state = st
        /\ \A x \in ThePages : t.queue[x] = IF x = p THEN <<>> ELSE n.queue[x]
    BY <1>3, <1>5, <1>6 DEF State
  <2> HIDE DEF t
  <2>2. ASSUME NEW x \in ThePages
        PROVE  /\ Distinct(t.queue[x]) /\ Elems(t.queue[x]) = Elems(n.queue[x]) \ X
               /\ t.queue[x] \in Seq(Requests) /\ n.queue[x] \in Seq(Requests)
    <3>1. n.queue[x] \in Seq(Requests) /\ Distinct(n.queue[x])
      BY <1>1, QueueOf
    <3>2. CASE x = p
      BY <3>1, <3>2, <2>1, <1>4, <1>6, NothingIn
    <3>3. CASE x # p
      <4>1. Elems(n.queue[x]) \intersect X = {}
        BY <1>3, <1>4, <3>3 DEF QueueInv
      <4> QED
        BY <3>1, <3>3, <4>1, <2>1
    <3> QED
      BY <3>2, <3>3
  <2> QED
    BY <2>1, <2>2, <1>7 DEF Closing
<1> HIDE DEF t
<1>9. Sound(t, allowed') /\ Stays(n, t)
  BY <1>1, <1>4, <1>8, ClosingKeeps
<1>10. Sound(Now', allowed') /\ AnswersStay
  BY <1>2, <1>9, <1>n, Becoming
<1> QED
  BY <1>1, <1>10 DEF MediaInv

\* The posted task looks at the front of the queue.
LEMMA ProcessMedia ==
  ASSUME MediaInv, NEW p \in ThePages, ProcessQueued(p) PROVE MediaInv' /\ AnswersStay
<1> DEFINE n == Now
           r == Head(queue[p])
           k == n.tasks[p] - 1
           s == [n EXCEPT !.tasks[p] = k]
           f == asked[r].frame
           types == asked[r].types
           m == [frame |-> f, types |-> types, req |-> r]
           A == allowed
<1>1. /\ Sound(n, A) /\ decisions \in 0 .. MaxDecisions /\ n.queue = queue /\ n.asked = asked
      /\ allowed' = A /\ decisions' = decisions /\ n.tasks[p] > 0 /\ n.answers = <<>>
  BY NowFields DEF MediaInv, ProcessQueued
<1>2. Becomes(IF n.queue[p] = <<>> THEN s ELSE Asking(s, f, types, r))
  BY NowFields DEF ProcessQueued
<1>3. /\ n \in State /\ StoresInv(n, A) /\ MessagesInv(n, A) /\ QueueInv(n) /\ RequestsInv(n, A)
      /\ Owed(n, Elems(n.multi)) /\ Awaits(n, Elems(n.multi)) /\ A \subseteq Origins \X Types
  BY <1>1 DEF Sound, Base
<1>4. k \in Nat
  BY <1>1, <1>3 DEF State
<1>n. n = Now
  OBVIOUS
<1> HIDE DEF n, k
<1>5. /\ s \in State /\ SomeMessages(n, s) /\ s.queue = n.queue /\ s.state = n.state
      /\ s.given = n.given /\ \A x \in ThePages : s.tasks[x] = IF x = p THEN k ELSE n.tasks[x]
  BY <1>3, <1>4 DEF State, SomeMessages
<1> HIDE DEF s
<1>6. MessagesInv(s, A) /\ StoresInv(s, A) /\ \A x : Known(n, x) => Known(s, x)
  BY <1>3, <1>5, MessagesStay DEF Base
<1>7. QueueInv(s) /\ RequestsInv(s, A)
  BY <1>3, <1>5 DEF QueueInv, RequestsInv, SomeMessages
<1>8. Base(s, A)
  BY <1>3, <1>5, <1>6, <1>7 DEF Base
<1>9. ASSUME NEW P, Elems(n.multi) \subseteq P, n.queue[p] = <<>> \/ \E x \in P : MediaOf(x, p)
      PROVE  Owed(s, P)
  <2>1. Owed(n, P)
    BY <1>3, <1>9, OwedMore
  <2> QED
    BY <1>5, <1>9, <2>1 DEF Owed, SomeMessages
<1>12. Stays(n, s) /\ Awaits(s, Elems(n.multi))
  BY <1>3, <1>5, <1>6 DEF Stays, Awaits
<1>10. CASE n.queue[p] = <<>>
  <2>1. Owed(s, Elems(n.multi))
    BY <1>9, <1>10
  <2>2. Sound(s, allowed') /\ Becomes(s)
    BY <1>1, <1>2, <1>5, <1>8, <1>10, <1>12, <2>1 DEF Sound, SomeMessages
  <2>3. Sound(Now', allowed') /\ AnswersStay
    BY <2>2, <1>12, <1>n, Becoming
  <2> QED
    BY <1>1, <2>3 DEF MediaInv
<1>11. CASE n.queue[p] # <<>>
  <2>1. r \in Requests /\ r \in Elems(n.queue[p])
    <3>1. n.queue[p] \in Seq(Requests) /\ Distinct(n.queue[p])
      BY <1>1, QueueOf
    <3> QED
      BY <1>1, <1>11, <3>1, HeadLeaves
  <2>2. /\ n.state[r] = "waiting" /\ n.asked[r] \in FrameTypes
        /\ IsMedia(n.asked[r].types) /\ PageOf[n.asked[r].frame] = p
    BY <1>3, <2>1 DEF QueueInv
  <2>3. f \in Frames /\ types \in Asked /\ n.asked[r] = [frame |-> f, types |-> types]
    BY <1>1, <2>2 DEF FrameTypes
  <2>4. Known(s, m)
    BY <2>1, <2>2, <2>3, <1>5 DEF Known, Message, SomeMessages
  <2>5. MediaOf(m, p)
    BY <1>1, <2>2 DEF MediaOf
  <2> HIDE DEF m
  <2>6. OnTheWay(s) = Elems(n.multi)
    BY <1>1, <1>5, AllOnTheWay DEF SomeMessages
  <2>7. Owed(s, OnTheWay(s) \union {m})
    BY <1>9, <2>5, <2>6
  <2>11. Fresh(s, m) /\ Awaits(s, OnTheWay(s) \union {m})
    BY <1>12, <2>4, <2>5, <2>6 DEF Fresh, Differ, Plain, MediaOf, Awaits
  <2> HIDE DEF f, types, r
  <2>8. Sound(Asking(s, f, types, r), A) /\ Stays(s, Asking(s, f, types, r))
    BY <1>8, <2>4, <2>7, <2>11, AskingKeeps DEF m
  <2> DEFINE u == Asking(s, f, types, r)
  <2>9. Becomes(u) /\ Sound(u, allowed') /\ Stays(s, u)
    BY <1>1, <1>2, <1>11, <2>8
  <2> HIDE DEF u
  <2>12. Stays(n, u)
    BY <1>12, <2>9, StaysOn
  <2>10. Sound(Now', allowed') /\ AnswersStay
    BY <2>9, <2>12, <1>n, Becoming
  <2> QED
    BY <1>1, <2>10 DEF MediaInv
<1> QED
  BY <1>10, <1>11

(* What a decision allows. *)
LEMMA Allowing ==
  ASSUME NEW o \in Origins, NEW types \in Seq(Types), NEW status, Allow(o, types, status),
         allowed \subseteq Origins \X Types
  PROVE  /\ allowed \subseteq allowed' /\ allowed' \subseteq Origins \X Types
         /\ \A t \in ToSet(types) : status = "granted" => <<o, t>> \in allowed'
         /\ FlagsAllowed(allowed', o, Flags(types, status))
<1>1. ToSet(types) \subseteq Types
  BY ElemsOf
<1>2. /\ allowed \subseteq allowed' /\ allowed' \subseteq Origins \X Types
      /\ \A t \in ToSet(types) : status = "granted" => <<o, t>> \in allowed'
  BY <1>1 DEF Allow
<1> QED
  BY <1>2 DEF FlagsAllowed, Flags

\* The application answers what it was asked.
LEMMA DecideMedia ==
  ASSUME MediaInv, NEW q \in prompts, NEW status \in Statuses, Decide(q, status)
  PROVE  MediaInv' /\ AnswersStay
<1> DEFINE n == Now
           A == allowed'
           o == OriginOf[q.frame]
           pr == n.prompts \ {q}
           s == [n EXCEPT !.prompts = pr]
           u == Delivered(setPermission(s, o, q.types, status, q.frame))
           w == HandleResponse(u, PageOf[q.frame], o, Flags(q.types, status))
<1>1. /\ Sound(n, allowed) /\ decisions \in 0 .. MaxDecisions /\ decisions' = decisions
      /\ n.prompts = prompts /\ n.answers = <<>> /\ Allow(o, q.types, status)
  BY NowFields DEF MediaInv, Decide
<1>2. Becomes(u) \/ Becomes(w)
  BY DEF Decide
<1>3. n \in State /\ allowed \subseteq Origins \X Types
  BY <1>1 DEF Sound, Base
<1>4. q.frame \in Frames /\ q.types \in Asked
  BY <1>1, <1>3 DEF State, FrameTypes
<1>5. /\ o \in Origins /\ PageOf[q.frame] \in ThePages
      /\ q.types \in Seq(Types) /\ ToSet(q.types) \subseteq Types
  BY <1>4, OfFrame, AskedTypes
<1>6. /\ allowed \subseteq A /\ A \subseteq Origins \X Types
      /\ \A t \in ToSet(q.types) : status = "granted" => <<o, t>> \in A
      /\ FlagsAllowed(A, o, Flags(q.types, status))
  BY <1>1, <1>3, <1>5, Allowing
<1>7. \A t \in ToSet(q.types) : Decision(A, o, t, status, q.frame)
  BY <1>4, <1>5, <1>6 DEF Decision, FrameFor
<1> DEFINE B == A
<1>n. n = Now
  OBVIOUS
<1> HIDE DEF n, B
<1>8. pr \in SUBSET FrameTypes
  BY <1>3 DEF State
<1> HIDE DEF pr
<1>9. /\ s \in State /\ SameRequests(n, s) /\ s.multi = n.multi /\ s.answers = n.answers
      /\ s.persistent = n.persistent /\ s.transient = n.transient
  BY <1>3, <1>8 DEF State, SameRequests
<1> HIDE DEF s
<1>10. Sound(s, B)
  <2>1. Base(n, B)
    BY <1>1, <1>6, BaseMore DEF Sound, B
  <2>2. MessagesInv(s, B)
    BY <1>9, <2>1, RequestsStay DEF Base, MessagesInv
  <2>3. StoresInv(s, B)
    BY <1>9, <2>1 DEF Base, StoresInv
  <2>4. QueueInv(s) /\ RequestsInv(s, B) /\ B \subseteq Origins \X Types
    BY <1>9, <2>1, RequestsStay DEF Base
  <2>5. Owed(s, Elems(s.multi)) /\ Awaits(s, Elems(s.multi))
    BY <1>1, <1>9, RequestsStay DEF Sound
  <2> QED
    BY <1>9, <2>2, <2>3, <2>4, <2>5 DEF Base, Sound
<1>15. u = Delivered(setPermission(s, o, q.types, status, q.frame))
  OBVIOUS
<1>16. w = HandleResponse(u, PageOf[q.frame], o, Flags(q.types, status))
  OBVIOUS
<1> HIDE DEF u, w
<1>17. Stays(n, s) /\ s.answers = <<>>
  BY <1>1, <1>9, RequestsStay
<1>11. Sound(u, B) /\ Stays(s, u)
  BY <1>5, <1>7, <1>10, <1>15, <1>17, DecisionKeeps DEF B
<1>12. Sound(w, B) /\ Stays(u, w)
  BY <1>5, <1>6, <1>11, <1>16, AnsweredAgain DEF B
<1>13. Sound(u, allowed') /\ Sound(w, allowed') /\ Stays(n, u) /\ Stays(n, w)
  BY <1>11, <1>12, <1>17, StaysOn DEF B
<1>14. Sound(Now', allowed') /\ AnswersStay
  BY <1>2, <1>13, <1>n, Becoming
<1> QED
  BY <1>1, <1>14 DEF MediaInv

\* The application decides without being asked.
LEMMA InAdvanceMedia ==
  ASSUME MediaInv, NEW o \in Origins, NEW types \in Decidable, NEW status \in Statuses,
         DecideInAdvance(o, types, status)
  PROVE  MediaInv' /\ AnswersStay
<1> DEFINE n == Now
           B == allowed'
           u == Delivered(setPermission(n, o, types, status, NoFrame))
           w(p) == HandleResponse(u, p, o, Flags(types, status))
<1>1. /\ Sound(n, allowed) /\ decisions \in 0 .. MaxDecisions /\ decisions < MaxDecisions
      /\ decisions' = decisions + 1 /\ n.alive = alive /\ n.answers = <<>>
      /\ Allow(o, types, status)
  BY NowFields DEF MediaInv, DecideInAdvance
<1>2. Becomes(u) \/ \E p \in alive : Becomes(w(p))
  BY DEF DecideInAdvance
<1>3. n \in State /\ allowed \subseteq Origins \X Types
  BY <1>1 DEF Sound, Base
<1>4. types \in Seq(Types) /\ ToSet(types) \subseteq Types /\ alive \subseteq ThePages
  BY <1>1, <1>3, TypesOf DEF State
<1>5. /\ allowed \subseteq B /\ B \subseteq Origins \X Types
      /\ \A t \in ToSet(types) : status = "granted" => <<o, t>> \in B
      /\ FlagsAllowed(B, o, Flags(types, status))
  BY <1>1, <1>3, <1>4, Allowing
<1>n. n = Now
  OBVIOUS
<1> HIDE DEF n, B
<1>6. \A t \in ToSet(types) : Decision(B, o, t, status, NoFrame)
  <2>1. FrameFor(o, NoFrame)
    BY DEF FrameFor
  <2>2. \A t \in ToSet(types) : t \in Types
    BY <1>4
  <2> QED
    BY <1>5, <2>1, <2>2 DEF Decision
<1>7. Sound(n, B)
  BY <1>1, <1>5, BaseMore DEF Sound
<1>13. u = Delivered(setPermission(n, o, types, status, NoFrame))
  OBVIOUS
<1> HIDE DEF u
<1>8. Sound(u, B) /\ Stays(n, u)
  BY <1>1, <1>4, <1>6, <1>7, <1>13, DecisionKeeps
<1>9. ASSUME NEW p \in ThePages PROVE Sound(w(p), B) /\ Stays(n, w(p))
  <2> DEFINE z == w(p)
  <2>1. z = HandleResponse(u, p, o, Flags(types, status))
    OBVIOUS
  <2> HIDE DEF z
  <2>2. Sound(z, B) /\ Stays(u, z)
    BY <1>5, <1>8, <2>1, AnsweredAgain
  <2> QED
    BY <1>8, <2>2, StaysOn DEF z
<1> HIDE DEF w
<1>10. Sound(u, allowed') /\ \A p \in ThePages : Sound(w(p), allowed') /\ Stays(n, w(p))
  BY <1>8, <1>9 DEF B
<1>11. Sound(Now', allowed') /\ AnswersStay
  <2>1. CASE Becomes(u)
    BY <2>1, <1>8, <1>10, <1>n, Becoming
  <2>2. CASE \E p \in alive : Becomes(w(p))
    <3>1. PICK p \in ThePages : Becomes(w(p))
      BY <2>2, <1>4
    <3> DEFINE z == w(p)
    <3>2. Becomes(z) /\ Sound(z, allowed') /\ Stays(n, z)
      BY <3>1, <1>10
    <3> HIDE DEF z
    <3> QED
      BY <3>2, <1>n, Becoming
  <2> QED
    BY <1>2, <2>1, <2>2
<1>12. decisions' \in 0 .. MaxDecisions
  BY <1>1, MediaConstants
<1> QED
  BY <1>11, <1>12 DEF MediaInv

\* Every step keeps the invariant.
LEMMA StepKeepsMedia == ASSUME MediaInv, [Next]_vars PROVE MediaInv' /\ AnswersStay
<1>1. CASE UNCHANGED vars
  <2>1. /\ Now' = Now /\ allowed' = allowed /\ decisions' = decisions
        /\ state' = state /\ given' = given
    BY <1>1 DEF vars, Now
  <2> QED
    BY <2>1 DEF MediaInv, AnswersStay
<1>2. ASSUME NEW r \in Requests, NEW f \in Frames, NEW types \in Asked, Request(r, f, types)
      PROVE  MediaInv' /\ AnswersStay
  BY <1>2, RequestMedia
<1>3. ASSUME NEW r \in Requests, Cancel(r) PROVE MediaInv' /\ AnswersStay
  BY <1>3, CancelMedia
<1>4. ASSUME NEW p \in ThePages, ProcessQueued(p) PROVE MediaInv' /\ AnswersStay
  BY <1>4, ProcessMedia
<1>5. ASSUME NEW p \in ThePages, DestroyPage(p) PROVE MediaInv' /\ AnswersStay
  BY <1>5, DestroyMedia
<1>6. ASSUME NEW q \in prompts, NEW status \in Statuses, Decide(q, status) PROVE MediaInv' /\ AnswersStay
  BY <1>6, DecideMedia
<1>7. ASSUME NEW o \in Origins, NEW types \in Decidable, NEW status \in Statuses,
             DecideInAdvance(o, types, status)
      PROVE  MediaInv' /\ AnswersStay
  BY <1>7, InAdvanceMedia
<1> QED
  BY <1>1, <1>2, <1>3, <1>4, <1>5, <1>6, <1>7 DEF Next

(* The stores hold only what is allowed, messages are the requests they    *)
(* stand for, and whoever waits is owed an answer; it is inductive.        *)
THEOREM MediaInvariant == Spec => []MediaInv
<1>1. Init => MediaInv
  BY InitMedia
<1>2. MediaInv /\ [Next]_vars => MediaInv'
  BY StepKeepsMedia
<1> QED
  BY <1>1, <1>2, PTL DEF Spec

(* A request is answered once: what became of one that was answered,       *)
(* refused or closed stays, whichever answers still come.                  *)
THEOREM AnsweredOnlyOnce == Spec => AnsweredOnce
<1>1. MediaInv /\ [Next]_vars => AnswersStay
  BY StepKeepsMedia
<1> QED
  BY <1>1, MediaInvariant, PTL DEF Spec, AnsweredOnce

(* The types of the state, and that a request is answered with something.  *)
THEOREM MediaTypes == Spec => []TypeOK
<1>1. MediaInv => TypeOK
  <2> SUFFICES ASSUME MediaInv PROVE TypeOK
    OBVIOUS
  <2>1. /\ Now \in State /\ RequestsInv(Now, allowed) /\ allowed \subseteq Origins \X Types
        /\ decisions \in 0 .. MaxDecisions
    BY DEF MediaInv, Sound, Base
  <2>2. \A r \in Requests : given[r] # {} <=> state[r] = "answered"
    BY <2>1, NowFields DEF RequestsInv
  <2>3. /\ persistent \in [Origins -> [Types -> Statuses]]
        /\ transient \in [Frames -> [Types -> Statuses]]
        /\ multi \in Seq(Message)
        /\ prompts \in SUBSET FrameTypes /\ alive \in SUBSET ThePages
        /\ queue \in [ThePages -> Seq(Requests)] /\ tasks \in [ThePages -> Nat]
        /\ asked \in [Requests -> FrameTypes \union {NotAsked}]
        /\ state \in [Requests -> {"new", "waiting", "answered", "refused", "closed"}]
        /\ given \in [Requests -> SUBSET Types]
    BY <2>1, NowFields DEF State
  <2> QED
    BY <2>1, <2>2, <2>3 DEF TypeOK, Message
<1> QED
  BY <1>1, MediaInvariant, PTL

(* Whichever request an answer reaches, a request is given only what it    *)
(* asked for and what the application has granted to its origin.           *)
THEOREM OnlyAllowedIsGiven == Spec => []GivenWasAllowed
<1>1. MediaInv => GivenWasAllowed
  BY NowFields DEF MediaInv, Sound, Base, RequestsInv, AllowedTo, GivenWasAllowed
<1> QED
  BY <1>1, MediaInvariant, PTL

(* A request that waits is in the queue of its page, which is asked for    *)
(* again or has a request before the permission manager, or is itself      *)
(* before it.                                                              *)
THEOREM NoRequestIsStranded == Spec => []NobodyStranded
<1>1. MediaInv => NobodyStranded
  <2> SUFFICES ASSUME MediaInv PROVE NobodyStranded
    OBVIOUS
  <2>1. /\ Now \in State /\ Owed(Now, Elems(multi)) /\ RequestsInv(Now, allowed)
        /\ Now.multi = multi /\ Now.queue = queue /\ Now.state = state /\ Now.asked = asked
        /\ Now.tasks = tasks
    BY NowFields DEF MediaInv, Sound, Base
  <2>2. multi \in Seq(Message) /\ queue \in [ThePages -> Seq(Requests)]
    BY <2>1 DEF State
  <2>3. /\ \A p \in ThePages : ToSet(queue[p]) = Elems(queue[p])
        /\ DOMAIN multi = 1 .. Len(multi)
    BY <2>2, ElemsOf, LenProperties
  <2>4. \A m \in Elems(multi) : \E i \in DOMAIN multi : multi[i] = m
    BY <2>3 DEF Elems
  <2>5. \A r \in Requests : state[r] = "waiting" =>
          IF IsMedia(asked[r].types) THEN r \in ToSet(queue[PageOf[asked[r].frame]])
          ELSE \E i \in DOMAIN multi : multi[i].req = r
    <3> SUFFICES ASSUME NEW r \in Requests, state[r] = "waiting"
                 PROVE  IF IsMedia(asked[r].types) THEN r \in ToSet(queue[PageOf[asked[r].frame]])
                        ELSE \E i \in DOMAIN multi : multi[i].req = r
      OBVIOUS
    <3>1. PageOf[asked[r].frame] \in ThePages
      <4>1. asked[r] \in FrameTypes
        BY <2>1 DEF RequestsInv
      <4> QED
        BY <4>1, OfFrame DEF FrameTypes
    <3> QED
      BY <2>1, <2>3, <2>4, <3>1 DEF Owed
  <2>6. \A p \in ThePages : queue[p] # <<>> =>
          \/ tasks[p] > 0
          \/ \E i \in DOMAIN multi : IsMedia(multi[i].types) /\ PageOf[multi[i].frame] = p
    BY <2>1, <2>4 DEF Owed, MediaOf
  <2> QED
    BY <2>5, <2>6 DEF NobodyStranded
<1> QED
  BY <1>1, MediaInvariant, PTL
=============================================================================

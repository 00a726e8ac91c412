------------------------------- MODULE PdfProofs -------------------------------
(***************************************************************************)
(* Proofs about the view: every pending request is in one place, and what  *)
(* the cache holds is current or was overtaken and never more than its     *)
(* limit and one; for any documents, pages, sizes, viewport and limit.     *)
(* And about the document: "Ready" shows the one that was loaded last, and *)
(* PDFium reads its own data; for any replies and sizes.                   *)
(***************************************************************************)
EXTENDS PdfDocument, PdfView, FiniteSetTheorems, SequenceTheorems, TLAPS

(* Sequences as sets. *)
LEMMA Elements ==
  ASSUME NEW S, NEW s \in Seq(S)
  PROVE  /\ \A i \in 1 .. Len(s) : s[i] \in ToSet(s) /\ s[i] \in S
         /\ \A x \in ToSet(s) : \E i \in 1 .. Len(s) : s[i] = x
         /\ IsInjective(s) <=> \A i, j \in 1 .. Len(s) : s[i] = s[j] => i = j
<1>1. DOMAIN s = 1 .. Len(s) /\ \A i \in 1 .. Len(s) : s[i] \in S
  BY LenProperties
<1>2. ToSet(s) = {s[i] : i \in 1 .. Len(s)}
  BY <1>1 DEF ToSet
<1>3. IsInjective(s) <=> \A i, j \in 1 .. Len(s) : s[i] = s[j] => i = j
  BY <1>1 DEF IsInjective
<1> QED
  BY <1>1, <1>2, <1>3

\* The empty sequence.
LEMMA Empty == ToSet(<<>>) = {} /\ IsInjective(<<>>)
BY DEF ToSet, IsInjective

\* Two sequences without a common element, one behind the other.
LEMMA Joined ==
  ASSUME NEW S, NEW s \in Seq(S), NEW t \in Seq(S)
  PROVE  /\ s \o t \in Seq(S) /\ ToSet(s \o t) = ToSet(s) \union ToSet(t)
         /\ IsInjective(s \o t) <=>
              IsInjective(s) /\ IsInjective(t) /\ ToSet(s) \intersect ToSet(t) = {}
<1> DEFINE u == s \o t
<1>1. /\ u \in Seq(S) /\ Len(u) = Len(s) + Len(t)
      /\ \A i \in 1 .. Len(s) + Len(t) : u[i] = IF i <= Len(s) THEN s[i] ELSE t[i - Len(s)]
  BY ConcatProperties
<1> HIDE DEF u
<1>2. Len(s) \in Nat /\ Len(t) \in Nat
  BY LenProperties
<1>3. \A i \in 1 .. Len(s) : i \in 1 .. Len(u) /\ u[i] = s[i]
  BY <1>1, <1>2
<1>4. \A i \in 1 .. Len(t) : i + Len(s) \in 1 .. Len(u) /\ u[i + Len(s)] = t[i]
  <2> SUFFICES ASSUME NEW i \in 1 .. Len(t)
               PROVE  i + Len(s) \in 1 .. Len(u) /\ u[i + Len(s)] = t[i]
    OBVIOUS
  <2>1. i + Len(s) \in 1 .. Len(s) + Len(t) /\ ~(i + Len(s) <= Len(s)) /\ i + Len(s) - Len(s) = i
    BY <1>2
  <2> QED
    BY <1>1, <2>1
<1>5. \A i \in 1 .. Len(u) :
        \/ i \in 1 .. Len(s) /\ u[i] = s[i]
        \/ i - Len(s) \in 1 .. Len(t) /\ u[i] = t[i - Len(s)]
  BY <1>1, <1>2
<1>6. ToSet(u) = ToSet(s) \union ToSet(t)
  <2>1. ASSUME NEW x \in ToSet(u) PROVE x \in ToSet(s) \union ToSet(t)
    <3>1. PICK i \in 1 .. Len(u) : u[i] = x
      BY <1>1, Elements
    <3>2. CASE i \in 1 .. Len(s) /\ u[i] = s[i]
      BY <3>1, <3>2, Elements
    <3>3. CASE i - Len(s) \in 1 .. Len(t) /\ u[i] = t[i - Len(s)]
      BY <3>1, <3>3, Elements
    <3> QED
      BY <1>5, <3>2, <3>3
  <2>2. ASSUME NEW x \in ToSet(s) PROVE x \in ToSet(u)
    <3>1. PICK i \in 1 .. Len(s) : s[i] = x
      BY Elements
    <3> QED
      BY <1>1, <1>3, <3>1, Elements
  <2>3. ASSUME NEW x \in ToSet(t) PROVE x \in ToSet(u)
    <3>1. PICK i \in 1 .. Len(t) : t[i] = x
      BY Elements
    <3>2. i + Len(s) \in 1 .. Len(u) /\ u[i + Len(s)] = x
      BY <1>4, <3>1
    <3> QED
      BY <1>1, <3>2, Elements
  <2> QED
    BY <2>1, <2>2, <2>3
<1>7. ASSUME IsInjective(u) PROVE IsInjective(s) /\ IsInjective(t) /\ ToSet(s) \intersect ToSet(t) = {}
  <2>1. \A i, j \in 1 .. Len(u) : u[i] = u[j] => i = j
    BY <1>1, <1>7, Elements
  <2>2. \A i, j \in 1 .. Len(s) : s[i] = s[j] => i = j
    BY <1>3, <2>1
  <2>3. ASSUME NEW i \in 1 .. Len(t), NEW j \in 1 .. Len(t), t[i] = t[j] PROVE i = j
    <3>1. i + Len(s) = j + Len(s)
      BY <1>4, <2>1, <2>3
    <3> QED
      BY <1>2, <3>1
  <2>4. ASSUME NEW x \in ToSet(s), x \in ToSet(t) PROVE FALSE
    <3>1. PICK i \in 1 .. Len(s) : s[i] = x
      BY Elements
    <3>2. PICK j \in 1 .. Len(t) : t[j] = x
      BY <2>4, Elements
    <3>3. i = j + Len(s)
      BY <1>3, <1>4, <2>1, <3>1, <3>2
    <3> QED
      BY <1>2, <3>3
  <2>5. IsInjective(s) /\ IsInjective(t)
    BY <2>2, <2>3, Elements
  <2> QED
    BY <2>4, <2>5
<1>8. ASSUME IsInjective(s), IsInjective(t), ToSet(s) \intersect ToSet(t) = {} PROVE IsInjective(u)
  <2>1. /\ \A i, j \in 1 .. Len(s) : s[i] = s[j] => i = j
        /\ \A i, j \in 1 .. Len(t) : t[i] = t[j] => i = j
        /\ \A i \in 1 .. Len(s), j \in 1 .. Len(t) : s[i] # t[j]
    BY <1>8, Elements
  <2>2. ASSUME NEW i \in 1 .. Len(u), NEW j \in 1 .. Len(u), u[i] = u[j] PROVE i = j
    <3>1. CASE i \in 1 .. Len(s) /\ u[i] = s[i]
      BY <1>5, <2>1, <2>2, <3>1
    <3>2. CASE i - Len(s) \in 1 .. Len(t) /\ u[i] = t[i - Len(s)]
      <4>1. j - Len(s) \in 1 .. Len(t) /\ u[j] = t[j - Len(s)]
        BY <1>5, <2>1, <2>2, <3>2
      <4>2. i - Len(s) = j - Len(s)
        BY <2>1, <2>2, <3>2, <4>1
      <4>3. i \in Int /\ j \in Int
        OBVIOUS
      <4> QED
        BY <1>2, <4>2, <4>3
    <3> QED
      BY <1>5, <3>1, <3>2
  <2> QED
    BY <1>1, <2>2, Elements
<1> QED
  BY <1>1, <1>6, <1>7, <1>8 DEF u

\* A sequence of one element.
LEMMA One ==
  ASSUME NEW S, NEW e \in S
  PROVE  <<e>> \in Seq(S) /\ ToSet(<<e>>) = {e} /\ IsInjective(<<e>>)
<1> DEFINE s == <<e>>
<1>1. s \in Seq(S) /\ Len(s) = 1 /\ s[1] = e
  OBVIOUS
<1> HIDE DEF s
<1>2. \A i \in 1 .. Len(s) : i = 1
  BY <1>1
<1>3. 1 \in 1 .. Len(s)
  BY <1>1
<1>4. ToSet(s) = {e}
  <2>1. s[1] \in ToSet(s)
    BY <1>1, <1>3, Elements
  <2>2. \A x \in ToSet(s) : x = e
    BY <1>1, <1>2, Elements
  <2> QED
    BY <1>1, <2>1, <2>2
<1>5. IsInjective(s)
  BY <1>1, <1>2, Elements
<1> QED
  BY <1>1, <1>4, <1>5 DEF s

\* A sequence with a new element at its end.
LEMMA Appended ==
  ASSUME NEW S, NEW s \in Seq(S), NEW e \in S
  PROVE  /\ Append(s, e) \in Seq(S) /\ ToSet(Append(s, e)) = ToSet(s) \union {e}
         /\ IsInjective(Append(s, e)) <=> IsInjective(s) /\ e \notin ToSet(s)
<1> DEFINE o == <<e>>
<1>1. Append(s, e) = s \o o
  BY AppendIsConcat
<1>2. o \in Seq(S) /\ ToSet(o) = {e} /\ IsInjective(o)
  BY One
<1> HIDE DEF o
<1>3. /\ s \o o \in Seq(S) /\ ToSet(s \o o) = ToSet(s) \union ToSet(o)
      /\ IsInjective(s \o o) <=>
           IsInjective(s) /\ IsInjective(o) /\ ToSet(s) \intersect ToSet(o) = {}
  BY <1>2, Joined
<1> QED
  BY <1>1, <1>2, <1>3

\* A sequence without its head.
LEMMA Rest ==
  ASSUME NEW S, NEW s \in Seq(S), s # <<>>
  PROVE  /\ Head(s) \in S /\ Tail(s) \in Seq(S) /\ Len(Tail(s)) = Len(s) - 1
         /\ ToSet(s) = {Head(s)} \union ToSet(Tail(s))
         /\ IsInjective(s) <=> IsInjective(Tail(s)) /\ Head(s) \notin ToSet(Tail(s))
<1>1. Head(s) \in S /\ Tail(s) \in Seq(S) /\ Len(Tail(s)) = Len(s) - 1
  OBVIOUS
<1>2. s = <<Head(s)>> \o Tail(s)
  OBVIOUS
<1> DEFINE h == Head(s)
           t == Tail(s)
<1> DEFINE o == <<h>>
<1>3. h \in S /\ t \in Seq(S) /\ s = o \o t
  BY <1>1, <1>2
<1> HIDE DEF h, t
<1>4. o \in Seq(S) /\ ToSet(o) = {h} /\ IsInjective(o)
  BY <1>3, One
<1>5. s = o \o t
  BY <1>3
<1> HIDE DEF o
<1>6. /\ ToSet(o \o t) = ToSet(o) \union ToSet(t)
      /\ IsInjective(o \o t) <=>
           IsInjective(o) /\ IsInjective(t) /\ ToSet(o) \intersect ToSet(t) = {}
  BY <1>3, <1>4, Joined
<1> QED
  BY <1>1, <1>4, <1>5, <1>6 DEF h, t

(* The elements of a finite set in any order. *)
LEMMA Ordered ==
  ASSUME NEW S, IsFiniteSet(S), NEW s \in SetToSeqs(S)
  PROVE  s \in Seq(S) /\ ToSet(s) = S /\ IsInjective(s)
<1> DEFINE n == Cardinality(S)
<1>1. n \in Nat
  BY FS_CardinalityType
<1>2. s \in [1 .. n -> S] /\ \A i, j \in 1 .. n : i # j => s[i] # s[j]
  BY DEF SetToSeqs
<1>3. IsFiniteSet(1 .. n) /\ Cardinality(1 .. n) = n
  BY <1>1, FS_Interval
<1>4. s \in Injection(1 .. n, S)
  BY <1>2 DEF Injection, IsInjective
<1>5. s \in Surjection(1 .. n, S)
  BY <1>3, <1>4, FS_Injection
<1>6. ToSet(s) = S
  BY <1>2, <1>5 DEF ToSet, Surjection
<1>7. s \in Seq(S)
  BY <1>1, <1>2
<1>8. IsInjective(s)
  BY <1>2 DEF IsInjective
<1> QED
  BY <1>6, <1>7, <1>8

-----------------------------------------------------------------------------
(* The invariant. *)

(* RequestsAccounted, place by place.                                      *)
Result == [request : Request, image : 0 .. MaxLoads]
RequestsOf(rs) == [i \in DOMAIN rs |-> rs[i].request]
Back   == RequestsOf(results)
InHand == {current} \ {NoRequest}
Account ==
  /\ IsInjective(queue) /\ IsInjective(Back)
  /\ ToSet(queue) \intersect ToSet(Back) = {}
  /\ InHand \intersect (ToSet(queue) \union ToSet(Back)) = {}
  /\ lost \intersect (ToSet(queue) \union ToSet(Back) \union InHand) = {}
  /\ pending = ToSet(queue) \union ToSet(Back) \union InHand \union lost

(* What is under way was pending when the cache was last cleared; or it was*)
(* asked for since, and is of the size and of the document there are.      *)
UnderWayCurrent ==
  /\ \A r \in pending : r.size = layout \/ r \in overtaken
  /\ \A i \in 1 .. Len(results) : results[i].image = Holds \/ results[i].request \in overtaken

ViewInv == TypeOK /\ Account /\ UnderWayCurrent /\ CacheCurrentOrOvertaken

\* The requests that results answer.
LEMMA BackOf ==
  ASSUME NEW rs \in Seq(Result)
  PROVE  /\ RequestsOf(rs) \in Seq(Request) /\ Len(RequestsOf(rs)) = Len(rs)
         /\ \A i \in 1 .. Len(rs) : /\ RequestsOf(rs)[i] = rs[i].request /\ rs[i].request \in Request
                                   /\ rs[i].image \in 0 .. MaxLoads
<1>1. /\ DOMAIN rs = 1 .. Len(rs) /\ Len(rs) \in Nat
      /\ \A i \in 1 .. Len(rs) : rs[i] \in Result
  BY LenProperties
<1>2. \A i \in 1 .. Len(rs) : rs[i].request \in Request /\ rs[i].image \in 0 .. MaxLoads
  BY <1>1 DEF Result
<1>3. RequestsOf(rs) \in [1 .. Len(rs) -> Request]
  BY <1>1, <1>2 DEF RequestsOf
<1>4. RequestsOf(rs) \in Seq(Request) /\ Len(RequestsOf(rs)) = Len(rs)
  BY <1>1, <1>3
<1> QED
  BY <1>1, <1>2, <1>4 DEF RequestsOf

\* A result more answers one request more.
LEMMA BackAppended ==
  ASSUME NEW rs \in Seq(Result), NEW e \in Result
  PROVE  RequestsOf(Append(rs, e)) = Append(RequestsOf(rs), e.request)
<1> DEFINE u == Append(rs, e)
           f == RequestsOf(rs)
           g == Append(f, e.request)
<1>1. u \in Seq(Result) /\ e.request \in Request /\ Len(rs) \in Nat /\ Len(u) = Len(rs) + 1
      /\ u[Len(rs) + 1] = e /\ \A i \in 1 .. Len(rs) : u[i] = rs[i]
  BY DEF Result
<1>2. f \in Seq(Request) /\ Len(f) = Len(rs) /\ \A i \in 1 .. Len(rs) : f[i] = rs[i].request
  BY BackOf
<1> HIDE DEF f
<1>3. g \in Seq(Request) /\ Len(g) = Len(rs) + 1 /\ g[Len(rs) + 1] = e.request
      /\ \A i \in 1 .. Len(rs) : g[i] = f[i]
  BY <1>1, <1>2
<1> HIDE DEF u, g
<1>4. /\ RequestsOf(u) \in Seq(Request) /\ Len(RequestsOf(u)) = Len(u)
      /\ \A i \in 1 .. Len(u) : RequestsOf(u)[i] = u[i].request
  BY <1>1, BackOf
<1>5. \A i \in 1 .. Len(u) : i \in 1 .. Len(rs) \/ i = Len(rs) + 1
  BY <1>1
<1>6. \A i \in 1 .. Len(u) : RequestsOf(u)[i] = g[i]
  BY <1>1, <1>2, <1>3, <1>4, <1>5
<1>7. RequestsOf(u) = g
  BY <1>1, <1>3, <1>4, <1>6, SeqEqual
<1> QED
  BY <1>7 DEF u, g, f

\* The first result answers the first request.
LEMMA BackRest ==
  ASSUME NEW rs \in Seq(Result), rs # <<>>
  PROVE  /\ RequestsOf(rs) # <<>> /\ RequestsOf(Tail(rs)) = Tail(RequestsOf(rs))
         /\ Head(rs) = rs[1] /\ 1 \in 1 .. Len(rs) /\ Head(RequestsOf(rs)) = Head(rs).request
         /\ Tail(rs) \in Seq(Result)
         /\ \A i \in 1 .. Len(Tail(rs)) : i + 1 \in 1 .. Len(rs) /\ Tail(rs)[i] = rs[i + 1]
<1> DEFINE f == RequestsOf(rs)
           t == Tail(rs)
           g == Tail(f)
<1>1. /\ t \in Seq(Result) /\ Len(rs) \in Nat /\ Len(t) = Len(rs) - 1 /\ 1 \in 1 .. Len(rs)
      /\ Head(rs) = rs[1]
      /\ \A i \in 1 .. Len(t) : i + 1 \in 1 .. Len(rs) /\ t[i] = rs[i + 1]
  OBVIOUS
<1>2. f \in Seq(Request) /\ Len(f) = Len(rs) /\ \A i \in 1 .. Len(rs) : f[i] = rs[i].request
  BY BackOf
<1> HIDE DEF f
<1>3. f # <<>> /\ Head(f) = f[1]
  BY <1>1, <1>2
<1>4. g \in Seq(Request) /\ Len(g) = Len(f) - 1 /\ \A i \in 1 .. Len(g) : g[i] = f[i + 1]
  BY <1>2, <1>3
<1> HIDE DEF t, g
<1>5. /\ RequestsOf(t) \in Seq(Request) /\ Len(RequestsOf(t)) = Len(t)
      /\ \A i \in 1 .. Len(t) : RequestsOf(t)[i] = t[i].request
  BY <1>1, BackOf
<1>6. \A i \in 1 .. Len(t) : RequestsOf(t)[i] = g[i]
  <2> SUFFICES ASSUME NEW i \in 1 .. Len(t) PROVE RequestsOf(t)[i] = g[i]
    OBVIOUS
  <2>1. RequestsOf(t)[i] = rs[i + 1].request /\ i + 1 \in 1 .. Len(rs)
    BY <1>1, <1>5
  <2>2. f[i + 1] = rs[i + 1].request
    BY <1>2, <2>1
  <2>3. g[i] = f[i + 1]
    BY <1>1, <1>2, <1>4
  <2> QED
    BY <2>1, <2>2, <2>3
<1>7. RequestsOf(t) = g
  BY <1>1, <1>2, <1>4, <1>5, <1>6, SeqEqual
<1> QED
  BY <1>1, <1>2, <1>3, <1>7 DEF f, t, g

\* What the worker has in hand is a request or nothing.
LEMMA HandIsRequest == ASSUME TypeOK PROVE InHand \subseteq Request /\ NoRequest \notin Request
<1>1. NoRequest \notin Request
  <2> SUFFICES ASSUME NoRequest \in Request PROVE FALSE
    OBVIOUS
  <2>1. NoRequest.page \in Pages /\ NoRequest.page = -1 /\ NPages \in Nat
    BY RendererConstants DEF Request, NoRequest
  <2> QED
    BY <2>1 DEF Pages
<1> QED
  BY <1>1 DEF InHand, TypeOK

\* The account by places gives what the run checks.
LEMMA AccountIsAccounted == ASSUME TypeOK, Account PROVE RequestsAccounted
<1> DEFINE c == IF current = NoRequest THEN <<>> ELSE <<current>>
<1>1. queue \in Seq(Request) /\ Back \in Seq(Request)
  BY BackOf DEF TypeOK, Back, Result
<1>2. c \in Seq(Request) /\ ToSet(c) = InHand /\ IsInjective(c)
  <2>1. CASE current = NoRequest
    BY <2>1, Empty DEF InHand
  <2>2. CASE current # NoRequest
    <3>1. current \in Request /\ InHand = {current}
      BY <2>2 DEF TypeOK, InHand
    <3> QED
      BY <2>2, <3>1, One
  <2> QED
    BY <2>1, <2>2
<1>3. UnderWay = queue \o c \o Back
  BY DEF UnderWay, Back, RequestsOf
<1> HIDE DEF c
<1>4. /\ queue \o c \in Seq(Request) /\ ToSet(queue \o c) = ToSet(queue) \union InHand
      /\ IsInjective(queue \o c)
  BY <1>1, <1>2, Joined DEF Account
<1>5. /\ ToSet(UnderWay) = ToSet(queue) \union InHand \union ToSet(Back) /\ IsInjective(UnderWay)
  <2> DEFINE u == queue \o c
  <2>1. u \in Seq(Request) /\ ToSet(u) = ToSet(queue) \union InHand /\ IsInjective(u)
    BY <1>4
  <2>2. UnderWay = u \o Back
    BY <1>3
  <2> HIDE DEF u
  <2>3. ToSet(u) \intersect ToSet(Back) = {} /\ IsInjective(Back)
    BY <2>1 DEF Account
  <2> QED
    BY <1>1, <2>1, <2>2, <2>3, Joined
<1> QED
  BY <1>5 DEF RequestsAccounted, Account

-----------------------------------------------------------------------------
(* Whatever changes the document, its state or the layout clears the cache.*)
LEMMA ClearingKeeps ==
  ASSUME ViewInv, TypeOK', UNCHANGED <<pending, queue, current, results, lost, lru>>,
         pageCache' = NoImages, overtaken' = pending
  PROVE  ViewInv'
<1>1. Account'
  BY DEF ViewInv, Account, Back, InHand
<1>2. UnderWayCurrent'
  <2>1. \A i \in 1 .. Len(results) : results[i].request \in pending
    <3>1. /\ Back \in Seq(Request) /\ Len(Back) = Len(results)
          /\ \A i \in 1 .. Len(results) : Back[i] = results[i].request
      BY BackOf DEF ViewInv, TypeOK, Back, Result
    <3>2. \A i \in 1 .. Len(results) : Back[i] \in ToSet(Back)
      BY <3>1, Elements
    <3> QED
      BY <3>1, <3>2 DEF ViewInv, Account
  <2> QED
    BY <2>1 DEF UnderWayCurrent
<1>3. CacheCurrentOrOvertaken'
  <2>1. DOMAIN pageCache' = {}
    BY DEF NoImages
  <2>2. CacheBounded'
    BY <2>1 DEF ViewInv, CacheCurrentOrOvertaken, CacheBounded
  <2> QED
    BY <2>1, <2>2 DEF CacheCurrentOrOvertaken
<1> QED
  BY <1>1, <1>2, <1>3 DEF ViewInv

\* Steps that touch neither cache nor requests.
LEMMA RestKeeps ==
  ASSUME ViewInv, TypeOK', Holds' = Holds,
         UNCHANGED <<pending, queue, current, results, lost, lru, pageCache, overtaken, layout>>
  PROVE  ViewInv'
<1>1. Account'
  BY DEF ViewInv, Account, Back, InHand
<1>2. UnderWayCurrent'
  BY DEF ViewInv, UnderWayCurrent
<1>3. CacheCurrentOrOvertaken'
  BY DEF ViewInv, CacheCurrentOrOvertaken, CacheBounded
<1> QED
  BY <1>1, <1>2, <1>3 DEF ViewInv

\* The document is closed or loaded.
LEMMA StatusChangesKeeps == ASSUME ViewInv, StatusChanges PROVE ViewInv'
<1>1. /\ UNCHANGED <<document, pending, queue, current, results, lost, pageMode, page, size, lru, changes>>
      /\ \E d \in Docs : /\ Loaded(d) \/ Closed(d)
                         /\ IF d = document THEN documentStatusChanged
                            ELSE UNCHANGED <<layout, pageCache, dirty, overtaken>>
  BY DEF StatusChanges, renderer
<1>2. PICK d \in Docs : /\ Loaded(d) \/ Closed(d)
                        /\ IF d = document THEN documentStatusChanged
                           ELSE UNCHANGED <<layout, pageCache, dirty, overtaken>>
  BY <1>1
<1>3. content \in [Docs -> 0 .. MaxLoads] /\ loads \in 0 .. MaxLoads /\ MaxLoads \in Nat
  BY RendererConstants DEF ViewInv, TypeOK
<1>4. /\ content' \in [Docs -> 0 .. MaxLoads] /\ loads' \in 0 .. MaxLoads
      /\ \A e \in Docs : e # d => content'[e] = content[e]
  <2>1. CASE Loaded(d)
    BY <1>3, <2>1 DEF Loaded
  <2>2. CASE Closed(d)
    BY <1>3, <2>2 DEF Closed
  <2> QED
    BY <1>2, <2>1, <2>2
<1>5. CASE d = document
  <2>1. /\ pageCache' = NoImages /\ dirty' = TRUE /\ overtaken' = pending
        /\ layout' \in {0, size, layout}
    BY <1>2, <1>5 DEF documentStatusChanged, invalidatePageCache, updateDocumentLayout
  <2>2. TypeOK'
    <3>1. DOMAIN pageCache' = {}
      BY <2>1 DEF NoImages
    <3>2. layout' \in Sizes \union {0}
      BY <2>1 DEF ViewInv, TypeOK
    <3> QED
      BY <1>1, <1>4, <2>1, <3>1, <3>2 DEF ViewInv, TypeOK
  <2> QED
    BY <1>1, <2>1, <2>2, ClearingKeeps
<1>6. CASE d # document
  <2>1. UNCHANGED <<layout, pageCache, dirty, overtaken>>
    BY <1>2, <1>6
  <2>2. TypeOK'
    BY <1>1, <1>4, <2>1 DEF ViewInv, TypeOK
  <2>3. Holds' = Holds
    BY <1>1, <1>4, <1>6 DEF Holds, ViewInv, TypeOK
  <2> QED
    BY <1>1, <2>1, <2>2, <2>3, RestKeeps
<1> QED
  BY <1>5, <1>6

\* The user changes a property of the view.
LEMMA UserKeeps ==
  ASSUME ViewInv, SetDocument \/ SetSize \/ SetPageMode \/ GoTo
  PROVE  ViewInv'
<1>0. /\ UNCHANGED <<content, loads, pending, queue, current, results, lost, lru>>
      /\ changes' \in 0 .. MaxChanges
  BY ViewConstants DEF SetDocument, SetSize, SetPageMode, GoTo, UserActs, documents, renderer, ViewInv, TypeOK
<1>1. document' \in Docs \union {"none"} /\ page' \in Pages /\ size' \in Sizes /\ pageMode' \in {"single", "multi"}
  BY DEF SetDocument, SetSize, SetPageMode, GoTo, setDocument, renderer, ViewInv, TypeOK
<1>2. \/ /\ pageCache' = NoImages /\ dirty' = TRUE /\ overtaken' = pending
         /\ layout' \in Sizes \union {0}
      \/ GoTo /\ dirty' = TRUE /\ UNCHANGED <<layout, pageCache, overtaken, document>>
  <2>1. CASE SetDocument
    BY <2>1 DEF SetDocument, documentStatusChanged, invalidatePageCache, updateDocumentLayout, ViewInv, TypeOK
  <2>2. CASE SetSize
    BY <2>2, <1>1 DEF SetSize, invalidateDocumentLayout, invalidatePageCache, updateDocumentLayout
  <2>3. CASE SetPageMode
    BY <2>3 DEF SetPageMode, invalidateDocumentLayout, invalidatePageCache, updateDocumentLayout, ViewInv, TypeOK
  <2>4. CASE GoTo
    BY <2>4 DEF GoTo, invalidateDocumentLayout, invalidatePageCache, updateDocumentLayout, renderer, ViewInv, TypeOK
  <2> QED
    BY <2>1, <2>2, <2>3, <2>4
<1>3. CASE /\ pageCache' = NoImages /\ dirty' = TRUE /\ overtaken' = pending
           /\ layout' \in Sizes \union {0}
  <2>1. TypeOK'
    <3>1. DOMAIN pageCache' = {}
      BY <1>3 DEF NoImages
    <3> QED
      BY <1>0, <1>1, <1>3, <3>1 DEF ViewInv, TypeOK
  <2> QED
    BY <1>0, <1>3, <2>1, ClearingKeeps
<1>4. CASE dirty' = TRUE /\ UNCHANGED <<layout, pageCache, overtaken, document>>
  <2>1. TypeOK'
    BY <1>0, <1>1, <1>4 DEF ViewInv, TypeOK
  <2>2. Holds' = Holds
    BY <1>0, <1>4 DEF Holds
  <2> QED
    BY <1>0, <1>4, <2>1, <2>2, RestKeeps
<1> QED
  BY <1>2, <1>3, <1>4

-----------------------------------------------------------------------------
(* Painting asks for what the cache lacks. *)
LEMMA Asked ==
  ASSUME TypeOK
  PROVE  LET S == {[page |-> p, size |-> layout] : p \in Missing}
         IN  S \subseteq Request /\ IsFiniteSet(S) /\ \A r \in S : r.size = layout
<1> DEFINE S == {[page |-> p, size |-> layout] : p \in Missing}
           f == [p \in Missing |-> [page |-> p, size |-> layout]]
<1>1. Missing \subseteq Pages /\ (Missing # {} => layout \in Sizes)
  BY DEF TypeOK, Missing, Visible, InViewport
<1>2. S \subseteq Request /\ \A r \in S : r.size = layout
  BY <1>1 DEF Request
<1>3. IsFiniteSet(Missing)
  <2>1. NPages - 1 \in Int
    BY RendererConstants
  <2>2. IsFiniteSet(Pages)
    BY <2>1, FS_Interval DEF Pages
  <2> QED
    BY <1>1, <2>2, FS_Subset
<1>4. f \in Surjection(Missing, S)
  BY DEF Surjection
<1>5. IsFiniteSet(S)
  BY <1>3, <1>4, FS_Surjection
<1> QED
  BY <1>2, <1>5

\* A paint requests what the cache lacks.
LEMMA PaintKeeps == ASSUME ViewInv, Paint PROVE ViewInv'
<1> DEFINE S == {[page |-> p, size |-> layout] : p \in Missing}
           N == IF Ready THEN S \ pending ELSE {}
<1>1. S \subseteq Request /\ IsFiniteSet(S) /\ \A r \in S : r.size = layout
  BY Asked DEF ViewInv
<1>2. /\ \E order \in SetToSeqs(N) : queue' = queue \o order
      /\ pending' = pending \union N /\ dirty' = FALSE
      /\ UNCHANGED <<content, loads, document, current, results, lost, pageMode, page, size, layout,
                     pageCache, lru, changes, overtaken>>
  BY DEF Paint, requestPages, AsNew, documents
<1> HIDE DEF S
<1>3. N \subseteq Request /\ IsFiniteSet(N) /\ N \intersect pending = {} /\ \A r \in N : r.size = layout
  <2>1. N \in SUBSET S
    OBVIOUS
  <2> QED
    BY <1>1, <2>1, FS_Subset
<1> HIDE DEF N
<1>4. PICK order \in SetToSeqs(N) : queue' = queue \o order
  BY <1>2
<1>5. order \in Seq(N) /\ ToSet(order) = N /\ IsInjective(order)
  BY <1>3, Ordered
<1>6. order \in Seq(Request) /\ queue \in Seq(Request)
  BY <1>3, <1>5 DEF ViewInv, TypeOK
<1>7. /\ queue' \in Seq(Request) /\ ToSet(queue') = ToSet(queue) \union N
      /\ IsInjective(queue') <=> IsInjective(queue) /\ ToSet(queue) \intersect N = {}
  BY <1>4, <1>5, <1>6, Joined
<1>8. TypeOK'
  BY <1>2, <1>3, <1>7 DEF ViewInv, TypeOK
<1>9. Account'
  <2>1. Back' = Back /\ InHand' = InHand
    BY <1>2 DEF Back, InHand
  <2> QED
    BY <1>2, <1>3, <1>7, <2>1 DEF ViewInv, Account
<1>10. Holds' = Holds
  BY <1>2 DEF Holds
<1>11. UnderWayCurrent'
  BY <1>2, <1>3, <1>10 DEF ViewInv, UnderWayCurrent
<1>12. CacheCurrentOrOvertaken'
  BY <1>2, <1>10 DEF ViewInv, CacheCurrentOrOvertaken, CacheBounded
<1> QED
  BY <1>8, <1>9, <1>11, <1>12 DEF ViewInv

-----------------------------------------------------------------------------
(* The worker, and what it sends back. *)
LEMMA TakesKeeps == ASSUME ViewInv, WorkerTakes, UNCHANGED view PROVE ViewInv'
<1>1. /\ current = NoRequest /\ queue # <<>> /\ queue' = Tail(queue)
      /\ IF Ready THEN current' = Head(queue) /\ lost' = lost
         ELSE lost' = lost \union {Head(queue)} /\ current' = current
      /\ UNCHANGED <<content, loads, document, pending, results, pageMode, page, size, layout,
                     pageCache, lru, dirty, changes, overtaken>>
  BY DEF WorkerTakes, documents, view
<1> DEFINE h == Head(queue)
           t == Tail(queue)
<1>2. /\ h \in Request /\ t \in Seq(Request) /\ ToSet(queue) = {h} \union ToSet(t)
      /\ IsInjective(queue) <=> IsInjective(t) /\ h \notin ToSet(t)
  BY <1>1, Rest DEF ViewInv, TypeOK
<1>3. queue' = t /\ IF Ready THEN current' = h /\ lost' = lost ELSE lost' = lost \union {h} /\ current' = current
  BY <1>1
<1> HIDE DEF h, t
<1>4. TypeOK'
  BY <1>1, <1>2, <1>3 DEF ViewInv, TypeOK
<1>5. Account'
  <2>1. Back' = Back /\ InHand = {} /\ InHand' = IF Ready THEN {h} ELSE {}
    BY <1>1, <1>2, <1>3, HandIsRequest DEF Back, InHand, ViewInv
  <2>2. /\ IsInjective(t) /\ h \notin ToSet(t) /\ h \notin ToSet(Back) /\ h \notin lost
        /\ ToSet(t) \intersect ToSet(Back) = {} /\ lost \intersect (ToSet(t) \union ToSet(Back)) = {}
        /\ pending = {h} \union ToSet(t) \union ToSet(Back) \union lost /\ IsInjective(Back)
    BY <1>2, <2>1 DEF ViewInv, Account
  <2>3. CASE Ready
    BY <1>1, <1>3, <2>1, <2>2, <2>3 DEF Account
  <2>4. CASE ~Ready
    BY <1>1, <1>3, <2>1, <2>2, <2>4 DEF Account
  <2> QED
    BY <2>3, <2>4
<1>6. Holds' = Holds
  BY <1>1 DEF Holds
<1>7. UnderWayCurrent'
  BY <1>1, <1>6 DEF ViewInv, UnderWayCurrent
<1>8. CacheCurrentOrOvertaken'
  BY <1>1, <1>6 DEF ViewInv, CacheCurrentOrOvertaken, CacheBounded
<1> QED
  BY <1>4, <1>5, <1>7, <1>8 DEF ViewInv

\* The worker takes a request or renders one.
LEMMA RendersKeeps == ASSUME ViewInv, WorkerRenders, UNCHANGED view PROVE ViewInv'
<1> DEFINE e == [request |-> current, image |-> Holds]
<1>1. /\ current # NoRequest /\ current' = NoRequest /\ results' = Append(results, e)
      /\ UNCHANGED <<content, loads, document, pending, queue, lost, pageMode, page, size, layout,
                     pageCache, lru, dirty, changes, overtaken>>
  BY DEF WorkerRenders, documents, view
<1>2. e \in Result /\ e.request = current /\ e.image = Holds /\ current \in Request
  <2>1. Holds \in 0 .. MaxLoads
    BY RendererConstants DEF Holds, ViewInv, TypeOK
  <2> QED
    BY <1>1, <2>1 DEF Result, ViewInv, TypeOK
<1> HIDE DEF e
<1>3. results \in Seq(Result)
  BY DEF ViewInv, TypeOK, Result
<1>4. /\ results' \in Seq(Result) /\ Len(results') = Len(results) + 1 /\ Len(results) \in Nat
      /\ results'[Len(results) + 1] = e /\ \A i \in 1 .. Len(results) : results'[i] = results[i]
  BY <1>1, <1>2, <1>3
<1>5. Back' = Append(Back, current)
  BY <1>1, <1>2, <1>3, BackAppended DEF Back
<1>6. /\ ToSet(Back') = ToSet(Back) \union {current}
      /\ IsInjective(Back') <=> IsInjective(Back) /\ current \notin ToSet(Back)
  BY <1>2, <1>3, <1>5, BackOf, Appended DEF Back
<1>7. TypeOK'
  BY <1>1, <1>4 DEF ViewInv, TypeOK, Result
<1>8. InHand = {current} /\ InHand' = {}
  BY <1>1 DEF InHand
<1>9. Account'
  BY <1>1, <1>6, <1>8 DEF ViewInv, Account
<1>10. Holds' = Holds
  BY <1>1 DEF Holds
<1>11. UnderWayCurrent'
  <2>1. \A i \in 1 .. Len(results') : i \in 1 .. Len(results) \/ i = Len(results) + 1
    BY <1>4
  <2>2. \A i \in 1 .. Len(results') : results'[i].image = Holds \/ results'[i].request \in overtaken
    BY <1>2, <1>4, <2>1 DEF ViewInv, UnderWayCurrent
  <2> QED
    BY <1>1, <1>10, <2>2 DEF ViewInv, UnderWayCurrent
<1>12. CacheCurrentOrOvertaken'
  BY <1>1, <1>10 DEF ViewInv, CacheCurrentOrOvertaken, CacheBounded
<1> QED
  BY <1>7, <1>9, <1>11, <1>12 DEF ViewInv

\* A result comes back and enters the cache, or is dropped.
LEMMA RenderedKeeps == ASSUME ViewInv, PageRendered PROVE ViewInv'
<1> DEFINE r == Head(results).request
           p == r.page
           gone == IF p \in ToSet(lru) THEN {} ELSE Evicted
           img == [size |-> r.size, image |-> Head(results).image]
<1>1. /\ results # <<>> /\ results' = Tail(results) /\ pending' = pending \ {r} /\ dirty' = TRUE
      /\ lru' = IF p \in ToSet(lru) THEN lru ELSE Append(Kept, p)
      /\ pageCache' = [q \in (DOMAIN pageCache \ gone) \union {p} |-> IF q = p THEN img ELSE pageCache[q]]
      /\ UNCHANGED <<content, loads, document, queue, current, lost, pageMode, page, size, layout,
                     changes, overtaken>>
  BY DEF PageRendered, Deliver, requestFinished, documents
<1>2. results \in Seq(Result)
  BY DEF ViewInv, TypeOK, Result
<1>3. /\ Back # <<>> /\ Back' = Tail(Back) /\ Head(Back) = r /\ Back \in Seq(Request)
      /\ Tail(results) \in Seq(Result)
      /\ \A i \in 1 .. Len(results') : i + 1 \in 1 .. Len(results) /\ results'[i] = results[i + 1]
  BY <1>1, <1>2, BackRest, BackOf DEF Back
<1>4. Head(results) = results[1] /\ 1 \in 1 .. Len(results)
  BY <1>1, <1>2, BackRest
<1>5. r \in Request /\ Head(results).image \in 0 .. MaxLoads
  BY <1>2, <1>4, BackOf
<1>6. /\ ToSet(Back) = {r} \union ToSet(Back') /\ IsInjective(Back') /\ r \notin ToSet(Back')
  BY <1>3, Rest DEF ViewInv, Account
<1>7. r \in pending /\ (r.size = layout \/ r \in overtaken)
  BY <1>6 DEF ViewInv, Account, UnderWayCurrent
<1>8. Head(results).image = Holds \/ r \in overtaken
  BY <1>4 DEF ViewInv, UnderWayCurrent
<1>9. p \in Pages /\ r.size \in Sizes /\ r = [page |-> p, size |-> r.size]
  BY <1>5 DEF Request
<1>10. img \in Image /\ img.size = r.size /\ img.image = Head(results).image
  BY <1>5, <1>9 DEF Image
<1> HIDE DEF r, p, img
<1>11. Account'
  <2>1. InHand' = InHand
    BY <1>1 DEF InHand
  <2> QED
    BY <1>1, <1>6, <2>1 DEF ViewInv, Account
<1>12. Holds' = Holds
  BY <1>1 DEF Holds
<1>13. UnderWayCurrent'
  <2>1. \A i \in 1 .. Len(results') : results'[i].image = Holds \/ results'[i].request \in overtaken
    BY <1>3 DEF ViewInv, UnderWayCurrent
  <2> QED
    BY <1>1, <1>12, <2>1 DEF ViewInv, UnderWayCurrent
<1>14. /\ lru' \in Seq(Pages) /\ IsInjective(lru') /\ Len(lru') <= PageCacheLimit + 1
       /\ (DOMAIN pageCache \ gone) \union {p} \subseteq ToSet(lru')
  <2>1. /\ DOMAIN pageCache \subseteq ToSet(lru) /\ IsInjective(lru) /\ Len(lru) <= PageCacheLimit + 1
        /\ lru \in Seq(Pages) /\ Len(lru) \in Nat /\ PageCacheLimit \in Nat
    BY ViewConstants DEF ViewInv, CacheCurrentOrOvertaken, CacheBounded, TypeOK
  <2>2. CASE p \in ToSet(lru)
    BY <1>1, <2>1, <2>2
  <2>3. CASE p \notin ToSet(lru) /\ Len(lru) > PageCacheLimit
    <3> DEFINE k == Tail(lru)
    <3>1. lru # <<>>
      BY <2>1, <2>3
    <3>2. /\ k \in Seq(Pages) /\ Len(k) = Len(lru) - 1 /\ ToSet(lru) = {Head(lru)} \union ToSet(k)
          /\ IsInjective(k)
      BY <2>1, <3>1, Rest
    <3>3. lru' = Append(k, p) /\ gone = {Head(lru)}
      BY <1>1, <2>3 DEF Kept, Evicted
    <3> HIDE DEF k, gone
    <3>4. /\ lru' \in Seq(Pages) /\ ToSet(lru') = ToSet(k) \union {p} /\ IsInjective(lru')
      BY <1>9, <2>3, <3>2, <3>3, Appended
    <3>5. Len(lru') = Len(k) + 1
      BY <1>9, <3>2, <3>3
    <3> QED
      BY <2>1, <3>2, <3>3, <3>4, <3>5
  <2>4. CASE p \notin ToSet(lru) /\ ~(Len(lru) > PageCacheLimit)
    <3>1. lru' = Append(lru, p) /\ gone = {}
      BY <1>1, <2>4 DEF Kept, Evicted
    <3> HIDE DEF gone
    <3>2. /\ lru' \in Seq(Pages) /\ ToSet(lru') = ToSet(lru) \union {p} /\ IsInjective(lru')
      BY <1>9, <2>1, <2>4, <3>1, Appended
    <3>3. Len(lru') = Len(lru) + 1
      BY <1>9, <2>1, <3>1
    <3> QED
      BY <2>1, <2>4, <3>1, <3>2, <3>3
  <2> QED
    BY <2>2, <2>3, <2>4
<1> HIDE DEF gone
<1>15. /\ DOMAIN pageCache' = (DOMAIN pageCache \ gone) \union {p}
       /\ \A q \in DOMAIN pageCache' :
            \/ q = p /\ pageCache'[q] = img
            \/ q \in DOMAIN pageCache /\ pageCache'[q] = pageCache[q]
  BY <1>1
<1>16. TypeOK'
  <2>1. DOMAIN pageCache' \in SUBSET Pages /\ \A q \in DOMAIN pageCache' : pageCache'[q] \in Image
    BY <1>9, <1>10, <1>15 DEF ViewInv, TypeOK
  <2>2. pending' \in SUBSET Request /\ results' \in Seq([request : Request, image : 0 .. MaxLoads])
    BY <1>1, <1>3 DEF ViewInv, TypeOK, Result
  <2> QED
    BY <1>1, <1>14, <2>1, <2>2 DEF ViewInv, TypeOK
<1>17. CacheBounded'
  BY <1>1, <1>14, <1>15 DEF CacheBounded
<1>18. CacheCurrentOrOvertaken'
  <2> SUFFICES ASSUME NEW q \in DOMAIN pageCache'
               PROVE  \/ pageCache'[q].size = layout /\ pageCache'[q].image = Holds
                      \/ [page |-> q, size |-> pageCache'[q].size] \in overtaken
    BY <1>1, <1>12, <1>17 DEF CacheCurrentOrOvertaken
  <2>1. CASE q = p /\ pageCache'[q] = img
    BY <1>7, <1>8, <1>9, <1>10, <2>1
  <2>2. CASE q \in DOMAIN pageCache /\ pageCache'[q] = pageCache[q]
    BY <2>2 DEF ViewInv, CacheCurrentOrOvertaken
  <2> QED
    BY <1>15, <2>1, <2>2
<1> QED
  BY <1>11, <1>13, <1>16, <1>18 DEF ViewInv

-----------------------------------------------------------------------------
\* The view starts with an empty cache and no request.
LEMMA InitiallyInv == Init => ViewInv
<1> SUFFICES ASSUME Init PROVE ViewInv
  OBVIOUS
<1>1. Back = <<>> /\ InHand = {} /\ queue = <<>>
  BY DEF Init, RendererInit, Back, RequestsOf, InHand
<1>2. Account
  BY <1>1, Empty DEF Account, Init, RendererInit
<1>3. DOMAIN pageCache = {}
  BY DEF Init, NoImages
<1>4. TypeOK
  <2>1. DefaultSize \in Sizes /\ 0 \in Pages /\ MaxLoads \in Nat /\ MaxChanges \in Nat
    BY ViewConstants, RendererConstants DEF DefaultSize, Pages
  <2> QED
    BY <1>3, <2>1 DEF Init, RendererInit, TypeOK
<1>5. UnderWayCurrent
  BY DEF Init, RendererInit, UnderWayCurrent
<1>6. CacheCurrentOrOvertaken
  BY <1>3, Empty, ViewConstants DEF Init, CacheCurrentOrOvertaken, CacheBounded
<1> QED
  BY <1>2, <1>4, <1>5, <1>6 DEF ViewInv

\* Every step of view and renderer keeps the invariant.
LEMMA StepKeepsInv == ViewInv /\ [Next]_vars => ViewInv'
<1> SUFFICES ASSUME ViewInv, [Next]_vars PROVE ViewInv'
  OBVIOUS
<1>1. CASE StatusChanges
  BY <1>1, StatusChangesKeeps
<1>2. CASE SetDocument \/ SetSize \/ SetPageMode \/ GoTo
  BY <1>2, UserKeeps
<1>3. CASE Paint
  BY <1>3, PaintKeeps
<1>4. CASE PageRendered
  BY <1>4, RenderedKeeps
<1>5. CASE WorkerTakes /\ UNCHANGED view
  BY <1>5, TakesKeeps
<1>6. CASE WorkerRenders /\ UNCHANGED view
  BY <1>6, RendersKeeps
<1>7. CASE UNCHANGED vars
  <2>1. UNCHANGED <<content, loads, document, pending, queue, current, results, lost, pageMode, page,
                    size, layout, pageCache, lru, dirty, changes, overtaken>>
    BY <1>7 DEF vars, documents, renderer, view
  <2>2. TypeOK'
    BY <2>1 DEF ViewInv, TypeOK
  <2>3. Holds' = Holds
    BY <2>1 DEF Holds
  <2> QED
    BY <2>1, <2>2, <2>3, RestKeeps
<1> QED
  BY <1>1, <1>2, <1>3, <1>4, <1>5, <1>6, <1>7 DEF Next, Idle

(* The strengthening is an invariant. *)
THEOREM ViewInvariant == Spec => []ViewInv
<1>1. Init => ViewInv
  BY InitiallyInv
<1>2. ViewInv /\ [Next]_vars => ViewInv'
  BY StepKeepsInv
<1> QED
  BY <1>1, <1>2, PTL DEF Spec

(* Every pending request of the renderer is in exactly one place, so the   *)
(* worker never renders a page twice for one request and none is forgotten *)
(* but those it drops.                                                     *)
THEOREM EveryRequestAccounted == Spec => []RequestsAccounted
<1>1. ViewInv => RequestsAccounted
  BY AccountIsAccounted DEF ViewInv
<1> QED
  BY <1>1, ViewInvariant, PTL

(* The cache holds at most m_pageCacheLimit + 1 images, each listed for    *)
(* eviction once, and each is of the document, its state and the layout    *)
(* there are, or was asked for before one of them changed.                 *)
THEOREM CacheIsCurrent == Spec => []CacheCurrentOrOvertaken
<1>1. ViewInv => CacheCurrentOrOvertaken
  BY DEF ViewInv
<1> QED
  BY <1>1, ViewInvariant, PTL
-----------------------------------------------------------------------------
(***************************************************************************)
(* The document: its state as a record, and what the functions that call   *)
(* each other make of its fields.                                          *)
(***************************************************************************)
Signals    == {"metaDataChanged", "readyRead", "finished"}
ReplyState == [kind : {"plain", "linear", "broken"}, header : {"unknown", "length", "none"}, 
               sent : 0 .. Units, unread : 0 .. Units, end : {"no", "past", "ok", "error"}, used : BOOLEAN]
Document   == [status : {"Null", "Loading", "Ready", "Error"},
               doc : Files \union Replies \union {"none"}, avail : BOOLEAN,
               loadComplete : BOOLEAN, pageCount : {0, PageCount}, password : {"none", "right"},
               device : Files \union {"buffer", "none"}, buffer : Seq(Replies),
               source : Replies \union {"none"}, conn : SUBSET (Replies \X Signals),
               reply : [Replies -> ReplyState], stuck : BOOLEAN]

AllFrom(b, r) == \A i \in 1 .. Len(b) : b[i] = r

(* The open document is the one of the device, with data of its own alone; *)
(* the buffer holds no more of a reply than it has sent.                   *)
DocInv(d) ==
  /\ d.doc # "none" => d.avail
  /\ d.doc \in Files => d.device = d.doc
  /\ d.doc \in Replies => d.device = "buffer" /\ d.source = d.doc
  /\ d.loadComplete => d.doc # "none"
BufferInv(d) ==
  /\ d.doc \in Replies => AllFrom(d.buffer, d.doc)
  /\ d.device = "buffer" \/ d.conn # {} => d.source \in Replies
  /\ d.conn = {} => d.buffer = <<>>
  /\ \A r \in Replies :
       /\ d.reply[r].unread <= d.reply[r].sent
       /\ AllFrom(d.buffer, r) => Len(d.buffer) + d.reply[r].unread <= d.reply[r].sent
StatusInv(d) ==
  /\ d.doc \in Replies => d.stuck \/ Len(d.buffer) >= Units
  /\ d.status = "Ready" => /\ d.doc # "none" /\ d.pageCount = PageCount /\ d.doc # "cut"
                           /\ d.doc \in Replies =>
                                Len(d.buffer) >= Units /\ d.reply[d.doc].kind # "broken"
DocumentKept(d) == d \in Document /\ DocInv(d) /\ BufferInv(d) /\ StatusInv(d)

\* A status that promises no document.
LEMMA StatusSet ==
  ASSUME NEW d, DocumentKept(d), NEW s \in {"Loading", "Error"}
  PROVE  DocumentKept(setStatus(d, s))
<1> DEFINE e == setStatus(d, s)
<1>1. e \in Document
  BY DEF setStatus, Document, DocumentKept
<1>2. /\ e.status = s /\ e.doc = d.doc /\ e.avail = d.avail /\ e.loadComplete = d.loadComplete
      /\ e.pageCount = d.pageCount /\ e.device = d.device /\ e.buffer = d.buffer
      /\ e.source = d.source /\ e.conn = d.conn /\ e.reply = d.reply /\ e.stuck = d.stuck
  BY DEF setStatus, Document, DocumentKept
<1> HIDE DEF e
<1>3. DocInv(e) /\ BufferInv(e) /\ StatusInv(e)
  BY <1>2 DEF DocInv, BufferInv, StatusInv, DocumentKept
<1> QED
  BY <1>1, <1>3 DEF DocumentKept, e

\* What close() resets.
LEMMA CloseFields ==
  ASSUME NEW d \in Document
  PROVE  LET e == close(d) IN
         /\ e \in Document
         /\ e.device = d.device /\ e.source = d.source /\ e.reply = d.reply /\ e.stuck = d.stuck
         /\ d.doc = "none" => e = d
         /\ d.doc # "none" => /\ e.status = "Null" /\ e.doc = "none" /\ e.avail = FALSE
                              /\ e.loadComplete = FALSE /\ e.buffer = <<>>
                              /\ e.conn = {c \in d.conn : c[1] # d.source}
<1> DEFINE k == clear(d)
           c0 == Disconnected(d)
<1>0. c0 = {c \in d.conn : c[1] # d.source} /\ c0 \in SUBSET (Replies \X Signals) /\ <<>> \in Seq(Replies)
  BY DEF Disconnected, Document
<1>1. k = [d EXCEPT !.doc = "none", !.avail = FALSE, !.pageCount = 0, !.loadComplete = FALSE,
                      !.buffer = <<>>, !.conn = c0]
  BY DEF clear
<1>2. close(d) = IF d.doc = "none" THEN d ELSE [k EXCEPT !.password = "none", !.status = "Null"]
  BY DEF close
<1> HIDE DEF k, c0
<1>3. /\ k.device = d.device /\ k.source = d.source /\ k.reply = d.reply
      /\ k.stuck = d.stuck /\ k.doc = "none" /\ k.avail = FALSE
      /\ k.loadComplete = FALSE /\ k.buffer = <<>> /\ k.conn = c0
  BY <1>1 DEF Document
<1>4. k \in Document
  BY <1>0, <1>1 DEF Document
<1>5. CASE d.doc = "none"
  BY <1>2, <1>5
<1>6. CASE d.doc # "none"
  <2>1. close(d) = [k EXCEPT !.password = "none", !.status = "Null"]
    BY <1>2, <1>6
  <2>2. close(d) \in Document
    BY <1>4, <2>1 DEF Document
  <2>3. /\ close(d).status = "Null" /\ close(d).doc = k.doc /\ close(d).avail = k.avail
        /\ close(d).loadComplete = k.loadComplete /\ close(d).buffer = k.buffer
        /\ close(d).conn = k.conn /\ close(d).device = k.device /\ close(d).source = k.source
        /\ close(d).reply = k.reply /\ close(d).stuck = k.stuck
    BY <1>4, <2>1 DEF Document
  <2> QED
    BY <1>0, <1>3, <1>6, <2>2, <2>3
<1> QED
  BY <1>5, <1>6

\* close() keeps the invariant and leaves no document.
LEMMA CloseKeeps ==
  ASSUME NEW d, DocumentKept(d), ~d.stuck PROVE DocumentKept(close(d)) /\ close(d).doc = "none"
<1> DEFINE e == close(d)
<1>1. d \in Document /\ DocInv(d) /\ BufferInv(d) /\ StatusInv(d)
  BY DEF DocumentKept
<1>2. /\ e \in Document
      /\ e.device = d.device /\ e.source = d.source /\ e.reply = d.reply /\ e.stuck = d.stuck
      /\ d.doc = "none" => e = d
      /\ d.doc # "none" => /\ e.status = "Null" /\ e.doc = "none" /\ e.avail = FALSE
                           /\ e.loadComplete = FALSE /\ e.buffer = <<>>
                           /\ e.conn = {c \in d.conn : c[1] # d.source}
  BY <1>1, CloseFields
<1> HIDE DEF e
<1>3. ASSUME d.doc # "none" PROVE DocInv(e) /\ BufferInv(e) /\ StatusInv(e)
  <2>0. e.doc \notin Files /\ e.doc \notin Replies
    BY <1>2, <1>3, PdfConstants DEF PdfConstants
  <2>1. DocInv(e)
    BY <1>2, <1>3, <2>0 DEF DocInv
  <2>2. BufferInv(e)
    <3>1. Len(e.buffer) = 0 /\ \A r \in Replies : d.reply[r].unread \in Nat /\ d.reply[r].sent \in Nat
      BY <1>1, <1>2, <1>3, PdfConstants DEF Document, ReplyState, PdfConstants
    <3> QED
      BY <1>1, <1>2, <1>3, <2>0, <3>1 DEF BufferInv
  <2>3. StatusInv(e)
    BY <1>2, <1>3, <2>0 DEF StatusInv
  <2> QED
    BY <2>1, <2>2, <2>3
<1>4. DocumentKept(e) /\ e.doc = "none"
  <2>1. CASE d.doc = "none"
    BY <1>2, <2>1
  <2>2. CASE d.doc # "none"
    BY <1>2, <1>3, <2>2 DEF DocumentKept
  <2> QED
    BY <2>1, <2>2
<1> QED
  BY <1>4 DEF e

(* What _q_copyFromSequentialSourceDevice() adds to the buffer.            *)
Copied(d) ==
  [d EXCEPT !.buffer = @ \o [i \in 1 .. d.reply[d.source].unread |-> d.source],
            !.reply[d.source].unread = 0]

\* A buffer with further units.
LEMMA Extended ==
  ASSUME NEW S, NEW b \in Seq(S), NEW c \in Seq(S)
  PROVE  /\ b \o c \in Seq(S) /\ Len(b \o c) = Len(b) + Len(c)
         /\ \A i \in 1 .. Len(b) : (b \o c)[i] = b[i]
         /\ \A i \in 1 .. Len(c) : (b \o c)[Len(b) + i] = c[i]
  OBVIOUS

\* A reply whose data was read.
LEMMA ReadOut ==
  ASSUME NEW q \in ReplyState
  PROVE  /\ [q EXCEPT !.unread = 0] \in ReplyState
         /\ [q EXCEPT !.unread = 0].unread = 0 /\ [q EXCEPT !.unread = 0].sent = q.sent
         /\ [q EXCEPT !.unread = 0].kind = q.kind
  BY PdfConstants DEF ReplyState, PdfConstants

\* What reading a reply into the buffer changes.
LEMMA CopiedFields ==
  ASSUME NEW d \in Document, d.source \in Replies
  PROVE  LET e == Copied(d)
             s == d.source
             n == d.reply[s].unread
         IN /\ e \in Document
            /\ e.status = d.status /\ e.doc = d.doc /\ e.avail = d.avail
            /\ e.loadComplete = d.loadComplete /\ e.pageCount = d.pageCount
            /\ e.device = d.device /\ e.password = d.password
            /\ e.source = s /\ e.conn = d.conn /\ e.stuck = d.stuck
            /\ e.reply[s].unread = 0
            /\ \A r \in Replies : e.reply[r].sent = d.reply[r].sent /\ e.reply[r].kind = d.reply[r].kind
            /\ \A r \in Replies : r # s => e.reply[r].unread = d.reply[r].unread
            /\ n \in Nat /\ Len(e.buffer) = Len(d.buffer) + n
            /\ \A i \in 1 .. Len(d.buffer) : e.buffer[i] = d.buffer[i]
            /\ \A i \in Len(d.buffer) + 1 .. Len(d.buffer) + n : e.buffer[i] = s
<1> DEFINE e == Copied(d)
           s == d.source
           n == d.reply[s].unread
           new == [i \in 1 .. n |-> s]
           b == d.buffer \o new
           rs == [d.reply EXCEPT ![s].unread = 0]
<1>1. d.buffer \in Seq(Replies) /\ d.reply \in [Replies -> ReplyState] /\ d.reply[s] \in ReplyState
  BY DEF Document
<1>2. n \in Nat /\ d.reply[s].sent \in 0 .. Units /\ n \in 0 .. Units /\ Units \in Nat
  BY <1>1, PdfConstants DEF ReplyState, PdfConstants
<1>3. new \in Seq(Replies) /\ Len(new) = n /\ \A i \in 1 .. n : new[i] = s
  BY <1>2
<1>4. /\ b \in Seq(Replies) /\ Len(b) = Len(d.buffer) + n
      /\ \A i \in 1 .. Len(d.buffer) : b[i] = d.buffer[i]
      /\ \A i \in Len(d.buffer) + 1 .. Len(d.buffer) + n : b[i] = s
  <2> HIDE DEF n, s, new
  <2>1. /\ b \in Seq(Replies) /\ Len(b) = Len(d.buffer) + Len(new)
        /\ \A i \in 1 .. Len(d.buffer) : b[i] = d.buffer[i]
        /\ \A i \in 1 .. Len(new) : b[Len(d.buffer) + i] = new[i]
    BY <1>1, <1>3, Extended
  <2>2. \A i \in Len(d.buffer) + 1 .. Len(d.buffer) + n : b[i] = s
    <3> HIDE DEF b
    <3> SUFFICES ASSUME NEW i \in Len(d.buffer) + 1 .. Len(d.buffer) + n PROVE b[i] = s
      OBVIOUS
    <3>1. Len(d.buffer) \in Nat
      BY <1>1
    <3>2. i - Len(d.buffer) \in 1 .. n /\ Len(d.buffer) + (i - Len(d.buffer)) = i
      BY <1>2, <3>1
    <3> QED
      BY <1>3, <2>1, <3>2
  <2> QED
    BY <1>3, <2>1, <2>2
<1>5. /\ rs \in [Replies -> ReplyState] /\ rs[s].unread = 0
      /\ \A r \in Replies : rs[r].sent = d.reply[r].sent /\ rs[r].kind = d.reply[r].kind
      /\ \A r \in Replies : r # s => rs[r].unread = d.reply[r].unread
  <2>1. \A r \in Replies : rs[r] = IF r = s THEN [d.reply[s] EXCEPT !.unread = 0] ELSE d.reply[r]
    BY <1>1
  <2>2. /\ [d.reply[s] EXCEPT !.unread = 0] \in ReplyState
        /\ [d.reply[s] EXCEPT !.unread = 0].unread = 0
        /\ [d.reply[s] EXCEPT !.unread = 0].sent = d.reply[s].sent
        /\ [d.reply[s] EXCEPT !.unread = 0].kind = d.reply[s].kind
    BY <1>1, ReadOut
  <2>3. rs \in [Replies -> ReplyState]
    BY <1>1, <2>2
  <2>4. s \in Replies
    OBVIOUS
  <2> HIDE DEF rs, s
  <2> QED
    BY <2>1, <2>2, <2>3, <2>4
<1>6. e = [d EXCEPT !.buffer = b, !.reply = rs]
  BY DEF Copied, Document
<1> HIDE DEF e, b, rs, n, new
<1>7. e \in Document
  BY <1>4, <1>5, <1>6 DEF Document
<1>8. /\ e.status = d.status /\ e.doc = d.doc /\ e.avail = d.avail
      /\ e.loadComplete = d.loadComplete /\ e.pageCount = d.pageCount
      /\ e.device = d.device /\ e.password = d.password
      /\ e.source = d.source /\ e.conn = d.conn /\ e.stuck = d.stuck
      /\ e.buffer = b /\ e.reply = rs
  BY <1>6 DEF Document
<1> QED
  BY <1>2, <1>4, <1>5, <1>7, <1>8 DEF e, n

(* checkComplete() of an open document, and of one that it opens.          *)
LEMMA CompleteKeeps ==
  ASSUME NEW d \in Document, DocInv(d), BufferInv(d), d.doc # "none",
         d.status = "Ready" => StatusInv(d) /\ AllPages(d)
  PROVE  /\ DocumentKept(Complete(d)) /\ (Complete(d).status = "Null" => d.status = "Null")
         /\ Complete(d).doc = d.doc
         /\ Complete(d).conn = d.conn /\ Complete(d).source = d.source
         /\ Complete(d).device = d.device
<1> DEFINE e == Complete(d)
<1>0. d.doc \in Files \/ d.doc \in Replies
  BY DEF Document
<1>1. CASE AllPages(d) /\ ~Broken(d)
  <2>1. e = [d EXCEPT !.loadComplete = TRUE, !.pageCount = PageCount, !.status = "Ready"]
    BY <1>1 DEF Complete
  <2> HIDE DEF e
  <2>2. /\ e \in Document /\ e.loadComplete = TRUE /\ e.pageCount = PageCount /\ e.status = "Ready"
        /\ e.doc = d.doc /\ e.avail = d.avail /\ e.device = d.device /\ e.buffer = d.buffer
        /\ e.source = d.source /\ e.conn = d.conn /\ e.reply = d.reply /\ e.stuck = d.stuck
    BY <2>1 DEF Document
  <2>3. DocInv(e)
    BY <2>2 DEF DocInv
  <2>4. BufferInv(e)
    BY <2>2 DEF BufferInv
  <2>5. d.doc \in Replies => Len(d.buffer) >= Units
    <3>1. d.doc \in Replies => d.device = "buffer"
      BY DEF DocInv
    <3> QED
      BY <1>1, <3>1 DEF AllPages
  <2>6. StatusInv(e)
    BY <1>1, <2>2, <2>5 DEF StatusInv, Broken
  <2> QED
    BY <2>2, <2>3, <2>4, <2>6 DEF DocumentKept, e
<1>2. CASE ~AllPages(d)
  <2>1. e = [d EXCEPT !.loadComplete = TRUE, !.stuck = TRUE]
    BY <1>2 DEF Complete
  <2> HIDE DEF e
  <2>2. /\ e \in Document /\ e.loadComplete = TRUE /\ e.stuck = TRUE /\ e.status = d.status
        /\ e.doc = d.doc /\ e.avail = d.avail /\ e.device = d.device /\ e.buffer = d.buffer
        /\ e.source = d.source /\ e.conn = d.conn /\ e.reply = d.reply
    BY <2>1 DEF Document
  <2>3. DocInv(e)
    BY <2>2 DEF DocInv
  <2>4. BufferInv(e)
    BY <2>2 DEF BufferInv
  <2>5. StatusInv(e)
    BY <1>2, <2>2 DEF StatusInv
  <2> QED
    BY <1>2, <2>2, <2>3, <2>4, <2>5 DEF DocumentKept, e
<1>3. CASE AllPages(d) /\ Broken(d)
  <2>1. e = d
    BY <1>3 DEF Complete
  <2>2. d.doc \in Replies => Len(d.buffer) >= Units
    <3>1. d.doc \in Replies => d.device = "buffer"
      BY DEF DocInv
    <3> QED
      BY <1>3, <3>1 DEF AllPages
  <2>3. StatusInv(d)
    BY <2>2 DEF StatusInv
  <2> QED
    BY <2>1, <2>3 DEF DocumentKept
<1> QED
  BY <1>1, <1>2, <1>3

(* tryLoadDocument() opens what the device shows.                          *)
LEMMA OpenedFields ==
  ASSUME NEW d \in Document, NEW x \in Files \union Replies
  PROVE  LET e == [d EXCEPT !.doc = x] IN
         /\ e \in Document /\ e.doc = x
         /\ e.status = d.status /\ e.avail = d.avail /\ e.loadComplete = d.loadComplete
         /\ e.pageCount = d.pageCount /\ e.device = d.device /\ e.buffer = d.buffer
         /\ e.source = d.source /\ e.conn = d.conn /\ e.reply = d.reply /\ e.stuck = d.stuck
  BY DEF Document

\* What PDFium opens is what the device holds.
LEMMA OpensItsOwn ==
  ASSUME NEW d \in Document, Opened(d) # "none", d.device # "none",
         d.device = "buffer" => Len(d.buffer) > 0 /\ d.buffer[Len(d.buffer)] = d.source
  PROVE  \/ Opened(d) \in Files /\ d.device = Opened(d)
         \/ Opened(d) \in Replies /\ d.device = "buffer" /\ Opened(d) = d.source
            /\ AllFrom(d.buffer, Opened(d))
<1>1. CASE d.device = "buffer"
  <2>1. Opened(d) = d.buffer[1] /\ FromOne(d.buffer)
    BY <1>1 DEF Opened
  <2>2. d.buffer \in Seq(Replies) /\ \A i \in 1 .. Len(d.buffer) : d.buffer[i] = d.buffer[1]
    BY <2>1 DEF FromOne, Document
  <2>3. 1 \in 1 .. Len(d.buffer) /\ Len(d.buffer) \in 1 .. Len(d.buffer)
    BY <1>1, <2>2
  <2>4. d.buffer[1] \in Replies /\ d.buffer[1] = d.source
    BY <1>1, <2>2, <2>3
  <2> QED
    BY <1>1, <2>1, <2>2, <2>4 DEF AllFrom
<1>2. CASE d.device # "buffer"
  <2>1. d.device \in Files
    BY <1>2 DEF Document
  <2>2. Opened(d) = d.device
    BY <1>2 DEF Opened
  <2> QED
    BY <2>1, <2>2
<1> QED
  BY <1>1, <1>2

\* tryLoadDocument() opens the document of the device, or none.
LEMMA TryKeeps ==
  ASSUME NEW d, DocumentKept(d), d.doc = "none", d.avail = TRUE,
         d.device = "buffer" => Len(d.buffer) > 0 /\ d.buffer[Len(d.buffer)] = d.source,
         NEW t \in tryLoadDocument(d)
  PROVE  /\ t \in Document /\ DocInv(t) /\ BufferInv(t)
         /\ t.doc = "none" => DocumentKept(t) /\ t.status \in {d.status, "Error"}
         /\ t.doc # "none" => t.status = d.status /\ t.avail = TRUE
         /\ t.conn = d.conn /\ t.source = d.source /\ t.device = d.device /\ t.stuck = d.stuck
         /\ t.buffer = d.buffer
<1>0. d \in Document /\ DocInv(d) /\ BufferInv(d)
  BY DEF DocumentKept
<1>1. CASE Opened(d) # "none"
  <2>1. d.device # "none"
    BY <1>1 DEF Opened
  <2> DEFINE x == Opened(d)
  <2>2. \/ x \in Files /\ d.device = x
        \/ x \in Replies /\ d.device = "buffer" /\ x = d.source /\ AllFrom(d.buffer, x)
    BY <1>0, <1>1, <2>1, OpensItsOwn
  <2>3. t = [d EXCEPT !.doc = x]
    BY <1>1 DEF tryLoadDocument
  <2>4. x # "none"
    BY <1>1
  <2> HIDE DEF x
  <2>5. /\ t \in Document /\ t.doc = x
        /\ t.status = d.status /\ t.avail = d.avail /\ t.loadComplete = d.loadComplete
        /\ t.pageCount = d.pageCount /\ t.device = d.device /\ t.buffer = d.buffer
        /\ t.source = d.source /\ t.conn = d.conn /\ t.reply = d.reply /\ t.stuck = d.stuck
    BY <1>0, <2>2, <2>3, OpenedFields
  <2>6. DocInv(t)
    BY <1>0, <2>2, <2>5, PdfConstants DEF DocInv, PdfConstants
  <2>7. BufferInv(t)
    BY <1>0, <2>2, <2>5, PdfConstants DEF BufferInv, PdfConstants
  <2> QED
    BY <2>4, <2>5, <2>6, <2>7
<1>2. CASE Opened(d) = "none"
  <2>1. t = d \/ t = setStatus(d, "Error")
    BY <1>2 DEF tryLoadDocument
  <2>2. DocumentKept(t)
    BY <2>1, StatusSet
  <2>3. /\ t.doc = d.doc /\ t.avail = d.avail /\ t.conn = d.conn /\ t.source = d.source
        /\ t.device = d.device /\ t.stuck = d.stuck /\ t.buffer = d.buffer
        /\ t.status \in {d.status, "Error"}
    BY <1>0, <2>1 DEF setStatus, Document
  <2> QED
    BY <2>2, <2>3 DEF DocumentKept
<1> QED
  BY <1>1, <1>2

\* Reading into the buffer keeps it the reply's own.
LEMMA CopiedKeeps ==
  ASSUME NEW d, DocumentKept(d), ~d.stuck, d.source \in Replies, d.conn # {}, d.reply[d.source].unread # 0
  PROVE  /\ DocumentKept(Copied(d)) /\ d.doc \notin Replies /\ Len(Copied(d).buffer) > 0
         /\ Copied(d).buffer[Len(Copied(d).buffer)] = d.source
<1> DEFINE c == Copied(d)
           s == d.source
           n == d.reply[s].unread
<1>0. /\ d \in Document /\ DocInv(d) /\ BufferInv(d) /\ StatusInv(d)
      /\ d.reply[s] \in ReplyState /\ n \in Nat /\ d.reply[s].sent \in 0 .. Units
      /\ Len(d.buffer) \in Nat /\ Units \in Nat
  BY PdfConstants DEF DocumentKept, Document, ReplyState, PdfConstants
<1>1. /\ c \in Document
      /\ c.status = d.status /\ c.doc = d.doc /\ c.avail = d.avail
      /\ c.loadComplete = d.loadComplete /\ c.pageCount = d.pageCount
      /\ c.device = d.device
      /\ c.source = s /\ c.conn = d.conn /\ c.stuck = d.stuck
      /\ c.reply[s].unread = 0
      /\ \A r \in Replies : c.reply[r].sent = d.reply[r].sent /\ c.reply[r].kind = d.reply[r].kind
      /\ \A r \in Replies : r # s => c.reply[r].unread = d.reply[r].unread
      /\ Len(c.buffer) = Len(d.buffer) + n
      /\ \A i \in 1 .. Len(d.buffer) : c.buffer[i] = d.buffer[i]
      /\ \A i \in Len(d.buffer) + 1 .. Len(d.buffer) + n : c.buffer[i] = s
  BY <1>0, CopiedFields
<1> HIDE DEF c
<1>2. d.doc \notin Replies
  <2> SUFFICES ASSUME d.doc \in Replies PROVE FALSE
    OBVIOUS
  <2>1. s = d.doc /\ AllFrom(d.buffer, s) /\ Len(d.buffer) >= Units
    BY <1>0 DEF DocInv, BufferInv, StatusInv
  <2>2. Len(d.buffer) + n <= d.reply[s].sent
    BY <1>0, <2>1 DEF BufferInv
  <2> HIDE DEF n, s
  <2> QED
    BY <1>0, <2>1, <2>2 DEF n, s
<1>4. n > 0
  BY <1>0
<1> HIDE DEF n
<1>5. Len(c.buffer) > 0 /\ c.buffer[Len(c.buffer)] = s /\ Len(c.buffer) \in 1 .. Len(c.buffer)
  BY <1>0, <1>1, <1>4
<1>6. DocInv(c)
  BY <1>0, <1>1 DEF DocInv
<1>7. BufferInv(c)
  <2>1. \A r \in Replies : c.reply[r].unread <= c.reply[r].sent
    <3> SUFFICES ASSUME NEW r \in Replies PROVE c.reply[r].unread <= c.reply[r].sent
      OBVIOUS
    <3>1. CASE r = s
      BY <1>0, <1>1, <3>1
    <3>2. CASE r # s
      BY <1>0, <1>1, <3>2 DEF BufferInv
    <3> QED
      BY <3>1, <3>2
  <2>2. \A r \in Replies : AllFrom(c.buffer, r) =>
          Len(c.buffer) + c.reply[r].unread <= c.reply[r].sent
    <3> SUFFICES ASSUME NEW r \in Replies, AllFrom(c.buffer, r)
                 PROVE  Len(c.buffer) + c.reply[r].unread <= c.reply[r].sent
      OBVIOUS
    <3>1. r = s
      BY <1>5 DEF AllFrom
    <3>2. AllFrom(d.buffer, s)
      <4>1. \A i \in 1 .. Len(d.buffer) : i \in 1 .. Len(c.buffer)
        BY <1>0, <1>1, <1>4
      <4> QED
        BY <1>1, <3>1, <4>1 DEF AllFrom
    <3>3. Len(d.buffer) + n <= d.reply[s].sent
      BY <1>0, <3>2 DEF BufferInv, n
    <3> QED
      BY <1>0, <1>1, <3>1, <3>3
  <2> QED
    BY <1>0, <1>1, <1>2, <2>1, <2>2 DEF BufferInv
<1>8. StatusInv(c)
  BY <1>0, <1>1, <1>2 DEF StatusInv
<1> QED
  BY <1>1, <1>2, <1>5, <1>6, <1>7, <1>8 DEF DocumentKept, c

(* _q_copyFromSequentialSourceDevice() of whichever reply.                 *)
LEMMA CopyKeeps ==
  ASSUME NEW d, DocumentKept(d), ~d.stuck, d.conn # {}, NEW e \in copyFromSource(d)
  PROVE  /\ DocumentKept(e) /\ e.conn = d.conn /\ e.source = d.source /\ e.device = d.device
         /\ e.status = "Null" => d.status = "Null"
<1>0. d \in Document /\ d.source \in Replies /\ DocInv(d) /\ StatusInv(d)
  BY DEF DocumentKept, BufferInv
<1>1. CASE d.loadComplete \/ d.reply[d.source].unread = 0
  BY <1>1 DEF copyFromSource
<1>2. CASE ~(d.loadComplete \/ d.reply[d.source].unread = 0)
  <2> DEFINE c == Copied(d)
  <2>1. e \in checkComplete(c)
    BY <1>2 DEF copyFromSource, Copied
  <2>2. /\ DocumentKept(c) /\ d.doc \notin Replies /\ Len(c.buffer) > 0
        /\ c.buffer[Len(c.buffer)] = d.source
    BY <1>0, <1>2, CopiedKeeps
  <2>3. /\ c.status = d.status /\ c.doc = d.doc /\ c.avail = d.avail
        /\ c.loadComplete = d.loadComplete /\ c.device = d.device
        /\ c.source = d.source /\ c.conn = d.conn /\ c.stuck = d.stuck
    BY <1>0, CopiedFields
  <2> HIDE DEF c
  <2>4. c \in Document /\ DocInv(c) /\ BufferInv(c) /\ StatusInv(c)
    BY <2>2 DEF DocumentKept
  <2>5. CASE ~c.avail
    BY <2>1, <2>2, <2>3, <2>5 DEF checkComplete
  <2>6. CASE c.avail /\ c.doc # "none"
    <3>1. e = Complete(c)
      BY <1>2, <2>1, <2>3, <2>6 DEF checkComplete
    <3>2. AllPages(c)
      BY <2>2, <2>3, <2>4, <2>6, PdfConstants DEF AllPages, DocInv, Document, PdfConstants
    <3> QED
      BY <2>3, <2>4, <2>6, <3>1, <3>2, CompleteKeeps
  <2>7. CASE c.avail /\ c.doc = "none"
    <3>1. PICK t \in tryLoadDocument(c) : e = IF t.doc = "none" THEN t ELSE Complete(t)
      BY <1>2, <2>1, <2>3, <2>7 DEF checkComplete
    <3>2. /\ t \in Document /\ DocInv(t) /\ BufferInv(t)
          /\ t.doc = "none" => DocumentKept(t) /\ t.status \in {c.status, "Error"}
          /\ t.doc # "none" => t.status = c.status
          /\ t.conn = c.conn /\ t.source = c.source /\ t.device = c.device
      <4>1. c.avail = TRUE
        BY <2>4, <2>7 DEF Document
      <4> QED
        BY <2>2, <2>3, <2>7, <4>1, TryKeeps
    <3>3. t.doc # "none" => t.status # "Ready"
      <4>1. c.status # "Ready"
        BY <2>4, <2>7 DEF StatusInv
      <4> QED
        BY <3>2, <4>1
    <3>4. t.doc # "none" => /\ DocumentKept(Complete(t))
                            /\ Complete(t).status = "Null" => t.status = "Null"
                            /\ Complete(t).conn = t.conn /\ Complete(t).source = t.source
                            /\ Complete(t).device = t.device
      BY <3>2, <3>3, CompleteKeeps
    <3> QED
      BY <2>3, <3>1, <3>2, <3>4
  <2> QED
    BY <2>5, <2>6, <2>7
<1> QED
  BY <1>1, <1>2

\* The record becomes the state.
LEMMA DocIsBecome ==
  ASSUME NEW e, Becomes(e), e \in Document PROVE Doc' = e
<1>1. e = [status |-> e.status, doc |-> e.doc, avail |-> e.avail, loadComplete |-> e.loadComplete,
           pageCount |-> e.pageCount, password |-> e.password, device |-> e.device,
           buffer |-> e.buffer, source |-> e.source, conn |-> e.conn, reply |-> e.reply,
           stuck |-> e.stuck]
  BY DEF Document
<1> QED
  BY <1>1 DEF Doc, Becomes

(* What is left of an earlier load cannot reach a load that found nothing  *)
(* of it: the connections, the source and the device are its own.          *)
FreshInv(s, d) ==
  /\ s \in Replies => d.conn \subseteq {s} \X Signals /\ d.source = s /\ d.device = "buffer"
  /\ s \notin Replies => d.conn = {}
  /\ s \in Files => d.device = s
  /\ s = "none" => d.doc = "none"
  /\ d.status = "Null" => d.conn = {} /\ d.avail = FALSE
PdfInv ==
  /\ last \in Files \union Replies \union {"none"}
  /\ DocumentKept(Doc) /\ (fresh => FreshInv(last, Doc))

\* Close keeps the invariant.
LEMMA KeptByClose == ASSUME PdfInv, Close PROVE PdfInv'
<1> DEFINE d == Doc
           e == close(d)
<1>1. DocumentKept(d) /\ d \in Document /\ d.stuck = stuck
  BY DEF PdfInv, DocumentKept, Doc
<1>2. DocumentKept(e) /\ e \in Document
  BY <1>1, CloseKeeps DEF Close, DocumentKept
<1>3. Doc' = e /\ UNCHANGED <<last, fresh>>
  BY <1>2, DocIsBecome DEF Close
<1>4. /\ e.device = d.device /\ e.source = d.source
      /\ d.doc = "none" => e = d
      /\ d.doc # "none" => e.avail = FALSE /\ e.doc = "none" /\ e.conn = {c \in d.conn : c[1] # d.source}
  BY <1>1, CloseFields
<1>5. ASSUME fresh PROVE FreshInv(last, e)
  <2> HIDE DEF d, e
  <2>1. FreshInv(last, d)
    BY <1>5 DEF PdfInv, d
  <2>2. CASE d.doc = "none"
    BY <1>4, <2>1, <2>2
  <2>3. CASE d.doc # "none"
    <3>1. d.conn \subseteq Replies \X Signals
      BY <1>1 DEF Document
    <3>2. e.conn = {}
      BY <1>4, <2>1, <2>3, <3>1 DEF FreshInv
    <3> QED
      BY <1>4, <2>1, <2>3, <3>2 DEF FreshInv
  <2> QED
    BY <2>2, <2>3
<1> QED
  BY <1>2, <1>3, <1>5 DEF PdfInv

\* Password keeps the invariant.
LEMMA KeptByPassword == ASSUME PdfInv, SetPassword PROVE PdfInv'
<1> DEFINE d == Doc
           e == [d EXCEPT !.password = "right"]
<1>1. DocumentKept(d) /\ d \in Document
  BY DEF PdfInv, DocumentKept
<1>2. Becomes(e) /\ UNCHANGED <<last, fresh>> /\ (fresh => FreshInv(last, d))
  BY DEF SetPassword, PdfInv
<1> HIDE DEF d
<1>3. /\ e \in Document
      /\ e.status = d.status /\ e.doc = d.doc /\ e.avail = d.avail /\ e.loadComplete = d.loadComplete
      /\ e.pageCount = d.pageCount /\ e.device = d.device /\ e.buffer = d.buffer
      /\ e.source = d.source /\ e.conn = d.conn /\ e.reply = d.reply /\ e.stuck = d.stuck
  BY <1>1 DEF Document
<1> HIDE DEF e
<1>4. DocumentKept(e)
  BY <1>1, <1>3 DEF DocumentKept, DocInv, BufferInv, StatusInv
<1>5. fresh => FreshInv(last, e)
  BY <1>2, <1>3 DEF FreshInv
<1> QED
  BY <1>2, <1>3, <1>4, <1>5, DocIsBecome DEF PdfInv

(* Every load begins with a document that is closed.                       *)
LEMMA Begins ==
  ASSUME PdfInv, ~stuck
  PROVE  /\ DocumentKept(Begin) /\ Begin.doc = "none" /\ Begin.status = "Loading" /\ Begin.stuck = FALSE
         /\ Begin.loadComplete = FALSE /\ Begin.source = source /\ Begin.reply = reply
         /\ \A r \in Replies : Begin.reply[r] = reply[r]
<1> DEFINE d == Doc
           k == close(d)
<1>1. /\ DocumentKept(d) /\ d \in Document /\ d.stuck = stuck /\ d.reply = reply
      /\ d.source = source
  BY DEF PdfInv, DocumentKept, Doc
<1>2. /\ DocumentKept(k) /\ k.doc = "none" /\ k \in Document /\ k.stuck = d.stuck
      /\ k.reply = d.reply /\ k.source = d.source
  BY <1>1, CloseKeeps, CloseFields DEF DocumentKept
<1>3. Begin = setStatus(k, "Loading")
  BY DEF Begin
<1> HIDE DEF k, d
<1>4. DocumentKept(Begin)
  BY <1>2, <1>3, StatusSet
<1>5. /\ Begin.status = "Loading" /\ Begin.doc = k.doc /\ Begin.stuck = k.stuck
      /\ Begin.reply = k.reply /\ Begin.loadComplete = k.loadComplete /\ Begin.source = k.source
  BY <1>2, <1>3 DEF setStatus, Document
<1>6. k.loadComplete = FALSE
  BY <1>2 DEF DocumentKept, DocInv, Document
<1>7. k.stuck = FALSE
  BY <1>1, <1>2 DEF Document
<1> QED
  BY <1>1, <1>2, <1>4, <1>5, <1>6, <1>7

\* LoadNoFile keeps the invariant.
LEMMA KeptByLoadNoFile == ASSUME PdfInv, LoadNoFile PROVE PdfInv'
<1> DEFINE b == Begin
           e == setStatus(b, "Error")
<1>1. DocumentKept(b) /\ b.doc = "none" /\ b \in Document
  BY Begins DEF LoadNoFile, DocumentKept
<1>2. Becomes(e) /\ last' = "none" /\ (fresh' => b.conn = {})
  BY DEF LoadNoFile, Loads
<1> HIDE DEF b
<1>3. e.conn = b.conn /\ e.doc = b.doc /\ e.status = "Error"
  BY <1>1 DEF setStatus, Document
<1>4. DocumentKept(e) /\ e \in Document
  BY <1>1, StatusSet DEF DocumentKept
<1> HIDE DEF e
<1>5. fresh' => FreshInv("none", e)
  BY <1>1, <1>2, <1>3, PdfConstants DEF FreshInv, PdfConstants
<1> QED
  BY <1>2, <1>4, <1>5, DocIsBecome DEF PdfInv

\* LoadFile keeps the invariant.
LEMMA KeptByLoadFile == ASSUME PdfInv, NEW f \in Files, LoadFile(f) PROVE PdfInv'
<1> DEFINE b == Begin
           d == [b EXCEPT !.device = f, !.avail = TRUE]
<1>1. /\ DocumentKept(b) /\ b.doc = "none" /\ b.status = "Loading" /\ b.stuck = FALSE
      /\ b.loadComplete = FALSE /\ b \in Document
  BY Begins DEF LoadFile, DocumentKept
<1>2. PICK e \in IF d.doc = "none" THEN tryLoadDocument(d) ELSE {d} :
             Becomes(IF e.doc = "none" THEN setStatus(e, "Error")
                     ELSE [e EXCEPT !.pageCount = PageCount,
                                    !.status = IF f = "cut" THEN "Error" ELSE "Ready"])
  BY DEF LoadFile
<1>3. last' = f /\ (fresh' => b.conn = {})
  BY DEF LoadFile, Loads
<1>4. f \notin Replies /\ f # "none" /\ f # "buffer"
  BY PdfConstants DEF PdfConstants
<1> HIDE DEF b
<1>5. /\ d \in Document /\ d.device = f /\ d.avail = TRUE
      /\ d.status = b.status /\ d.doc = b.doc /\ d.loadComplete = b.loadComplete
      /\ d.pageCount = b.pageCount /\ d.buffer = b.buffer
      /\ d.source = b.source /\ d.conn = b.conn /\ d.reply = b.reply /\ d.stuck = b.stuck
  BY <1>1 DEF Document
<1> HIDE DEF d
<1>6. DocumentKept(d)
  <2>1. "none" \notin Files /\ "none" \notin Replies
    BY PdfConstants DEF PdfConstants
  <2>2. DocInv(d)
    BY <1>1, <1>5, <2>1 DEF DocInv
  <2>3. BufferInv(d)
    BY <1>1, <1>4, <1>5, <2>1 DEF BufferInv, DocumentKept
  <2>4. StatusInv(d)
    BY <1>1, <1>5, <2>1 DEF StatusInv
  <2> QED
    BY <1>5, <2>2, <2>3, <2>4 DEF DocumentKept
<1>7. e \in tryLoadDocument(d)
  BY <1>1, <1>2, <1>5
<1>8. /\ e \in Document /\ DocInv(e) /\ BufferInv(e) /\ (e.doc = "none" => DocumentKept(e))
      /\ e.conn = d.conn /\ e.source = d.source /\ e.device = d.device
  BY <1>1, <1>4, <1>5, <1>6, <1>7, TryKeeps
<1>9. CASE e.doc = "none"
  <2> DEFINE g == setStatus(e, "Error")
  <2>1. DocumentKept(g) /\ g \in Document
    BY <1>8, <1>9, StatusSet DEF DocumentKept
  <2>2. g.conn = d.conn /\ g.device = f /\ g.status = "Error"
    BY <1>5, <1>8 DEF setStatus, Document
  <2>3. Becomes(g)
    BY <1>2, <1>9
  <2> HIDE DEF g
  <2>4. fresh' => FreshInv(f, g)
    BY <1>3, <1>4, <1>5, <2>2 DEF FreshInv
  <2> QED
    BY <1>3, <2>1, <2>3, <2>4, DocIsBecome DEF PdfInv
<1>10. CASE e.doc # "none"
  <2> DEFINE s == IF f = "cut" THEN "Error" ELSE "Ready"
             g == [e EXCEPT !.pageCount = PageCount, !.status = s]
  <2>1. s \in {"Error", "Ready"}
    OBVIOUS
  <2>2. Becomes(g)
    BY <1>2, <1>10
  <2> HIDE DEF s
  <2>3. /\ g \in Document /\ g.status = s /\ g.pageCount = PageCount
        /\ g.doc = e.doc /\ g.avail = e.avail /\ g.loadComplete = e.loadComplete
        /\ g.device = e.device /\ g.buffer = e.buffer
        /\ g.source = e.source /\ g.conn = e.conn /\ g.reply = e.reply /\ g.stuck = e.stuck
    BY <1>8, <2>1 DEF Document
  <2> HIDE DEF g
  <2>4. e.doc \in Files /\ e.doc \notin Replies
    <3>1. e.doc \notin Replies
      BY <1>4, <1>5, <1>8, PdfConstants DEF DocInv, PdfConstants
    <3> QED
      BY <1>8, <1>10, <3>1 DEF Document
  <2>5. DocumentKept(g)
    <3>1. DocInv(g)
      BY <1>8, <2>3 DEF DocInv
    <3>2. BufferInv(g)
      BY <1>8, <2>3 DEF BufferInv
    <3>3. s = "Ready" => e.doc # "cut"
      BY <1>5, <1>8, <2>4 DEF DocInv, s
    <3>4. StatusInv(g)
      BY <1>10, <2>3, <2>4, <3>3 DEF StatusInv
    <3> QED
      BY <2>3, <3>1, <3>2, <3>4 DEF DocumentKept
  <2>6. fresh' => FreshInv(f, g)
    BY <1>3, <1>4, <1>5, <1>8, <2>1, <2>3 DEF FreshInv
  <2> QED
    BY <1>3, <2>2, <2>3, <2>5, <2>6, DocIsBecome DEF PdfInv
<1> QED
  BY <1>9, <1>10

(* _q_tryLoadingWithSizeFromContentHeader() of whichever reply.            *)
LEMMA SizeKeeps ==
  ASSUME NEW d, DocumentKept(d), ~d.stuck, d.source \in Replies, NEW e \in tryLoadingWithSize(d)
  PROVE  /\ DocumentKept(e) /\ e.source = d.source /\ e.device = d.device
         /\ e.conn \subseteq d.conn \union {<<d.source, "readyRead">>}
         /\ e.status = "Null" => d.status = "Null" /\ (d.avail = FALSE => e.conn # {})
<1>0. d \in Document /\ DocInv(d) /\ BufferInv(d) /\ StatusInv(d) /\ d.avail \in BOOLEAN
  BY DEF DocumentKept, Document
<1>1. CASE d.avail
  BY <1>1 DEF tryLoadingWithSize
<1>2. CASE ~d.avail /\ d.reply[d.source].header # "length"
  <2>1. e = setStatus(d, "Error")
    BY <1>2 DEF tryLoadingWithSize
  <2>2. DocumentKept(e)
    BY <2>1, StatusSet
  <2>3. e.source = d.source /\ e.device = d.device /\ e.conn = d.conn /\ e.status = "Error"
    BY <1>0, <2>1 DEF setStatus, Document
  <2> QED
    BY <2>2, <2>3
<1>3. CASE ~d.avail /\ d.reply[d.source].header = "length"
  <2> DEFINE new == d.conn \union {<<d.source, "readyRead">>}
             c == [d EXCEPT !.conn = @ \union {<<d.source, "readyRead">>}, !.avail = TRUE]
  <2>1. e \in copyFromSource(c)
    BY <1>3 DEF tryLoadingWithSize
  <2>0. <<d.source, "readyRead">> \in Replies \X Signals /\ d.conn \in SUBSET (Replies \X Signals)
    BY <1>0 DEF Document, Signals
  <2>2. new \in SUBSET (Replies \X Signals) /\ new # {} /\ d.conn \subseteq new
    <3> DEFINE p == <<d.source, "readyRead">>
    <3>1. p \in Replies \X Signals
      BY <2>0
    <3> HIDE DEF p
    <3> QED
      BY <2>0, <3>1 DEF new, p
  <2>3. c = [d EXCEPT !.conn = new, !.avail = TRUE]
    BY <1>0 DEF Document
  <2> HIDE DEF new, c
  <2>4. /\ c \in Document /\ c.conn = new /\ c.avail = TRUE
        /\ c.status = d.status /\ c.doc = d.doc /\ c.loadComplete = d.loadComplete
        /\ c.pageCount = d.pageCount /\ c.device = d.device /\ c.buffer = d.buffer
        /\ c.source = d.source /\ c.reply = d.reply /\ c.stuck = d.stuck
    BY <1>0, <2>2, <2>3 DEF Document
  <2>5. DocInv(c)
    BY <1>0, <2>4 DEF DocInv
  <2>6. BufferInv(c)
    BY <1>0, <2>2, <2>4 DEF BufferInv
  <2>7. StatusInv(c)
    BY <1>0, <2>4 DEF StatusInv
  <2>8. DocumentKept(c)
    BY <2>4, <2>5, <2>6, <2>7 DEF DocumentKept
  <2>9. /\ DocumentKept(e) /\ e.conn = c.conn /\ e.source = c.source /\ e.device = c.device
        /\ e.status = "Null" => c.status = "Null"
    BY <2>1, <2>2, <2>4, <2>8, CopyKeeps
  <2> QED
    BY <2>2, <2>4, <2>9 DEF new
<1> QED
  BY <1>1, <1>2, <1>3

(* A reply that has read no less than before and has lost nothing it sent. *)
LEMMA ReplySet ==
  ASSUME NEW d, DocumentKept(d), NEW r \in Replies, NEW q \in ReplyState, q.unread <= q.sent,
         q.sent + d.reply[r].unread >= d.reply[r].sent + q.unread,
         q.kind = d.reply[r].kind,
         NEW e, e = [d EXCEPT !.reply[r] = q]
  PROVE  /\ DocumentKept(e) /\ e \in Document /\ e.source = d.source /\ e.device = d.device
         /\ e.conn = d.conn /\ e.status = d.status /\ e.doc = d.doc /\ e.avail = d.avail
         /\ e.stuck = d.stuck
<1> DEFINE rs == [d.reply EXCEPT ![r] = q]
<1>0. d \in Document /\ d.reply \in [Replies -> ReplyState] /\ DocInv(d) /\ BufferInv(d) /\ StatusInv(d)
  BY DEF DocumentKept, Document
<1>1. /\ rs \in [Replies -> ReplyState] /\ rs[r] = q
      /\ \A x \in Replies : x # r => rs[x] = d.reply[x]
  BY <1>0
<1>2. e = [d EXCEPT !.reply = rs]
  BY <1>0 DEF Document
<1> HIDE DEF rs
<1>3. /\ e \in Document /\ e.reply = rs
      /\ e.status = d.status /\ e.doc = d.doc /\ e.avail = d.avail
      /\ e.loadComplete = d.loadComplete /\ e.pageCount = d.pageCount
      /\ e.device = d.device /\ e.buffer = d.buffer
      /\ e.source = d.source /\ e.conn = d.conn /\ e.stuck = d.stuck
  BY <1>0, <1>1, <1>2 DEF Document
<1>4. DocInv(e)
  BY <1>0, <1>3 DEF DocInv
<1>5. BufferInv(e)
  <2>1. \A x \in Replies :
          /\ e.reply[x].unread <= e.reply[x].sent
          /\ AllFrom(e.buffer, x) => Len(e.buffer) + e.reply[x].unread <= e.reply[x].sent
    <3> SUFFICES ASSUME NEW x \in Replies
                 PROVE  /\ e.reply[x].unread <= e.reply[x].sent
                        /\ AllFrom(e.buffer, x) =>
                             Len(e.buffer) + e.reply[x].unread <= e.reply[x].sent
      OBVIOUS
    <3>1. /\ d.reply[x].unread <= d.reply[x].sent
          /\ AllFrom(d.buffer, x) => Len(d.buffer) + d.reply[x].unread <= d.reply[x].sent
      BY <1>0 DEF BufferInv
    <3>2. CASE x # r
      BY <1>1, <1>3, <3>1, <3>2
    <3>3. CASE x = r
      <4>1. /\ d.reply[r].unread \in Int /\ d.reply[r].sent \in Int
            /\ q.unread \in Int /\ q.sent \in Int /\ Len(d.buffer) \in Int
        BY <1>0, PdfConstants DEF Document, ReplyState, PdfConstants
      <4>2. e.reply[x] = q
        BY <1>1, <1>3, <3>3
      <4> QED
        BY <1>3, <3>1, <3>3, <4>1, <4>2
    <3> QED
      BY <3>2, <3>3
  <2> QED
    BY <1>0, <1>3, <2>1 DEF BufferInv
<1>6. StatusInv(e)
  <2>1. \A x \in Replies : rs[x].kind = d.reply[x].kind
    BY <1>1
  <2> QED
    BY <1>0, <1>3, <2>1 DEF StatusInv
<1> QED
  BY <1>3, <1>4, <1>5, <1>6 DEF DocumentKept

\* What the invariant says of one reply.
LEMMA PdfReplies ==
  ASSUME PdfInv, NEW r \in Replies
  PROVE  /\ DocumentKept(Doc) /\ Doc \in Document /\ reply[r] \in ReplyState /\ Doc.reply[r] = reply[r]
         /\ reply \in [Replies -> ReplyState] /\ reply[r].unread <= reply[r].sent
         /\ Doc.stuck = stuck /\ Doc.conn = conn /\ Doc.reply = reply
         /\ Units \in Nat /\ reply[r].sent \in 0 .. Units /\ reply[r].unread \in 0 .. Units
<1>1. /\ DocumentKept(Doc) /\ Doc \in Document /\ Doc.reply = reply /\ Doc.stuck = stuck /\ Doc.conn = conn
      /\ BufferInv(Doc)
  BY DEF PdfInv, DocumentKept, Doc
<1> DEFINE d == Doc
<1> HIDE DEF d
<1>2. reply \in [Replies -> ReplyState]
  BY <1>1 DEF Document
<1>3. reply[r].unread <= reply[r].sent
  BY <1>1 DEF BufferInv
<1>4. reply[r] \in ReplyState /\ Units \in Nat
  BY <1>2, PdfConstants DEF PdfConstants
<1> QED
  BY <1>1, <1>2, <1>3, <1>4 DEF ReplyState

(* A signal that changes the reply, and with it what a slot makes of it.   *)
LEMMA SignalKept ==
  ASSUME PdfInv, NEW d, NEW e, DocumentKept(e), Becomes(e), UNCHANGED <<last, fresh>>,
         d.conn = conn, d.source = source, d.device = device, d.status = status, d.avail = avail,
         e.source = d.source, e.device = d.device,
         \/ e.conn = d.conn /\ e.doc = d.doc /\ e.avail = d.avail /\ d.doc = doc
            /\ e.status \in {d.status, "Error"}
         \/ /\ d.conn # {} /\ e.conn \subseteq d.conn \union {<<d.source, "readyRead">>}
            /\ e.status = "Null" => d.status = "Null"
  PROVE  PdfInv'
<1>1. Doc' = e
  BY DocIsBecome DEF DocumentKept
<1>2. ASSUME fresh PROVE FreshInv(last, e)
  <2>1. FreshInv(last, Doc)
    BY <1>2 DEF PdfInv
  <2>2. /\ last \in Replies => conn \subseteq {last} \X Signals /\ source = last /\ device = "buffer"
        /\ last \notin Replies => conn = {}
        /\ last \in Files => device = last
        /\ last = "none" => doc = "none"
        /\ status = "Null" => conn = {} /\ avail = FALSE
    BY <2>1 DEF FreshInv, Doc
  <2>3. CASE e.conn = d.conn /\ e.doc = d.doc /\ e.avail = d.avail /\ d.doc = doc
             /\ e.status \in {d.status, "Error"}
    BY <2>2, <2>3 DEF FreshInv
  <2>4. CASE /\ d.conn # {} /\ e.conn \subseteq d.conn \union {<<d.source, "readyRead">>}
             /\ e.status = "Null" => d.status = "Null"
    <3>1. last \in Replies /\ status # "Null"
      BY <2>2, <2>4
    <3>2. <<d.source, "readyRead">> \in {last} \X Signals
      BY <2>2, <3>1 DEF Signals
    <3>3. e.conn \subseteq {last} \X Signals
      BY <2>2, <2>4, <3>1, <3>2
    <3>4. last \notin Files /\ last # "none"
      BY <3>1, PdfConstants DEF PdfConstants
    <3> QED
      BY <2>2, <2>4, <3>1, <3>3, <3>4 DEF FreshInv
  <2> QED
    BY <2>3, <2>4
<1> QED
  BY <1>1, <1>2 DEF PdfInv

\* MetaData keeps the invariant.
LEMMA KeptByMetaData == ASSUME PdfInv, NEW r \in Replies, MetaDataChanged(r) PROVE PdfInv'
<1>1. PICK h \in {"length", "none"} :
        LET d == [Doc EXCEPT !.reply[r].header = h]
        IN  \E e \in IF Connected(r, "metaDataChanged") THEN tryLoadingWithSize(d) ELSE {d} :
              Becomes(e)
  BY DEF MetaDataChanged
<1> DEFINE q == [reply[r] EXCEPT !.header = h]
           d == [Doc EXCEPT !.reply[r].header = h]
<1>2. PICK e \in IF Connected(r, "metaDataChanged") THEN tryLoadingWithSize(d) ELSE {d} : Becomes(e)
  BY <1>1
<1>3. /\ DocumentKept(Doc) /\ Doc \in Document /\ reply[r] \in ReplyState /\ Doc.reply[r] = reply[r]
      /\ reply \in [Replies -> ReplyState] /\ reply[r].unread <= reply[r].sent
      /\ Doc.stuck = stuck /\ Doc.conn = conn /\ Doc.reply = reply /\ BufferInv(Doc)
      /\ ~stuck /\ UNCHANGED <<last, fresh>>
      /\ reply[r].sent \in 0 .. Units /\ reply[r].unread \in 0 .. Units
  BY PdfReplies DEF MetaDataChanged, Running, DocumentKept
<1>4. /\ q \in ReplyState /\ q.unread = reply[r].unread /\ q.sent = reply[r].sent
      /\ q.kind = reply[r].kind
  BY <1>3 DEF ReplyState
<1>5. d = [Doc EXCEPT !.reply[r] = q]
  BY <1>3
<1>6. Doc.status = status /\ Doc.device = device /\ Doc.source = source /\ Doc.avail = avail /\ Doc.doc = doc
  BY DEF Doc
<1> HIDE DEF d, q
<1>8. /\ DocumentKept(d) /\ d \in Document /\ d.source = source /\ d.device = device
      /\ d.conn = conn /\ d.status = status /\ d.doc = doc /\ d.avail = avail /\ d.stuck = stuck
  <2> DEFINE D == Doc
  <2> HIDE DEF D
  <2>1. /\ DocumentKept(D) /\ q.unread <= q.sent /\ q.sent + D.reply[r].unread >= D.reply[r].sent + q.unread
        /\ q.kind = D.reply[r].kind
        /\ d = [D EXCEPT !.reply[r] = q]
    BY <1>3, <1>4, <1>5, <1>6 DEF D
  <2>2. /\ DocumentKept(d) /\ d \in Document /\ d.source = D.source /\ d.device = D.device
        /\ d.conn = D.conn /\ d.status = D.status /\ d.doc = D.doc /\ d.avail = D.avail
        /\ d.stuck = D.stuck
    BY <1>4, <2>1, ReplySet
  <2> QED
    BY <1>3, <1>6, <2>2 DEF D
<1>9. CASE Connected(r, "metaDataChanged")
  <2>1. conn # {} /\ e \in tryLoadingWithSize(d)
    BY <1>2, <1>9 DEF Connected
  <2>2. d.source \in Replies
    BY <1>8, <2>1 DEF DocumentKept, BufferInv
  <2>3. /\ DocumentKept(e) /\ e.source = d.source /\ e.device = d.device
        /\ e.conn \subseteq d.conn \union {<<d.source, "readyRead">>}
        /\ e.status = "Null" => d.status = "Null"
    BY <1>3, <1>8, <2>1, <2>2, SizeKeeps
  <2> QED
    BY <1>2, <1>3, <1>8, <2>1, <2>3, SignalKept
<1>10. CASE ~Connected(r, "metaDataChanged")
  <2>1. e = d
    BY <1>2, <1>10
  <2> QED
    BY <1>2, <1>3, <1>8, <2>1, SignalKept
<1> QED
  BY <1>9, <1>10

\* ReadyRead keeps the invariant.
LEMMA KeptByReadyRead == ASSUME PdfInv, NEW r \in Replies, ReadyRead(r) PROVE PdfInv'
<1> DEFINE q == [reply[r] EXCEPT !.sent = @ + 1, !.unread = @ + 1]
           d == [Doc EXCEPT !.reply[r].sent = @ + 1, !.reply[r].unread = @ + 1]
<1>2. PICK e \in IF Connected(r, "readyRead") THEN copyFromSource(d) ELSE {d} : Becomes(e)
  BY DEF ReadyRead
<1>3. /\ DocumentKept(Doc) /\ Doc \in Document /\ reply[r] \in ReplyState /\ Doc.reply[r] = reply[r]
      /\ reply \in [Replies -> ReplyState] /\ reply[r].unread <= reply[r].sent
      /\ Doc.stuck = stuck /\ Doc.conn = conn /\ Doc.reply = reply /\ BufferInv(Doc)
      /\ ~stuck /\ UNCHANGED <<last, fresh>> /\ reply[r].sent < Units
      /\ Units \in Nat /\ reply[r].sent \in 0 .. Units /\ reply[r].unread \in 0 .. Units
  BY PdfReplies DEF ReadyRead, Running, DocumentKept
<1>4. /\ q \in ReplyState /\ q.unread = reply[r].unread + 1 /\ q.sent = reply[r].sent + 1
      /\ q.kind = reply[r].kind
  <2> DEFINE n == reply[r].sent + 1
             m == reply[r].unread + 1
  <2>1. n \in 0 .. Units /\ m \in 0 .. Units
    BY <1>3
  <2>2. q = [reply[r] EXCEPT !.sent = n, !.unread = m]
    BY <1>3
  <2> HIDE DEF n, m
  <2>3. /\ [reply[r] EXCEPT !.sent = n, !.unread = m] \in ReplyState
        /\ [reply[r] EXCEPT !.sent = n, !.unread = m].unread = m
        /\ [reply[r] EXCEPT !.sent = n, !.unread = m].sent = n
        /\ [reply[r] EXCEPT !.sent = n, !.unread = m].kind = reply[r].kind
    BY <1>3, <2>1 DEF ReplyState
  <2> QED
    BY <2>2, <2>3 DEF n, m
<1>5. d = [Doc EXCEPT !.reply[r] = q]
  BY <1>3 DEF ReplyState
<1>6. Doc.status = status /\ Doc.device = device /\ Doc.source = source /\ Doc.avail = avail /\ Doc.doc = doc
  BY DEF Doc
<1> HIDE DEF d, q
<1>8. /\ DocumentKept(d) /\ d \in Document /\ d.source = source /\ d.device = device
      /\ d.conn = conn /\ d.status = status /\ d.doc = doc /\ d.avail = avail /\ d.stuck = stuck
  <2> DEFINE D == Doc
  <2> HIDE DEF D
  <2>1. /\ DocumentKept(D) /\ q.unread <= q.sent /\ q.sent + D.reply[r].unread >= D.reply[r].sent + q.unread
        /\ q.kind = D.reply[r].kind
        /\ d = [D EXCEPT !.reply[r] = q]
    BY <1>3, <1>4, <1>5, <1>6 DEF D
  <2>2. /\ DocumentKept(d) /\ d \in Document /\ d.source = D.source /\ d.device = D.device
        /\ d.conn = D.conn /\ d.status = D.status /\ d.doc = D.doc /\ d.avail = D.avail
        /\ d.stuck = D.stuck
    BY <1>4, <2>1, ReplySet
  <2> QED
    BY <1>3, <1>6, <2>2 DEF D
<1>9. CASE Connected(r, "readyRead")
  <2>1. conn # {} /\ e \in copyFromSource(d)
    BY <1>2, <1>9 DEF Connected
  <2>2. /\ DocumentKept(e) /\ e.source = d.source /\ e.device = d.device /\ e.conn = d.conn
        /\ e.status = "Null" => d.status = "Null"
    BY <1>3, <1>8, <2>1, CopyKeeps
  <2>3. e.conn \subseteq d.conn \union {<<d.source, "readyRead">>}
    BY <2>2
  <2> QED
    BY <1>2, <1>3, <1>8, <2>1, <2>2, <2>3, SignalKept
<1>10. CASE ~Connected(r, "readyRead")
  <2>1. e = d
    BY <1>2, <1>10
  <2> QED
    BY <1>2, <1>3, <1>8, <2>1, SignalKept
<1> QED
  BY <1>9, <1>10

\* Finished keeps the invariant.
LEMMA KeptByFinished ==
  ASSUME PdfInv, NEW r \in Replies, NEW end \in {"ok", "error"}, Finished(r, end) PROVE PdfInv'
<1> DEFINE q == [reply[r] EXCEPT !.end = end]
           d == [Doc EXCEPT !.reply[r].end = end]
           fails == Connected(r, "finished") /\ Failed(r, end)
           e == IF fails THEN setStatus(d, "Error") ELSE d
<1>2. Becomes(e)
  BY DEF Finished
<1>3. /\ DocumentKept(Doc) /\ Doc \in Document /\ reply[r] \in ReplyState /\ Doc.reply[r] = reply[r]
      /\ reply \in [Replies -> ReplyState] /\ reply[r].unread <= reply[r].sent
      /\ Doc.reply = reply /\ UNCHANGED <<last, fresh>>
      /\ reply[r].sent \in 0 .. Units /\ reply[r].unread \in 0 .. Units
  BY PdfReplies DEF Finished
<1>4. /\ q \in ReplyState /\ q.unread = reply[r].unread /\ q.sent = reply[r].sent
      /\ q.kind = reply[r].kind
  BY <1>3 DEF ReplyState
<1>5. d = [Doc EXCEPT !.reply[r] = q]
  BY <1>3
<1>6. /\ Doc.status = status /\ Doc.device = device /\ Doc.source = source /\ Doc.avail = avail
      /\ Doc.doc = doc /\ Doc.conn = conn
  BY DEF Doc
<1> HIDE DEF d, q, fails
<1>8. /\ DocumentKept(d) /\ d \in Document /\ d.source = source /\ d.device = device
      /\ d.conn = conn /\ d.status = status /\ d.doc = doc /\ d.avail = avail
  <2> DEFINE D == Doc
  <2> HIDE DEF D
  <2>1. /\ DocumentKept(D) /\ q.unread <= q.sent /\ q.sent + D.reply[r].unread >= D.reply[r].sent + q.unread
        /\ q.kind = D.reply[r].kind
        /\ d = [D EXCEPT !.reply[r] = q]
    BY <1>3, <1>4, <1>5, <1>6 DEF D
  <2>2. /\ DocumentKept(d) /\ d \in Document /\ d.source = D.source /\ d.device = D.device
        /\ d.conn = D.conn /\ d.status = D.status /\ d.doc = D.doc /\ d.avail = D.avail
    BY <1>4, <2>1, ReplySet
  <2> QED
    BY <1>3, <1>6, <2>2 DEF D
<1>9. DocumentKept(setStatus(d, "Error"))
  BY <1>8, StatusSet
<1>10. /\ DocumentKept(e) /\ e.source = d.source /\ e.device = d.device /\ e.conn = d.conn
       /\ e.doc = d.doc /\ e.avail = d.avail /\ e.status \in {d.status, "Error"}
  <2>1. CASE fails
    BY <1>8, <1>9, <2>1 DEF setStatus, Document
  <2>2. CASE ~fails
    BY <1>8, <2>2
  <2> QED
    BY <2>1, <2>2
<1> HIDE DEF e
<1> QED
  BY <1>2, <1>3, <1>8, <1>10, SignalKept

\* A connection to a signal of the source.
LEMMA ConnAdded ==
  ASSUME NEW d, DocumentKept(d), d.source \in Replies, NEW p \in Replies \X Signals,
         NEW e, e = [d EXCEPT !.conn = @ \union {p}]
  PROVE  /\ DocumentKept(e) /\ e \in Document /\ e.conn = d.conn \union {p}
         /\ e.source = d.source /\ e.device = d.device /\ e.status = d.status /\ e.stuck = d.stuck
<1> DEFINE k == d.conn \union {p}
<1>0. d \in Document /\ DocInv(d) /\ BufferInv(d) /\ StatusInv(d) /\ k # {}
  BY DEF DocumentKept
<1>1. k \in SUBSET (Replies \X Signals)
  BY <1>0 DEF Document
<1>2. e = [d EXCEPT !.conn = k]
  BY <1>0 DEF Document
<1> HIDE DEF k
<1>3. /\ e \in Document /\ e.conn = k
      /\ e.status = d.status /\ e.doc = d.doc /\ e.avail = d.avail
      /\ e.loadComplete = d.loadComplete /\ e.pageCount = d.pageCount
      /\ e.device = d.device /\ e.buffer = d.buffer
      /\ e.source = d.source /\ e.reply = d.reply /\ e.stuck = d.stuck
  BY <1>0, <1>1, <1>2 DEF Document
<1>4. DocInv(e)
  BY <1>0, <1>3 DEF DocInv
<1>5. BufferInv(e)
  BY <1>0, <1>3 DEF BufferInv
<1>6. StatusInv(e)
  BY <1>0, <1>3 DEF StatusInv
<1> QED
  BY <1>3, <1>4, <1>5, <1>6 DEF DocumentKept, k

\* LoadReply keeps the invariant.
LEMMA KeptByLoadReply == ASSUME PdfInv, NEW r \in Replies, LoadReply(r) PROVE PdfInv'
<1> DEFINE b == Begin
           d == [b EXCEPT !.source = r, !.device = "buffer", !.reply[r].used = TRUE]
           c == [d EXCEPT !.conn = @ \union {<<r, "finished">>}]
           m == [c EXCEPT !.conn = @ \union {<<r, "metaDataChanged">>}]
           q == [reply[r] EXCEPT !.used = TRUE]
<1>1. PICK e \in IF reply[r].end = "error" THEN {setStatus(d, "Error")}
                 ELSE IF reply[r].header = "length" THEN tryLoadingWithSize(c) ELSE {m} :
             Becomes(e)
  BY DEF LoadReply
<1>2. last' = r /\ (fresh' => b.conn = {})
  BY DEF LoadReply, Loads
<1>3. /\ DocumentKept(b) /\ b.doc = "none" /\ b.status = "Loading" /\ b.stuck = FALSE
      /\ b.loadComplete = FALSE /\ b \in Document /\ b.reply[r] = reply[r] /\ reply[r] \in ReplyState
      /\ reply[r].unread <= reply[r].sent
      /\ reply[r].sent \in 0 .. Units /\ reply[r].unread \in 0 .. Units
  BY Begins, PdfReplies DEF LoadReply, DocumentKept
<1>4. q \in ReplyState /\ q.unread = reply[r].unread /\ q.sent = reply[r].sent /\ q.kind = reply[r].kind
  BY <1>3 DEF ReplyState
<1> DEFINE u == [b EXCEPT !.reply[r] = q]
<1> HIDE DEF b
<1>5. d = [u EXCEPT !.source = r, !.device = "buffer"]
  BY <1>3 DEF Document
<1> HIDE DEF q, u
<1>6. DocumentKept(u) /\ u \in Document /\ u.conn = b.conn /\ u.status = b.status /\ u.doc = b.doc /\ u.stuck = b.stuck
  <2>1. u = [b EXCEPT !.reply[r] = q]
    BY DEF u
  <2>2. q.kind = b.reply[r].kind
    BY <1>3, <1>4
  <2>3. q.unread <= q.sent /\ q.sent + b.reply[r].unread >= b.reply[r].sent + q.unread
    BY <1>3, <1>4
  <2> QED
    BY <1>3, <1>4, <2>1, <2>2, <2>3, ReplySet
<1> HIDE DEF d
<1>7. /\ d \in Document /\ d.source = r /\ d.device = "buffer" /\ d.conn = u.conn
      /\ d.status = u.status /\ d.doc = u.doc /\ d.avail = u.avail
      /\ d.loadComplete = u.loadComplete /\ d.pageCount = u.pageCount
      /\ d.buffer = u.buffer /\ d.reply = u.reply /\ d.stuck = u.stuck
  BY <1>5, <1>6 DEF Document
<1>8. DocumentKept(d) /\ ~d.stuck
  <2>1. DocInv(u) /\ BufferInv(u) /\ StatusInv(u)
    BY <1>6 DEF DocumentKept
  <2>2. d.doc = "none" /\ d.status = "Loading"
    BY <1>3, <1>6, <1>7
  <2>3. "none" \notin Files /\ "none" \notin Replies
    BY PdfConstants DEF PdfConstants
  <2>4. DocInv(d)
    BY <1>7, <2>1, <2>2, <2>3 DEF DocInv
  <2>5. BufferInv(d)
    BY <1>7, <2>1, <2>2, <2>3 DEF BufferInv
  <2>6. StatusInv(d)
    BY <1>7, <2>1, <2>2, <2>3 DEF StatusInv
  <2> QED
    BY <1>3, <1>6, <1>7, <2>4, <2>5, <2>6 DEF DocumentKept
<1> HIDE DEF c, m
<1>9. /\ DocumentKept(c) /\ ~c.stuck /\ c \in Document /\ c.source = r /\ c.device = "buffer"
      /\ c.conn = d.conn \union {<<r, "finished">>} /\ c.status = "Loading"
  <2>1. <<r, "finished">> \in Replies \X Signals
    BY DEF Signals
  <2>2. c = [d EXCEPT !.conn = @ \union {<<r, "finished">>}]
    BY DEF c
  <2> QED
    BY <1>3, <1>6, <1>7, <1>8, <2>1, <2>2, ConnAdded
<1>10. /\ DocumentKept(m) /\ m.source = r /\ m.device = "buffer" /\ m.status = "Loading"
       /\ m.conn = c.conn \union {<<r, "metaDataChanged">>}
  <2>1. <<r, "metaDataChanged">> \in Replies \X Signals
    BY DEF Signals
  <2>2. m = [c EXCEPT !.conn = @ \union {<<r, "metaDataChanged">>}]
    BY DEF m
  <2> QED
    BY <1>9, <2>1, <2>2, ConnAdded
<1>11. /\ DocumentKept(e) /\ e \in Document /\ e.source = r /\ e.device = "buffer" /\ e.status # "Null"
       /\ e.conn \subseteq b.conn \union ({r} \X Signals)
  <2>0. {<<r, "finished">>, <<r, "readyRead">>, <<r, "metaDataChanged">>} \subseteq {r} \X Signals
    BY DEF Signals
  <2>1. CASE reply[r].end = "error"
    <3>1. e = setStatus(d, "Error")
      BY <1>1, <2>1
    <3>2. DocumentKept(e)
      BY <1>8, <3>1, StatusSet
    <3>3. e.source = d.source /\ e.device = d.device /\ e.status = "Error" /\ e.conn = d.conn
      BY <1>7, <3>1 DEF setStatus, Document
    <3> QED
      BY <1>6, <1>7, <3>2, <3>3 DEF DocumentKept
  <2>2. CASE reply[r].end # "error" /\ reply[r].header = "length"
    <3>1. e \in tryLoadingWithSize(c)
      BY <1>1, <2>2
    <3>2. /\ DocumentKept(e) /\ e.source = c.source /\ e.device = c.device
          /\ e.conn \subseteq c.conn \union {<<c.source, "readyRead">>}
          /\ e.status = "Null" => c.status = "Null"
      BY <1>9, <3>1, SizeKeeps
    <3>3. e.conn \subseteq b.conn \union {<<r, "finished">>, <<r, "readyRead">>}
      BY <1>6, <1>7, <1>9, <3>2
    <3>4. e.status # "Null"
      BY <1>9, <3>2
    <3> QED
      BY <1>9, <2>0, <3>2, <3>3, <3>4 DEF DocumentKept
  <2>3. CASE reply[r].end # "error" /\ reply[r].header # "length"
    <3>1. e = m
      BY <1>1, <2>3
    <3>2. m.conn \subseteq b.conn \union {<<r, "finished">>, <<r, "metaDataChanged">>}
      BY <1>6, <1>7, <1>9, <1>10
    <3> QED
      BY <1>10, <2>0, <3>1, <3>2 DEF DocumentKept
  <2> QED
    BY <2>1, <2>2, <2>3
<1>12. fresh' => FreshInv(r, e)
  <2>1. r \notin Files /\ r # "none"
    BY PdfConstants DEF PdfConstants
  <2> QED
    BY <1>2, <1>11, <2>1 DEF FreshInv
<1> QED
  BY <1>1, <1>2, <1>11, <1>12, DocIsBecome DEF PdfInv

\* No document, no reply loaded.
LEMMA InitialPdf == ASSUME DocumentInit PROVE PdfInv
<1>0. Units \in Nat \ {0} /\ "none" \notin Replies /\ "none" \notin Files
  BY PdfConstants DEF PdfConstants
<1>1. \A k \in {"plain", "linear", "broken"} : /\ NewReply(k) \in ReplyState
                                             /\ NewReply(k).unread = 0 /\ NewReply(k).sent = 0
  BY <1>0 DEF NewReply, ReplyState
<1>2. FailedReply \in ReplyState /\ FailedReply.unread = 0 /\ FailedReply.sent = 0
  <2>1. NewReply("plain") \in ReplyState /\ NewReply("plain").unread = 0
        /\ NewReply("plain").sent = 0
    BY <1>1
  <2> QED
    BY <2>1 DEF FailedReply, ReplyState
<1>3. \A k \in {"plain", "linear", "broken"}, h \in {"length", "none"}, e \in {"no", "past"} :
        /\ FullReply(k, h, e) \in ReplyState
        /\ FullReply(k, h, e).unread = Units /\ FullReply(k, h, e).sent = Units
  BY <1>0 DEF FullReply, ReplyState
<1>4. /\ reply \in [Replies -> ReplyState]
      /\ \A r \in Replies : reply[r].unread \in Nat /\ reply[r].sent \in Nat
                            /\ reply[r].unread <= reply[r].sent
  <2>1. \A q \in InitialReplies : q \in ReplyState /\ q.unread = q.sent /\ q.unread \in Nat
    BY <1>0, <1>1, <1>2, <1>3, PdfConstants DEF InitialReplies, PdfConstants
  <2>2. reply \in [Replies -> ReplyState]
    BY <2>1 DEF DocumentInit
  <2>3. \A r \in Replies : reply[r] \in InitialReplies
    BY DEF DocumentInit
  <2> QED
    BY <2>1, <2>2, <2>3
<1>5. /\ status = "Null" /\ doc = "none" /\ avail = FALSE /\ loadComplete = FALSE
      /\ pageCount = 0 /\ password = "none"
      /\ device = "none" /\ asyncBuffer = <<>> /\ source = "none"
      /\ conn = {} /\ last = "none" /\ stuck = FALSE
  BY DEF DocumentInit
<1> DEFINE d == Doc
<1>6. /\ d.status = "Null" /\ d.doc = "none" /\ d.avail = FALSE /\ d.loadComplete = FALSE
      /\ d.device = "none" /\ d.buffer = <<>> /\ d.source = "none"
      /\ d.conn = {} /\ d.reply = reply /\ d.stuck = FALSE
  BY <1>5 DEF Doc
<1>7. d \in Document
  <2>1. <<>> \in Seq(Replies)
    OBVIOUS
  <2> QED
    BY <1>4, <1>5, <2>1 DEF Doc, Document
<1> HIDE DEF d
<1>8. DocInv(d)
  BY <1>0, <1>6 DEF DocInv
<1>9. BufferInv(d)
  <2>1. Len(d.buffer) = 0
    BY <1>6
  <2> QED
    BY <1>0, <1>4, <1>6, <2>1 DEF BufferInv
<1>10. StatusInv(d)
  BY <1>0, <1>6 DEF StatusInv
<1>11. FreshInv(last, d)
  BY <1>0, <1>5, <1>6 DEF FreshInv
<1> QED
  BY <1>5, <1>7, <1>8, <1>9, <1>10, <1>11 DEF PdfInv, DocumentKept, d

\* Every step of the document keeps the invariant.
LEMMA StepKeepsPdf == ASSUME PdfInv, [DocumentNext]_documentVars PROVE PdfInv'
<1>1. CASE Close
  BY <1>1, KeptByClose
<1>2. CASE LoadNoFile
  BY <1>2, KeptByLoadNoFile
<1>3. CASE SetPassword
  BY <1>3, KeptByPassword
<1>4. ASSUME NEW f \in Files, LoadFile(f) PROVE PdfInv'
  BY <1>4, KeptByLoadFile
<1>5. ASSUME NEW r \in Replies, LoadReply(r) PROVE PdfInv'
  BY <1>5, KeptByLoadReply
<1>6. ASSUME NEW r \in Replies, NetStep(r) PROVE PdfInv'
  BY <1>6, KeptByMetaData, KeptByReadyRead, KeptByFinished DEF NetStep
<1>7. CASE UNCHANGED documentVars
  <2>1. UNCHANGED <<last, fresh>> /\ Doc' = Doc
    BY <1>7 DEF documentVars, Doc
  <2> QED
    BY <2>1 DEF PdfInv
<1> QED
  BY <1>1, <1>2, <1>3, <1>4, <1>5, <1>6, <1>7 DEF DocumentNext

(* What brings a load to its end: a reply that is loaded and has not ended *)
(* is connected to what is still missing, and nothing it sent waits to be  *)
(* read; one that had ended before it is loaded has its data to be read.   *)
EndsInv(r, d) ==
  d.status = "Loading" /\ ~d.stuck /\ Endable(d.reply[r]) =>
    /\ d.reply[r].end = "no" /\ <<r, "finished">> \in d.conn /\ ~d.loadComplete
    /\ d.reply[r].header = "unknown" => <<r, "metaDataChanged">> \in d.conn /\ ~d.avail
    /\ d.reply[r].header # "unknown" =>
         <<r, "readyRead">> \in d.conn /\ d.avail /\ d.reply[r].unread = 0
Unused(q) ==
  /\ q.end # "ok" /\ (q.header = "none" => q.end = "past")
  /\ q.end = "past" => q.unread = Units /\ q.header # "unknown"
UnusedInv(s, R) ==
  /\ s \in Replies => R[s].used
  /\ \A r \in Replies : ~R[r].used => Unused(R[r])
EndingInv ==
  UnusedInv(source, reply) /\ (fresh /\ last \in Replies => EndsInv(last, Doc))

\* The fields of the state after a step.
LEMMA Becoming ==
  ASSUME NEW e, Becomes(e)
  PROVE  /\ Doc'.status = e.status /\ Doc'.stuck = e.stuck /\ Doc'.reply = e.reply
         /\ Doc'.conn = e.conn /\ Doc'.avail = e.avail /\ Doc'.loadComplete = e.loadComplete
         /\ source' = e.source /\ reply' = e.reply
  BY DEF Doc, Becomes

\* A reply is replaced in the record.
LEMMA ReplyPut ==
  ASSUME NEW d \in Document, NEW r \in Replies, NEW q \in ReplyState,
         NEW e, e = [d EXCEPT !.reply[r] = q]
  PROVE  /\ e \in Document /\ e.reply[r] = q /\ \A x \in Replies : x # r => e.reply[x] = d.reply[x]
         /\ e.status = d.status /\ e.stuck = d.stuck /\ e.conn = d.conn /\ e.avail = d.avail
         /\ e.loadComplete = d.loadComplete /\ e.source = d.source
<1> DEFINE rs == [d.reply EXCEPT ![r] = q]
<1>1. /\ rs \in [Replies -> ReplyState] /\ rs[r] = q
      /\ \A x \in Replies : x # r => rs[x] = d.reply[x]
  BY DEF Document
<1>2. e = [d EXCEPT !.reply = rs]
  BY DEF Document
<1> HIDE DEF rs
<1> QED
  BY <1>1, <1>2 DEF Document

\* checkComplete() leaves replies and connections alone, and completes a
\* load with another status or not at all.
Completed(d, e) ==
  /\ e.reply = d.reply /\ e.source = d.source /\ e.conn = d.conn /\ e.avail = d.avail
  /\ e.status = "Loading" => d.status = "Loading"
  /\ ~e.stuck => ~d.stuck
  /\ e.loadComplete /\ ~d.loadComplete => e.status = "Ready" \/ e.stuck
LEMMA CompleteEnds == ASSUME NEW d \in Document PROVE Completed(d, Complete(d))
<1> DEFINE e == Complete(d)
<1>1. \/ e = [d EXCEPT !.loadComplete = TRUE, !.stuck = TRUE]
      \/ e = d
      \/ e = [d EXCEPT !.loadComplete = TRUE, !.pageCount = PageCount, !.status = "Ready"]
  BY DEF Complete
<1> SUFFICES Completed(d, e)
  OBVIOUS
<1> HIDE DEF e
<1>2. CASE e = d
  BY <1>2 DEF Completed
<1>3. CASE e = [d EXCEPT !.loadComplete = TRUE, !.stuck = TRUE]
  BY <1>3 DEF Completed, Document
<1>4. CASE e = [d EXCEPT !.loadComplete = TRUE, !.pageCount = PageCount, !.status = "Ready"]
  BY <1>4 DEF Completed, Document
<1> QED
  BY <1>1, <1>2, <1>3, <1>4

\* tryLoadDocument() does not even complete it.
LEMMA TryEnds ==
  ASSUME NEW d \in Document, NEW t \in tryLoadDocument(d)
  PROVE  t \in Document /\ t.loadComplete = d.loadComplete /\ Completed(d, t)
<1>1. \/ t = d
      \/ t = setStatus(d, "Error")
      \/ Opened(d) # "none" /\ t = [d EXCEPT !.doc = Opened(d)]
  BY DEF tryLoadDocument
<1>2. CASE t = d
  BY <1>2 DEF Completed
<1>3. CASE t = setStatus(d, "Error")
  BY <1>3 DEF Completed, setStatus, Document
<1>4. CASE Opened(d) # "none" /\ t = [d EXCEPT !.doc = Opened(d)]
  <2>1. Opened(d) \in Files \union Replies
    <3>1. CASE d.device = "buffer"
      <4>1. Opened(d) = d.buffer[1] /\ d.buffer # <<>> /\ d.buffer \in Seq(Replies)
        BY <1>4, <3>1 DEF Opened, FromOne, Document
      <4> QED
        BY <4>1
    <3>2. CASE d.device # "buffer"
      BY <1>4, <3>2 DEF Opened, Document
    <3> QED
      BY <3>1, <3>2
  <2> DEFINE x == Opened(d)
  <2>2. x \in Files \union Replies /\ t = [d EXCEPT !.doc = x]
    BY <1>4, <2>1
  <2> HIDE DEF x
  <2> QED
    BY <2>2, OpenedFields DEF Completed
<1> QED
  BY <1>1, <1>2, <1>3, <1>4

LEMMA CheckEnds ==
  ASSUME NEW d \in Document, NEW e \in checkComplete(d) PROVE Completed(d, e)
<1>1. CASE ~d.avail \/ d.loadComplete
  BY <1>1 DEF checkComplete, Completed
<1>2. CASE ~(~d.avail \/ d.loadComplete)
  <2>1. PICK t \in IF d.doc = "none" THEN tryLoadDocument(d) ELSE {d} :
          e = IF t.doc = "none" THEN t ELSE Complete(t)
    BY <1>2 DEF checkComplete
  <2>2. t \in Document /\ t.loadComplete = d.loadComplete /\ Completed(d, t)
    <3>1. CASE t = d
      BY <3>1 DEF Completed
    <3>2. CASE t \in tryLoadDocument(d)
      BY <3>2, TryEnds
    <3> QED
      BY <2>1, <3>1, <3>2
  <2>3. Completed(t, Complete(t))
    BY <2>2, CompleteEnds
  <2> QED
    BY <2>1, <2>2, <2>3 DEF Completed
<1> QED
  BY <1>1, <1>2

(* What reading a reply leaves of all of them.                             *)
SameButRead(d, e) ==
  \A r \in Replies :
    /\ e.reply[r].header = d.reply[r].header /\ e.reply[r].end = d.reply[r].end
    /\ e.reply[r].kind = d.reply[r].kind /\ e.reply[r].used = d.reply[r].used
    /\ r # d.source => e.reply[r].unread = d.reply[r].unread
LEMMA CopyEnds ==
  ASSUME NEW d \in Document, d.source \in Replies, NEW e \in copyFromSource(d)
  PROVE  /\ SameButRead(d, e) /\ e.source = d.source /\ e.conn = d.conn /\ e.avail = d.avail
         /\ e.status = "Loading" => d.status = "Loading"
         /\ ~e.stuck => ~d.stuck
         /\ ~d.loadComplete => /\ e.reply[d.source].unread = 0
                               /\ e.loadComplete => e.status = "Ready" \/ e.stuck
<1>1. CASE d.loadComplete \/ d.reply[d.source].unread = 0
  <2>1. e = d
    BY <1>1 DEF copyFromSource
  <2> QED
    BY <1>1, <2>1 DEF SameButRead
<1>2. CASE ~(d.loadComplete \/ d.reply[d.source].unread = 0)
  <2> DEFINE c == Copied(d)
  <2>1. e \in checkComplete(c)
    BY <1>2 DEF copyFromSource, Copied
  <2>2. /\ c \in Document /\ c.source = d.source /\ c.conn = d.conn /\ c.avail = d.avail
        /\ c.status = d.status /\ c.stuck = d.stuck /\ c.loadComplete = d.loadComplete
        /\ c.reply[d.source].unread = 0
    BY CopiedFields
  <2>3. SameButRead(d, c)
    <3>1. c.reply = [d.reply EXCEPT ![d.source].unread = 0]
      BY DEF Copied, Document
    <3>2. d.reply \in [Replies -> ReplyState] /\ d.reply[d.source] \in ReplyState
      BY DEF Document
    <3> DEFINE s == d.source
    <3>3. s \in Replies /\ c.reply = [d.reply EXCEPT ![s].unread = 0] /\ d.reply[s] \in ReplyState
      BY <3>1, <3>2
    <3> HIDE DEF s, c
    <3>4. \A r \in Replies : c.reply[r] = IF r = s THEN [d.reply[s] EXCEPT !.unread = 0] ELSE d.reply[r]
      BY <3>2, <3>3
    <3> QED
      BY <3>2, <3>3, <3>4 DEF SameButRead, s, ReplyState
  <2> HIDE DEF c
  <2>4. Completed(c, e)
    BY <2>1, <2>2, CheckEnds
  <2> QED
    BY <1>2, <2>2, <2>3, <2>4 DEF Completed, SameButRead
<1> QED
  BY <1>1, <1>2

\* _q_tryLoadingWithSizeFromContentHeader() connects a reply with a length
\* and reads what it has; without one the load is over.
LEMMA SizeEnds ==
  ASSUME NEW d \in Document, d.source \in Replies, NEW e \in tryLoadingWithSize(d)
  PROVE  /\ SameButRead(d, e) /\ e.source = d.source /\ d.conn \subseteq e.conn
         /\ e.status = "Loading" => d.status = "Loading"
         /\ ~e.stuck => ~d.stuck
         /\ ~d.avail /\ ~d.loadComplete /\ e.status = "Loading" /\ ~e.stuck =>
              /\ d.reply[d.source].header = "length" /\ <<d.source, "readyRead">> \in e.conn
              /\ e.avail /\ e.reply[d.source].unread = 0 /\ ~e.loadComplete
<1>1. CASE d.avail
  BY <1>1 DEF tryLoadingWithSize, SameButRead
<1>2. CASE ~d.avail /\ d.reply[d.source].header # "length"
  <2>1. e = setStatus(d, "Error")
    BY <1>2 DEF tryLoadingWithSize
  <2>2. e.status = "Error" /\ e.reply = d.reply /\ e.source = d.source /\ e.conn = d.conn /\ e.stuck = d.stuck
    BY <2>1 DEF setStatus, Document
  <2> QED
    BY <2>2 DEF SameButRead
<1>3. CASE ~d.avail /\ d.reply[d.source].header = "length"
  <2> DEFINE p   == <<d.source, "readyRead">>
             new == d.conn \union {p}
             c   == [d EXCEPT !.conn = new, !.avail = TRUE]
  <2>1. e \in copyFromSource(c)
    BY <1>3 DEF tryLoadingWithSize, Document
  <2>2. new \in SUBSET (Replies \X Signals)
    <3>1. p \in Replies \X Signals /\ d.conn \in SUBSET (Replies \X Signals)
      BY DEF Document, Signals
    <3> HIDE DEF p
    <3> QED
      BY <3>1
  <2>3. p \in new /\ d.conn \subseteq new
    OBVIOUS
  <2> HIDE DEF p, new
  <2>4. /\ c \in Document /\ c.conn = new /\ c.avail = TRUE /\ c.status = d.status
        /\ c.loadComplete = d.loadComplete /\ c.source = d.source /\ c.reply = d.reply
        /\ c.stuck = d.stuck
    BY <2>2 DEF Document
  <2> HIDE DEF c
  <2>5. /\ SameButRead(c, e) /\ e.source = c.source /\ e.conn = c.conn /\ e.avail = c.avail
        /\ e.status = "Loading" => c.status = "Loading"
        /\ ~e.stuck => ~c.stuck
        /\ ~c.loadComplete => /\ e.reply[c.source].unread = 0
                              /\ e.loadComplete => e.status = "Ready" \/ e.stuck
    BY <2>1, <2>4, CopyEnds
  <2>6. SameButRead(d, e)
    BY <2>4, <2>5 DEF SameButRead
  <2>7. ~d.loadComplete /\ e.status = "Loading" /\ ~e.stuck =>
          e.reply[d.source].unread = 0 /\ ~e.loadComplete
    BY <2>4, <2>5
  <2> QED
    BY <1>3, <2>3, <2>4, <2>5, <2>6, <2>7 DEF p
<1> QED
  BY <1>1, <1>2, <1>3

(* A whole document without a broken page becomes Ready at once.           *)
LEMMA FullEnds ==
  ASSUME NEW d \in Document, d.source \in Replies, d.device = "buffer", d.doc = "none",
         d.buffer = <<>>, ~d.loadComplete, ~d.avail, d.reply[d.source].header = "length",
         d.reply[d.source].unread = Units, d.reply[d.source].kind # "broken",
         NEW e \in tryLoadingWithSize(d)
  PROVE  e.status = "Ready"
<1> DEFINE s   == d.source
           new == d.conn \union {<<s, "readyRead">>}
           k   == [d EXCEPT !.conn = new, !.avail = TRUE]
           c   == Copied(k)
<1>0. Units \in Nat \ {0} /\ FirstPart \in 1 .. Units /\ "none" \notin Replies /\ "cut" \notin Replies
      /\ "torn" \notin Replies
  BY PdfConstants DEF PdfConstants
<1>1. e \in copyFromSource(k)
  BY DEF tryLoadingWithSize, Document
<1>2. new \in SUBSET (Replies \X Signals)
  <2> DEFINE p == <<s, "readyRead">>
  <2>1. p \in Replies \X Signals /\ d.conn \in SUBSET (Replies \X Signals)
    BY DEF Document, Signals
  <2> HIDE DEF p
  <2>2. d.conn \union {p} \in SUBSET (Replies \X Signals)
    BY <2>1
  <2> QED
    BY <2>2 DEF p
<1> HIDE DEF new
<1>3. /\ k \in Document /\ k.avail = TRUE /\ k.loadComplete = d.loadComplete /\ k.source = s
      /\ k.reply = d.reply /\ k.device = "buffer" /\ k.doc = "none" /\ k.buffer = <<>>
  BY <1>2 DEF Document
<1> HIDE DEF k
<1>4. e \in checkComplete(c)
  BY <1>0, <1>1, <1>3 DEF copyFromSource, Copied
<1>5. /\ c \in Document /\ c.avail = TRUE /\ ~c.loadComplete /\ c.device = "buffer" /\ c.doc = "none"
      /\ c.source = s /\ Len(c.buffer) = Units /\ c.reply[s].kind = d.reply[s].kind
      /\ \A i \in 1 .. Units : c.buffer[i] = s
  <2>1. /\ c \in Document /\ c.doc = k.doc /\ c.avail = k.avail /\ c.loadComplete = k.loadComplete
        /\ c.device = k.device /\ c.source = s
        /\ \A r \in Replies : c.reply[r].kind = k.reply[r].kind
        /\ Len(c.buffer) = Len(k.buffer) + k.reply[s].unread
        /\ \A i \in Len(k.buffer) + 1 .. Len(k.buffer) + k.reply[s].unread : c.buffer[i] = s
    BY <1>3, CopiedFields
  <2>2. Len(k.buffer) = 0 /\ k.reply[s].unread = Units
    BY <1>3
  <2> HIDE DEF c, s
  <2>3. Len(c.buffer) = Units /\ \A i \in 1 .. Units : c.buffer[i] = s
    BY <1>0, <2>1, <2>2
  <2>4. s \in Replies
    BY DEF s
  <2> QED
    BY <1>3, <2>1, <2>3, <2>4
<1> HIDE DEF c
<1>6. s \in Replies /\ s # "none" /\ s # "cut" /\ s # "torn"
  BY <1>0
<1> HIDE DEF s
<1>7. Opened(c) = s
  <2>1. c.buffer \in Seq(Replies) /\ DOMAIN c.buffer = 1 .. Units /\ c.buffer[1] = s
    BY <1>0, <1>5 DEF Document
  <2>2. FromOne(c.buffer)
    BY <1>0, <1>5, <2>1 DEF FromOne
  <2>3. Needed(c.reply[s]) <= Units
    BY <1>0 DEF Needed
  <2> QED
    BY <1>5, <2>1, <2>2, <2>3 DEF Opened
<1> DEFINE t == [c EXCEPT !.doc = s]
<1>8. e = Complete(t)
  <2>1. tryLoadDocument(c) = {t}
    BY <1>6, <1>7 DEF tryLoadDocument
  <2>2. t.doc = s
    BY <1>5 DEF Document
  <2> QED
    BY <1>4, <1>5, <1>6, <2>1, <2>2 DEF checkComplete
<1>9. t \in Document /\ t.doc = s /\ t.device = "buffer" /\ t.buffer = c.buffer /\ t.reply = c.reply
  BY <1>5, <1>6 DEF Document
<1> HIDE DEF t
<1>10. AllPages(t) /\ ~Broken(t)
  <2>1. AllPages(t)
    BY <1>0, <1>5, <1>9 DEF AllPages
  <2>2. c.reply[s].kind # "broken"
    BY <1>5 DEF s
  <2> QED
    BY <1>6, <1>9, <2>1, <2>2 DEF Broken
<1> QED
  BY <1>8, <1>9, <1>10 DEF Complete, Document

\* The state as a record, and what the invariant says of a load.
LEMMA EndingDoc ==
  ASSUME PdfInv
  PROVE  /\ Doc \in Document /\ Doc.status = status /\ Doc.stuck = stuck /\ Doc.reply = reply
         /\ Doc.conn = conn /\ Doc.avail = avail /\ Doc.loadComplete = loadComplete
         /\ Doc.source = source /\ DocumentKept(Doc) /\ (conn # {} => source \in Replies)
         /\ fresh /\ last \in Replies => conn \subseteq {last} \X Signals /\ source = last
<1>1. DocumentKept(Doc) /\ (fresh => FreshInv(last, Doc))
  BY DEF PdfInv
<1>2. /\ Doc.status = status /\ Doc.stuck = stuck /\ Doc.reply = reply
      /\ Doc.conn = conn /\ Doc.avail = avail /\ Doc.loadComplete = loadComplete
      /\ Doc.source = source
  BY DEF Doc
<1> QED
  BY <1>1, <1>2 DEF DocumentKept, BufferInv, FreshInv

\* Of a load that goes on in another record, the same is known there.
LEMMA EndingIs ==
  ASSUME NEW e, Becomes(e), UnusedInv(e.source, e.reply),
         fresh' /\ last' \in Replies => EndsInv(last', e)
  PROVE  EndingInv'
<1>1. /\ Doc'.status = e.status /\ Doc'.stuck = e.stuck /\ Doc'.reply = e.reply
      /\ Doc'.conn = e.conn /\ Doc'.avail = e.avail /\ Doc'.loadComplete = e.loadComplete
      /\ source' = e.source /\ reply' = e.reply
  BY Becoming
<1>2. ASSUME fresh', last' \in Replies PROVE EndsInv(last', Doc')
  BY <1>1, <1>2 DEF EndsInv
<1>3. UnusedInv(source', reply')
  BY <1>1
<1> QED
  BY <1>2, <1>3 DEF EndingInv, EndsInv, UnusedInv

\* Closing and passwords.
LEMMA EndsByClose == ASSUME PdfInv, EndingInv, Close PROVE EndingInv'
<1> DEFINE d == Doc
           e == close(d)
<1>1. /\ d \in Document /\ d.source = source /\ d.reply = reply
      /\ UnusedInv(source, reply) /\ (fresh /\ last \in Replies => EndsInv(last, d))
  BY EndingDoc DEF EndingInv
<1>2. Becomes(e) /\ UNCHANGED <<last, fresh>>
  BY DEF Close
<1> HIDE DEF d
<1>3. /\ e.source = d.source /\ e.reply = d.reply
      /\ d.doc = "none" => e = d
      /\ d.doc # "none" => e.status = "Null"
  BY <1>1, CloseFields
<1> HIDE DEF e
<1>4. fresh' /\ last' \in Replies => EndsInv(last', e)
  BY <1>1, <1>2, <1>3 DEF EndsInv
<1> QED
  BY <1>1, <1>2, <1>3, <1>4, EndingIs

LEMMA EndsByPassword == ASSUME PdfInv, EndingInv, SetPassword PROVE EndingInv'
<1> DEFINE d == Doc
           e == [d EXCEPT !.password = "right"]
<1>1. /\ d \in Document /\ d.source = source /\ d.reply = reply
      /\ UnusedInv(source, reply) /\ (fresh /\ last \in Replies => EndsInv(last, d))
  BY EndingDoc DEF EndingInv
<1>2. Becomes(e) /\ UNCHANGED <<last, fresh>>
  BY DEF SetPassword
<1> HIDE DEF d
<1>3. /\ e.status = d.status /\ e.stuck = d.stuck /\ e.reply = d.reply /\ e.conn = d.conn
      /\ e.avail = d.avail /\ e.loadComplete = d.loadComplete /\ e.source = d.source
  BY <1>1 DEF Document
<1> HIDE DEF e
<1>4. fresh' /\ last' \in Replies => EndsInv(last', e)
  BY <1>1, <1>2, <1>3 DEF EndsInv
<1> QED
  BY <1>1, <1>2, <1>3, <1>4, EndingIs

\* A load of a file has no reply.
LEMMA EndsByFile ==
  ASSUME PdfInv, EndingInv, LoadNoFile \/ \E f \in Files : LoadFile(f) PROVE EndingInv'
<1> DEFINE b == Begin
<1>1. ~stuck
  BY DEF LoadNoFile, LoadFile
<1>2. b \in Document /\ b.source = source /\ b.reply = reply /\ b.doc = "none"
  BY <1>1, Begins DEF DocumentKept
<1>3. UnusedInv(source, reply)
  BY DEF EndingInv
<1>4. CASE LoadNoFile
  <2> DEFINE e == setStatus(b, "Error")
  <2>1. Becomes(e) /\ last' = "none"
    BY <1>4 DEF LoadNoFile, Loads
  <2> HIDE DEF b
  <2>2. e.source = b.source /\ e.reply = b.reply
    BY <1>2 DEF setStatus, Document
  <2>3. last' \notin Replies
    BY <2>1, PdfConstants DEF PdfConstants
  <2> HIDE DEF e
  <2> QED
    BY <1>2, <1>3, <2>1, <2>2, <2>3, EndingIs
<1>5. ASSUME NEW f \in Files, LoadFile(f) PROVE EndingInv'
  <2> DEFINE d == [b EXCEPT !.device = f, !.avail = TRUE]
  <2>1. last' = f
    BY <1>5 DEF LoadFile, Loads
  <2>2. PICK t \in IF d.doc = "none" THEN tryLoadDocument(d) ELSE {d} :
               Becomes(IF t.doc = "none" THEN setStatus(t, "Error")
                       ELSE [t EXCEPT !.pageCount = PageCount,
                                      !.status = IF f = "cut" THEN "Error" ELSE "Ready"])
    BY <1>5 DEF LoadFile
  <2> HIDE DEF b
  <2>3. d \in Document /\ d.source = b.source /\ d.reply = b.reply /\ d.doc = "none"
    BY <1>2 DEF Document
  <2> HIDE DEF d
  <2>4. t \in Document /\ t.source = d.source /\ t.reply = d.reply
    <3>1. t \in tryLoadDocument(d)
      BY <2>2, <2>3
    <3> QED
      BY <2>3, <3>1, TryEnds DEF Completed
  <2>5. last' \notin Replies
    BY <2>1, PdfConstants DEF PdfConstants
  <2>6. CASE t.doc = "none"
    <3> DEFINE e == setStatus(t, "Error")
    <3>1. Becomes(e)
      BY <2>2, <2>6
    <3>2. e.source = t.source /\ e.reply = t.reply
      BY <2>4 DEF setStatus, Document
    <3> HIDE DEF e
    <3> QED
      BY <1>2, <1>3, <2>3, <2>4, <2>5, <3>1, <3>2, EndingIs
  <2>7. CASE t.doc # "none"
    <3> DEFINE x == IF f = "cut" THEN "Error" ELSE "Ready"
               e == [t EXCEPT !.pageCount = PageCount, !.status = x]
    <3>1. Becomes(e)
      BY <2>2, <2>7
    <3> HIDE DEF x
    <3>2. e.source = t.source /\ e.reply = t.reply
      BY <2>4 DEF Document
    <3> HIDE DEF e
    <3> QED
      BY <1>2, <1>3, <2>3, <2>4, <2>5, <3>1, <3>2, EndingIs
  <2> QED
    BY <2>6, <2>7
<1> QED
  BY <1>4, <1>5

\* The record with a reply that has got on, which is one that was loaded.
GotOn(r, q, d) ==
  /\ d \in Document /\ d.reply[r] = q /\ \A x \in Replies : x # r => d.reply[x] = reply[x]
  /\ d.status = status /\ d.stuck = stuck /\ d.conn = conn /\ d.avail = avail
  /\ d.loadComplete = loadComplete /\ d.source = source
LEMMA PutInDoc ==
  ASSUME PdfInv, NEW r \in Replies, NEW q \in ReplyState, NEW d, d = [Doc EXCEPT !.reply[r] = q]
  PROVE  GotOn(r, q, d)
<1> DEFINE D == Doc
<1>1. /\ D \in Document /\ D.status = status /\ D.stuck = stuck /\ D.reply = reply
      /\ D.conn = conn /\ D.avail = avail /\ D.loadComplete = loadComplete /\ D.source = source
  BY EndingDoc
<1>2. d = [D EXCEPT !.reply[r] = q]
  OBVIOUS
<1>3. D \in Document /\ q \in ReplyState /\ r \in Replies
  BY <1>1
<1> HIDE DEF D
<1> DEFINE rs == [D.reply EXCEPT ![r] = q]
<1>4. /\ rs \in [Replies -> ReplyState] /\ rs[r] = q
      /\ \A x \in Replies : x # r => rs[x] = D.reply[x]
  BY <1>3 DEF Document
<1>5. d = [D EXCEPT !.reply = rs]
  BY <1>2, <1>3 DEF Document
<1> HIDE DEF rs
<1>6. /\ d \in Document /\ d.reply = rs /\ d.status = D.status /\ d.stuck = D.stuck
      /\ d.conn = D.conn /\ d.avail = D.avail
      /\ d.loadComplete = D.loadComplete /\ d.source = D.source
  BY <1>3, <1>4, <1>5 DEF Document
<1> QED
  BY <1>1, <1>4, <1>6 DEF GotOn

\* What nobody has loaded stays as it is.
LEMMA UnusedStays ==
  ASSUME UnusedInv(source, reply), NEW r \in Replies, NEW q, reply[r].used, q.used,
         NEW d, GotOn(r, q, d), NEW e, SameButRead(d, e) \/ e.reply = d.reply, e.source = d.source
  PROVE  UnusedInv(e.source, e.reply)
<1>1. \A x \in Replies : d.reply[x].used = (IF x = r THEN q.used ELSE reply[x].used)
  BY DEF GotOn
<1>2. source \in Replies => d.reply[source].used
  BY <1>1 DEF UnusedInv
<1>3. \A x \in Replies : e.reply[x].used = d.reply[x].used
  BY DEF SameButRead
<1>4. e.source \in Replies => e.reply[e.source].used
  BY <1>2, <1>3 DEF GotOn
<1>5. ASSUME NEW x \in Replies, ~e.reply[x].used PROVE Unused(e.reply[x])
  <2>1. x # r /\ x # d.source
    BY <1>2, <1>3, <1>5 DEF GotOn
  <2>2. d.reply[x] = reply[x] /\ ~reply[x].used
    BY <1>3, <1>5, <2>1 DEF GotOn
  <2>3. /\ e.reply[x].end = reply[x].end /\ e.reply[x].unread = reply[x].unread
        /\ e.reply[x].header = reply[x].header
    BY <2>1, <2>2 DEF SameButRead
  <2> QED
    BY <2>2, <2>3 DEF Unused, UnusedInv
<1> QED
  BY <1>4, <1>5 DEF UnusedInv

\* A signal of a reply that is not heard, or not of the last load.
LEMMA OtherReply ==
  ASSUME EndsInv(last, Doc), PdfInv, NEW r \in Replies, NEW q, NEW d, GotOn(r, q, d),
         last \in Replies, last # r
  PROVE  EndsInv(last, d)
  BY EndingDoc DEF GotOn, EndsInv

LEMMA EndsByMetaData ==
  ASSUME PdfInv, EndingInv, NEW r \in Replies, MetaDataChanged(r) PROVE EndingInv'
<1>1. PICK h \in {"length", "none"} :
        LET d == [Doc EXCEPT !.reply[r].header = h]
        IN  \E e \in IF Connected(r, "metaDataChanged") THEN tryLoadingWithSize(d) ELSE {d} :
              Becomes(e)
  BY DEF MetaDataChanged
<1> DEFINE q == [reply[r] EXCEPT !.header = h]
           d == [Doc EXCEPT !.reply[r].header = h]
<1>2. PICK e \in IF Connected(r, "metaDataChanged") THEN tryLoadingWithSize(d) ELSE {d} : Becomes(e)
  BY <1>1
<1>3. /\ reply[r] \in ReplyState /\ Doc.reply[r] = reply[r] /\ reply[r].used /\ reply[r].end = "no"
      /\ reply[r].header = "unknown" /\ UNCHANGED <<last, fresh>> /\ UnusedInv(source, reply)
  BY PdfReplies DEF MetaDataChanged, Running, EndingInv
<1>4. /\ q \in ReplyState /\ q.kind = reply[r].kind /\ q.end = "no" /\ q.header = h /\ q.used
  BY <1>3 DEF ReplyState
<1>5. d = [Doc EXCEPT !.reply[r] = q]
  BY <1>3
<1> HIDE DEF d, q
<1>6. GotOn(r, q, d)
  BY <1>4, <1>5, PutInDoc
<1>7. /\ SameButRead(d, e) /\ e.source = d.source /\ d.conn \subseteq e.conn
      /\ e.status = "Loading" => d.status = "Loading"
      /\ ~e.stuck => ~d.stuck
      /\ ~Connected(r, "metaDataChanged") => e = d
      /\ Connected(r, "metaDataChanged") => source \in Replies /\
           (~d.avail /\ ~d.loadComplete /\ e.status = "Loading" /\ ~e.stuck =>
              /\ d.reply[d.source].header = "length" /\ <<d.source, "readyRead">> \in e.conn
              /\ e.avail /\ e.reply[d.source].unread = 0 /\ ~e.loadComplete)
  <2>1. CASE Connected(r, "metaDataChanged")
    <3>1. source \in Replies /\ d.source = source /\ d \in Document
      BY <1>6, <2>1, EndingDoc DEF Connected, GotOn
    <3> QED
      BY <1>2, <2>1, <3>1, SizeEnds
  <2>2. CASE ~Connected(r, "metaDataChanged")
    BY <1>2, <2>2 DEF SameButRead
  <2> QED
    BY <2>1, <2>2
<1>8. UnusedInv(e.source, e.reply)
  BY <1>3, <1>4, <1>6, <1>7, UnusedStays
<1>9. ASSUME fresh, last \in Replies PROVE EndsInv(last, e)
  <2>1. EndsInv(last, Doc) /\ conn \subseteq {last} \X Signals /\ source = last
    BY <1>9, EndingDoc DEF EndingInv
  <2>2. CASE last # r
    <3>1. ~Connected(r, "metaDataChanged")
      BY <2>1, <2>2 DEF Connected
    <3> QED
      BY <1>6, <1>7, <1>9, <2>1, <2>2, <3>1, OtherReply
  <2>3. CASE last = r
    <3> SUFFICES ASSUME e.status = "Loading", ~e.stuck, Endable(e.reply[r])
                 PROVE  /\ e.reply[r].end = "no" /\ <<r, "finished">> \in e.conn /\ ~e.loadComplete
                        /\ e.reply[r].header = "length" /\ <<r, "readyRead">> \in e.conn
                        /\ e.avail /\ e.reply[r].unread = 0
      BY <2>3 DEF EndsInv
    <3>1. status = "Loading" /\ ~stuck
      BY <1>6, <1>7 DEF GotOn
    <3>2. Endable(reply[r])
      BY <1>3 DEF Endable
    <3>3. /\ <<r, "finished">> \in conn /\ ~loadComplete
          /\ <<r, "metaDataChanged">> \in conn /\ ~avail
      BY <1>3, <2>1, <2>3, <3>1, <3>2, EndingDoc DEF EndsInv
    <3>4. Connected(r, "metaDataChanged") /\ d.source = r /\ d.reply[r] = q
      BY <1>6, <2>1, <2>3, <3>3 DEF Connected, GotOn
    <3>5. ~d.avail /\ ~d.loadComplete /\ d.conn = conn
      BY <1>6, <3>3 DEF GotOn
    <3>6. /\ q.header = "length" /\ <<r, "readyRead">> \in e.conn
          /\ e.avail /\ e.reply[r].unread = 0 /\ ~e.loadComplete
      BY <1>7, <3>4, <3>5
    <3>7. e.reply[r].end = q.end /\ e.reply[r].header = q.header
      BY <1>7, <3>4 DEF SameButRead
    <3> QED
      BY <1>4, <1>7, <3>3, <3>5, <3>6, <3>7
  <2> QED
    BY <2>2, <2>3
<1> QED
  BY <1>2, <1>3, <1>8, <1>9, EndingIs

LEMMA EndsByReadyRead ==
  ASSUME PdfInv, EndingInv, NEW r \in Replies, ReadyRead(r) PROVE EndingInv'
<1> DEFINE q == [reply[r] EXCEPT !.sent = @ + 1, !.unread = @ + 1]
           d == [Doc EXCEPT !.reply[r].sent = @ + 1, !.reply[r].unread = @ + 1]
<1>2. PICK e \in IF Connected(r, "readyRead") THEN copyFromSource(d) ELSE {d} : Becomes(e)
  BY DEF ReadyRead
<1>3. /\ reply[r] \in ReplyState /\ Doc.reply[r] = reply[r] /\ reply[r].used /\ reply[r].end = "no"
      /\ reply[r].header # "unknown" /\ UNCHANGED <<last, fresh>> /\ UnusedInv(source, reply)
      /\ reply[r].sent + 1 \in 0 .. Units /\ reply[r].unread + 1 \in 0 .. Units
      /\ Doc \in Document /\ Doc.reply = reply /\ reply \in [Replies -> ReplyState]
  BY PdfReplies DEF ReadyRead, Running, EndingInv
<1>4. /\ q \in ReplyState /\ q.kind = reply[r].kind /\ q.end = reply[r].end
      /\ q.header = reply[r].header /\ q.used
  BY <1>3 DEF ReplyState
<1>5. d = [Doc EXCEPT !.reply[r] = q]
  <2>1. /\ reply[r] \in ReplyState /\ Doc.reply[r] = reply[r] /\ Doc.reply = reply
        /\ reply \in [Replies -> ReplyState] /\ Units \in Nat
    BY PdfReplies
  <2> QED
    BY <2>1 DEF ReplyState
<1> HIDE DEF d, q
<1>6. GotOn(r, q, d)
  BY <1>4, <1>5, PutInDoc
<1>7. /\ SameButRead(d, e) /\ e.source = d.source /\ e.conn = d.conn /\ e.avail = d.avail
      /\ e.status = "Loading" => d.status = "Loading"
      /\ ~e.stuck => ~d.stuck
      /\ ~Connected(r, "readyRead") => e = d
      /\ Connected(r, "readyRead") => source \in Replies /\
           (~d.loadComplete => /\ e.reply[d.source].unread = 0
                               /\ e.loadComplete => e.status = "Ready" \/ e.stuck)
  <2>1. CASE Connected(r, "readyRead")
    <3>1. source \in Replies /\ d.source = source /\ d \in Document
      BY <1>6, <2>1, EndingDoc DEF Connected, GotOn
    <3> QED
      BY <1>2, <2>1, <3>1, CopyEnds
  <2>2. CASE ~Connected(r, "readyRead")
    BY <1>2, <2>2 DEF SameButRead
  <2> QED
    BY <2>1, <2>2
<1>8. UnusedInv(e.source, e.reply)
  BY <1>3, <1>4, <1>6, <1>7, UnusedStays
<1>9. ASSUME fresh, last \in Replies PROVE EndsInv(last, e)
  <2>1. EndsInv(last, Doc) /\ conn \subseteq {last} \X Signals /\ source = last
    BY <1>9, EndingDoc DEF EndingInv
  <2>2. CASE last # r
    <3>1. ~Connected(r, "readyRead")
      BY <2>1, <2>2 DEF Connected
    <3> QED
      BY <1>6, <1>7, <1>9, <2>1, <2>2, <3>1, OtherReply
  <2>3. CASE last = r
    <3> SUFFICES ASSUME e.status = "Loading", ~e.stuck, Endable(e.reply[r])
                 PROVE  /\ e.reply[r].end = "no" /\ <<r, "finished">> \in e.conn /\ ~e.loadComplete
                        /\ e.reply[r].header # "unknown" /\ <<r, "readyRead">> \in e.conn
                        /\ e.avail /\ e.reply[r].unread = 0
      BY <2>3 DEF EndsInv
    <3>1. status = "Loading" /\ ~stuck
      BY <1>6, <1>7 DEF GotOn
    <3>2. d.source = r /\ d.reply[r] = q /\ d.conn = conn /\ d.avail = avail /\ d.loadComplete = loadComplete
      BY <1>6, <2>1, <2>3 DEF GotOn
    <3>3. e.reply[r].end = q.end /\ e.reply[r].header = q.header /\ e.reply[r].kind = q.kind
      BY <1>7, <3>2 DEF SameButRead
    <3>4. Endable(reply[r])
      BY <1>4, <3>3 DEF Endable
    <3>5. /\ <<r, "finished">> \in conn /\ ~loadComplete
          /\ <<r, "readyRead">> \in conn /\ avail
      BY <1>3, <2>1, <2>3, <3>1, <3>4, EndingDoc DEF EndsInv
    <3>6. Connected(r, "readyRead")
      BY <3>5 DEF Connected
    <3>7. e.reply[r].unread = 0 /\ ~e.loadComplete
      BY <1>7, <3>2, <3>5, <3>6
    <3> QED
      BY <1>3, <1>4, <1>7, <3>2, <3>3, <3>5, <3>7
  <2> QED
    BY <2>2, <2>3
<1> QED
  BY <1>2, <1>3, <1>8, <1>9, EndingIs

LEMMA EndsByFinished ==
  ASSUME PdfInv, EndingInv, NEW r \in Replies, NEW end \in {"ok", "error"}, Finished(r, end)
  PROVE  EndingInv'
<1> DEFINE q == [reply[r] EXCEPT !.end = end]
           d == [Doc EXCEPT !.reply[r].end = end]
           fails == Connected(r, "finished") /\ Failed(r, end)
           e == IF fails THEN setStatus(d, "Error") ELSE d
<1>2. Becomes(e)
  BY DEF Finished
<1>3. /\ reply[r] \in ReplyState /\ Doc.reply[r] = reply[r] /\ reply[r].used /\ reply[r].end = "no"
      /\ (end = "ok" => reply[r].header # "unknown") /\ UNCHANGED <<last, fresh>>
      /\ UnusedInv(source, reply)
  BY PdfReplies DEF Finished, Running, EndingInv
<1>4. q \in ReplyState /\ q.kind = reply[r].kind /\ q.header = reply[r].header /\ q.used
  BY <1>3 DEF ReplyState
<1>5. d = [Doc EXCEPT !.reply[r] = q]
  BY <1>3
<1> HIDE DEF d, q
<1>6. GotOn(r, q, d)
  BY <1>4, <1>5, PutInDoc
<1> HIDE DEF fails
<1>7. e.reply = d.reply /\ e.source = d.source /\ (fails => e.status = "Error") /\ (~fails => e = d)
  <2>1. d \in Document
    BY <1>6 DEF GotOn
  <2> QED
    BY <2>1 DEF setStatus, Document
<1> HIDE DEF e
<1>8. UnusedInv(e.source, e.reply)
  BY <1>3, <1>4, <1>6, <1>7, UnusedStays
<1>9. ASSUME fresh, last \in Replies PROVE EndsInv(last, e)
  <2>1. EndsInv(last, Doc) /\ conn \subseteq {last} \X Signals /\ source = last
    BY <1>9, EndingDoc DEF EndingInv
  <2>2. CASE fails
    BY <1>7, <2>2 DEF EndsInv
  <2>3. CASE ~fails /\ last # r
    BY <1>6, <1>7, <1>9, <2>1, <2>3, OtherReply
  <2>4. CASE ~fails /\ last = r
    <3> SUFFICES ASSUME e.status = "Loading", ~e.stuck, Endable(e.reply[r]) PROVE FALSE
      BY <2>4 DEF EndsInv
    <3>1. status = "Loading" /\ ~stuck /\ e.reply[r] = q
      BY <1>6, <1>7, <2>4 DEF GotOn
    <3>2. Endable(reply[r])
      BY <1>3, <1>4, <3>1 DEF Endable
    <3>3. /\ <<r, "finished">> \in conn
          /\ reply[r].header # "unknown" => reply[r].unread = 0
      BY <2>1, <2>4, <3>1, <3>2, EndingDoc DEF EndsInv
    <3>4. Failed(r, end)
      BY <1>3, <3>3 DEF Failed
    <3> QED
      BY <2>4, <3>3, <3>4 DEF fails, Connected
  <2> QED
    BY <2>2, <2>3, <2>4
<1> QED
  BY <1>2, <1>3, <1>8, <1>9, EndingIs

\* Loading a reply connects it to what is missing; one that has all its data
\* is read at once.
LEMMA EndsByLoadReply ==
  ASSUME PdfInv, EndingInv, NEW r \in Replies, LoadReply(r) PROVE EndingInv'
<1> DEFINE b == Begin
           d == [b EXCEPT !.source = r, !.device = "buffer", !.reply[r].used = TRUE]
           c == [d EXCEPT !.conn = @ \union {<<r, "finished">>}]
           m == [c EXCEPT !.conn = @ \union {<<r, "metaDataChanged">>}]
           q == [reply[r] EXCEPT !.used = TRUE]
<1>1. PICK e \in IF reply[r].end = "error" THEN {setStatus(d, "Error")}
                 ELSE IF reply[r].header = "length" THEN tryLoadingWithSize(c) ELSE {m} :
             Becomes(e)
  BY DEF LoadReply
<1>2. last' = r /\ (fresh' => ~b.avail /\ b.conn = {})
  BY DEF LoadReply, Loads
<1>3. /\ DocumentKept(b) /\ b.doc = "none" /\ b.status = "Loading" /\ ~b.stuck
      /\ ~b.loadComplete /\ b \in Document /\ b.source = source /\ b.reply = reply
      /\ b.reply[r] = reply[r] /\ reply[r] \in ReplyState /\ ~reply[r].used
      /\ UnusedInv(source, reply)
  BY Begins, PdfReplies DEF LoadReply, DocumentKept, EndingInv
<1>4. /\ q \in ReplyState /\ q.unread = reply[r].unread /\ q.kind = reply[r].kind
      /\ q.header = reply[r].header /\ q.end = reply[r].end /\ q.used
  BY <1>3 DEF ReplyState
<1> DEFINE u == [b EXCEPT !.reply[r] = q]
<1> HIDE DEF b
<1>5. d = [u EXCEPT !.source = r, !.device = "buffer"]
  BY <1>3 DEF Document
<1> HIDE DEF q, u
<1>6. /\ u \in Document /\ u.reply[r] = q /\ \A x \in Replies : x # r => u.reply[x] = b.reply[x]
      /\ u.status = b.status /\ u.stuck = b.stuck /\ u.conn = b.conn /\ u.avail = b.avail
      /\ u.loadComplete = b.loadComplete /\ u.doc = b.doc /\ u.buffer = b.buffer
  <2>1. u = [b EXCEPT !.reply[r] = q]
    BY DEF u
  <2>2. u.doc = b.doc /\ u.buffer = b.buffer
    BY <1>3, <2>1 DEF Document
  <2> QED
    BY <1>3, <1>4, <2>1, <2>2, ReplyPut
<1> HIDE DEF d
<1>7. /\ d \in Document /\ d.source = r /\ d.device = "buffer" /\ d.conn = u.conn
      /\ d.status = u.status /\ d.doc = u.doc /\ d.avail = u.avail
      /\ d.loadComplete = u.loadComplete /\ d.buffer = u.buffer /\ d.reply = u.reply
      /\ d.stuck = u.stuck
  BY <1>5, <1>6 DEF Document
<1> HIDE DEF c, m
<1>8. /\ c \in Document /\ c.source = r /\ c.device = "buffer" /\ c.conn = d.conn \union {<<r, "finished">>}
      /\ c.status = d.status /\ c.doc = d.doc /\ c.avail = d.avail
      /\ c.loadComplete = d.loadComplete /\ c.buffer = d.buffer /\ c.reply = d.reply
      /\ c.stuck = d.stuck
  <2> DEFINE k == d.conn \union {<<r, "finished">>}
  <2>1. k \in SUBSET (Replies \X Signals)
    <3> DEFINE p == <<r, "finished">>
    <3>1. p \in Replies \X Signals /\ d.conn \in SUBSET (Replies \X Signals)
      BY <1>7 DEF Document, Signals
    <3> HIDE DEF p
    <3>2. d.conn \union {p} \in SUBSET (Replies \X Signals)
      BY <3>1
    <3> QED
      BY <3>2 DEF p
  <2>2. c = [d EXCEPT !.conn = k]
    BY <1>7 DEF c, Document
  <2> HIDE DEF k
  <2>3. /\ c \in Document /\ c.source = d.source /\ c.device = d.device /\ c.conn = k
        /\ c.status = d.status /\ c.doc = d.doc /\ c.avail = d.avail
        /\ c.loadComplete = d.loadComplete /\ c.buffer = d.buffer /\ c.reply = d.reply
        /\ c.stuck = d.stuck
    BY <1>7, <2>1, <2>2 DEF Document
  <2> QED
    BY <1>7, <2>3 DEF k
<1>9. /\ m.source = r /\ m.conn = c.conn \union {<<r, "metaDataChanged">>} /\ m.reply = c.reply
      /\ m.avail = c.avail /\ m.loadComplete = c.loadComplete
  BY <1>8 DEF m, Document
<1>10. c.reply[r] = q /\ (\A x \in Replies : x # r => c.reply[x] = reply[x]) /\ c.status = "Loading"
       /\ ~c.stuck /\ ~c.loadComplete /\ c.doc = "none" /\ <<r, "finished">> \in c.conn
       /\ c.reply = d.reply
  BY <1>3, <1>6, <1>7, <1>8
<1>11. fresh' => ~c.avail /\ c.buffer = <<>>
  <2>1. BufferInv(b)
    BY <1>3 DEF DocumentKept
  <2>2. b.conn = {} => b.buffer = <<>>
    BY <2>1 DEF BufferInv
  <2> QED
    BY <1>2, <1>6, <1>7, <1>8, <2>2
<1>12. /\ e.source = r /\ SameButRead(c, e)
       /\ (reply[r].end # "error" /\ reply[r].header = "length" => e \in tryLoadingWithSize(c))
       /\ (reply[r].end = "error" => e.status = "Error")
       /\ (reply[r].end # "error" /\ reply[r].header # "length" => e = m)
  <2>1. CASE reply[r].end = "error"
    <3>1. e = setStatus(d, "Error")
      BY <1>1, <2>1
    <3>2. e.source = d.source /\ e.reply = d.reply /\ e.status = "Error"
      BY <1>7, <3>1 DEF setStatus, Document
    <3> QED
      BY <1>7, <1>10, <2>1, <3>2 DEF SameButRead
  <2>2. CASE reply[r].end # "error" /\ reply[r].header = "length"
    <3>1. e \in tryLoadingWithSize(c)
      BY <1>1, <2>2
    <3> QED
      BY <1>8, <2>2, <3>1, SizeEnds
  <2>3. CASE reply[r].end # "error" /\ reply[r].header # "length"
    <3>1. e = m
      BY <1>1, <2>3
    <3> QED
      BY <1>9, <2>3, <3>1 DEF SameButRead
  <2> QED
    BY <2>1, <2>2, <2>3
<1>13. UnusedInv(e.source, e.reply)
  <2>1. \A x \in Replies : /\ e.reply[x].used = c.reply[x].used /\ e.reply[x].end = c.reply[x].end
                           /\ e.reply[x].header = c.reply[x].header
                           /\ x # r => e.reply[x].unread = c.reply[x].unread
    BY <1>8, <1>12 DEF SameButRead
  <2>2. e.reply[r].used
    BY <1>4, <1>10, <2>1
  <2>3. ASSUME NEW x \in Replies, ~e.reply[x].used PROVE Unused(e.reply[x])
    <3>1. x # r
      BY <2>2, <2>3
    <3>2. c.reply[x] = reply[x]
      BY <1>10, <3>1
    <3> QED
      BY <1>3, <2>1, <2>3, <3>1, <3>2 DEF Unused, UnusedInv
  <2> QED
    BY <1>12, <2>2, <2>3 DEF UnusedInv
<1>14. ASSUME fresh' PROVE EndsInv(r, e)
  <2> SUFFICES ASSUME e.status = "Loading", ~e.stuck, Endable(e.reply[r])
               PROVE  /\ e.reply[r].end = "no" /\ <<r, "finished">> \in e.conn /\ ~e.loadComplete
                      /\ e.reply[r].header = "unknown" => <<r, "metaDataChanged">> \in e.conn /\ ~e.avail
                      /\ e.reply[r].header # "unknown" =>
                           <<r, "readyRead">> \in e.conn /\ e.avail /\ e.reply[r].unread = 0
    BY DEF EndsInv
  <2>1. /\ e.reply[r].header = q.header /\ e.reply[r].end = q.end /\ e.reply[r].kind = q.kind
    BY <1>10, <1>12 DEF SameButRead
  <2>2. reply[r].end # "error"
    BY <1>12
  <2>3. Unused(reply[r])
    BY <1>3 DEF UnusedInv
  <2>4. reply[r].end \in {"no", "past"}
    BY <1>3, <2>2, <2>3 DEF ReplyState, Unused
  <2>5. CASE reply[r].header = "length"
    <3>1. e \in tryLoadingWithSize(c)
      BY <1>12, <2>2, <2>5
    <3>2. /\ c.conn \subseteq e.conn /\ <<r, "readyRead">> \in e.conn /\ e.avail
          /\ e.reply[r].unread = 0 /\ ~e.loadComplete
      <4>1. c.conn \subseteq e.conn
        BY <1>8, <3>1, SizeEnds
      <4>2. /\ <<c.source, "readyRead">> \in e.conn /\ e.avail
            /\ e.reply[c.source].unread = 0 /\ ~e.loadComplete
        BY <1>8, <1>10, <1>11, <1>14, <3>1, SizeEnds
      <4> QED
        BY <1>8, <4>1, <4>2
    <3>3. reply[r].end = "no"
      <4> SUFFICES ASSUME reply[r].end = "past" PROVE FALSE
        BY <2>4
      <4>1. q.unread = Units /\ q.kind # "broken" /\ q.header = "length"
        BY <1>4, <2>1, <2>3, <2>5 DEF Endable, Unused
      <4>2. e.status = "Ready"
        BY <1>8, <1>10, <1>11, <1>14, <3>1, <4>1, FullEnds
      <4> QED
        BY <4>2
    <3> QED
      BY <1>4, <1>10, <2>1, <2>5, <3>2, <3>3
  <2>6. CASE reply[r].header # "length"
    <3>1. e = m
      BY <1>12, <2>2, <2>6
    <3>2. reply[r].header = "unknown" /\ reply[r].end = "no"
      BY <1>3, <1>4, <2>1, <2>3, <2>4, <2>6 DEF Endable, ReplyState, Unused
    <3> QED
      BY <1>4, <1>9, <1>10, <1>11, <1>14, <2>1, <2>3, <2>4, <3>1, <3>2
  <2> QED
    BY <2>5, <2>6
<1>15. fresh' /\ last' \in Replies => EndsInv(last', e)
  BY <1>2, <1>14
<1> QED
  BY <1>1, <1>13, <1>15, EndingIs

\* Nothing is loaded; a reply whose end is past has all its data to be read.
LEMMA InitialEnding == ASSUME DocumentInit PROVE EndingInv
<1>1. \A q \in InitialReplies : Unused(q)
  BY DEF Unused, InitialReplies, NewReply, FailedReply, FullReply
<1>2. /\ \A r \in Replies : reply[r] \in InitialReplies
      /\ source = "none" /\ last = "none" /\ "none" \notin Replies
  BY PdfConstants DEF DocumentInit, PdfConstants
<1> QED
  BY <1>1, <1>2 DEF EndingInv, UnusedInv

LEMMA StepKeepsEnding == ASSUME PdfInv, EndingInv, [DocumentNext]_documentVars PROVE EndingInv'
<1>1. CASE Close
  BY <1>1, EndsByClose
<1>2. CASE LoadNoFile \/ \E f \in Files : LoadFile(f)
  BY <1>2, EndsByFile
<1>3. CASE SetPassword
  BY <1>3, EndsByPassword
<1>4. ASSUME NEW r \in Replies, LoadReply(r) PROVE EndingInv'
  BY <1>4, EndsByLoadReply
<1>5. ASSUME NEW r \in Replies, NetStep(r) PROVE EndingInv'
  BY <1>5, EndsByMetaData, EndsByReadyRead, EndsByFinished DEF NetStep
<1>6. CASE UNCHANGED documentVars
  <2>1. UNCHANGED <<last, fresh, source, reply>> /\ Doc' = Doc
    BY <1>6 DEF documentVars, Doc
  <2> QED
    BY <2>1 DEF EndingInv
<1> QED
  BY <1>1, <1>2, <1>3, <1>4, <1>5, <1>6 DEF DocumentNext

(* What is opened, buffered and shown belongs together; it is inductive.   *)
THEOREM DocumentInvariant == DocumentSpec => []PdfInv
<1>1. DocumentInit => PdfInv
  BY InitialPdf
<1>2. PdfInv /\ [DocumentNext]_documentVars => PdfInv'
  BY StepKeepsPdf
<1> QED
  BY <1>1, <1>2, PTL DEF DocumentSpec

(* "Ready" shows an open document with all its pages, and the one that was *)
(* loaded last, if nothing was left of an earlier load.                    *)
THEOREM ReadyShowsTheLastLoaded == DocumentSpec => []ReadyIsTheLastLoaded
<1>1. ASSUME PdfInv PROVE ReadyIsTheLastLoaded
  <2> SUFFICES ASSUME status = "Ready"
               PROVE  /\ doc # "none" /\ pageCount = PageCount /\ doc # "cut"
                      /\ doc \in Replies => Len(asyncBuffer) >= Units /\ reply[doc].kind # "broken"
                      /\ fresh => doc = last
    BY DEF ReadyIsTheLastLoaded
  <2>0. /\ DocumentKept(Doc) /\ Doc.status = status /\ Doc.doc = doc /\ Doc.pageCount = pageCount
        /\ Doc.buffer = asyncBuffer /\ Doc.device = device /\ Doc.source = source
        /\ Doc.reply = reply
    BY <1>1 DEF PdfInv, Doc
  <2>1. /\ doc # "none" /\ pageCount = PageCount /\ doc # "cut"
        /\ doc \in Replies => Len(asyncBuffer) >= Units /\ reply[doc].kind # "broken"
    BY <2>0 DEF DocumentKept, StatusInv
  <2>2. ASSUME fresh PROVE doc = last
    <3>1. FreshInv(last, Doc) /\ last \in Files \union Replies \union {"none"}
      BY <1>1, <2>2 DEF PdfInv
    <3>2. /\ doc \in Files \/ doc \in Replies
          /\ doc \in Files => device = doc
          /\ doc \in Replies => device = "buffer" /\ source = doc
      BY <2>0, <2>1 DEF DocumentKept, DocInv, Document
    <3>3. "buffer" \notin Files
      BY PdfConstants DEF PdfConstants
    <3>4. /\ last \in Replies => source = last /\ device = "buffer"
          /\ last \in Files => device = last
          /\ last = "none" => doc = "none"
      BY <2>0, <3>1 DEF FreshInv
    <3> QED
      BY <2>1, <3>1, <3>2, <3>3, <3>4
  <2> QED
    BY <2>1, <2>2
<1> QED
  BY <1>1, DocumentInvariant, PTL

(* PDFium reads an open document through the device of that document, with *)
(* its data alone; of a closed one nothing is left that could open again.  *)
THEOREM DocumentReadsItsOwnData == DocumentSpec => []OpenReadsItsOwnData
<1>1. ASSUME PdfInv PROVE OpenReadsItsOwnData
  <2>1. /\ DocumentKept(Doc) /\ Doc.status = status /\ Doc.doc = doc /\ Doc.avail = avail
        /\ Doc.buffer = asyncBuffer /\ Doc.device = device /\ Doc.conn = conn
    BY <1>1 DEF PdfInv, Doc
  <2>2. /\ doc # "none" => avail
        /\ doc \in Files => device = doc
        /\ doc \in Replies => device = "buffer" /\ AllFrom(asyncBuffer, doc)
        /\ conn = {} => asyncBuffer = <<>>
        /\ asyncBuffer \in Seq(Replies)
    BY <2>1 DEF DocumentKept, DocInv, BufferInv, StatusInv, Document
  <2>3. status = "Null" /\ fresh => conn = {} /\ avail = FALSE
    <3>1. fresh => FreshInv(last, Doc)
      BY <1>1 DEF PdfInv
    <3> QED
      BY <2>1, <3>1 DEF FreshInv
  <2>4. doc \in Replies => \A i \in DOMAIN asyncBuffer : asyncBuffer[i] = doc
    BY <2>2 DEF AllFrom
  <2> QED
    BY <2>2, <2>3, <2>4 DEF OpenReadsItsOwnData
<1> QED
  BY <1>1, DocumentInvariant, PTL

(* A load whose reply has ended has ended too, if nothing was left of an   *)
(* earlier one and the reply had not ended in a way that keeps the load.   *)
THEOREM LoadsEnd == DocumentSpec => []LoadEnds
<1>1. DocumentInit => EndingInv
  BY InitialEnding
<1>2. PdfInv /\ EndingInv /\ [DocumentNext]_documentVars => EndingInv'
  BY StepKeepsEnding
<1>3. ASSUME PdfInv, EndingInv PROVE LoadEnds
  <2> SUFFICES ASSUME NEW r \in Replies, fresh, last = r, reply[r].end # "no", Endable(reply[r]),
                      status = "Loading", ~stuck
               PROVE  FALSE
    BY DEF LoadEnds
  <2>1. EndsInv(r, Doc)
    BY <1>3 DEF EndingInv
  <2> QED
    BY <1>3, <2>1, EndingDoc DEF EndsInv
<1> QED
  BY <1>1, <1>2, <1>3, DocumentInvariant, PTL DEF DocumentSpec
=============================================================================

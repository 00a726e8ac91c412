---------------------------- MODULE DownloadsProofs ----------------------------
(***************************************************************************)
(* Proofs that no callback of Chromium is left without a request that will *)
(* answer it, and that, where no number was given twice, requests show     *)
(* what their items are; for any number of downloads and of saved pages.   *)
(*                                                                         *)
(* The invariant speaks of one number at a time: its item, its callbacks,  *)
(* its requests and its messages.  An operator of the delegate or of a     *)
(* request changes what belongs to one number (Effect, Step), and leaves   *)
(* to the others all that their invariant reads (View); only a new number  *)
(* (Fresh) moves currentId, which all of them read.                        *)
(***************************************************************************)
EXTENDS Downloads, FiniteSetTheorems, TLAPS

(***************************************************************************)
(* The state as a record, whose operators the functions of the delegate    *)
(* and of the requests are.                                                *)
(***************************************************************************)
ItemSet    == [kind : {"link", "page"}, state : States \union {"gone"},
               target : {"none", "asking", "set", "lost"}, observers : {0, 1}]
Updated    == [type : {"updated"}, id : Items, state : States, done : BOOLEAN]
Requested  == [type : {"requested"}, id : Items, accepted : BOOLEAN, save : BOOLEAN,
               callback : BOOLEAN]
RequestSet == [id : Items, state : States \union {"requested"}, callback : BOOLEAN,
               answered : BOOLEAN, finished : BOOLEAN, alive : BOOLEAN]
State      == [client : BOOLEAN, items : Seq(ItemSet), currentId : Nat,
               downloads : SUBSET Items, saves : SUBSET Items,
               queue : Seq(Updated \union Requested), requests : Seq(RequestSet),
               ongoing : [Items -> Nat], given : SUBSET Items, clash : BOOLEAN, dir : BOOLEAN]

(* The item of a number; one that waits for its target waits in downloads. *)
ItemInv(s, id) ==
  /\ id \in 1 .. Len(s.items) =>
       LET it == s.items[id] IN
       /\ it.observers = IF it.state = "gone" THEN 0 ELSE 1
       /\ it.state # "gone" /\ it.kind = "link" => id <= s.currentId
       /\ it.kind = "page" /\ it.state = "interrupted" => it.target # "set"
       /\ it.state = "in_progress" /\ it.target = "asking" => id \in s.downloads
  /\ id \in s.downloads => /\ id \in 1 .. Len(s.items)
                           /\ s.items[id].target = "asking" /\ s.items[id].state = "in_progress"

(* Somebody will answer for the callbacks that are kept for a number.      *)
Asks(m, id) == m.type = "requested" /\ m.id = id
Waits(r, id) == r.alive /\ ~r.answered /\ r.id = id
Comes(s, id, cb) ==
  \/ \E k \in 1 .. Len(s.queue) : Asks(s.queue[k], id) /\ s.queue[k].callback = cb
  \/ \E n \in 1 .. Len(s.requests) : Waits(s.requests[n], id) /\ s.requests[n].callback = cb
ComesInv(s, id) ==
  /\ id \in s.downloads => Comes(s, id, TRUE)
  /\ id \in s.saves => Comes(s, id, FALSE)
AskedInv(s, id) ==
  /\ \A n \in 1 .. Len(s.requests) : s.requests[n].id = id /\ s.requests[n].alive =>
       (s.requests[n].answered <=> s.requests[n].state # "requested")
  /\ \A k \in 1 .. Len(s.queue) :
       Asks(s.queue[k], id) /\ s.queue[k].accepted => s.queue[k].save
  /\ s.ongoing[id] # 0 => /\ s.ongoing[id] \in 1 .. Len(s.requests)
                          /\ s.requests[s.ongoing[id]].id = id
                          /\ s.requests[s.ongoing[id]].alive

(* Where no number was given twice: the requests of a number, and what     *)
(* they show of its item.                                                  *)
FreeInv(s, id) ==
  /\ id \in s.given => id <= s.currentId
  /\ Len(s.items) < id /\ id <= s.currentId => id \in s.given
  /\ id \in s.saves => Len(s.items) < id
  /\ \A n \in 1 .. Len(s.requests) : s.requests[n].id = id => id \in s.given
  /\ \A k \in 1 .. Len(s.queue) : Asks(s.queue[k], id) => id \in s.given
  /\ \A n, m \in 1 .. Len(s.requests) : s.requests[n].id = id /\ s.requests[m].id = id => n = m
  /\ \A k, l \in 1 .. Len(s.queue) : Asks(s.queue[k], id) /\ Asks(s.queue[l], id) => k = l
  /\ \A n \in 1 .. Len(s.requests), k \in 1 .. Len(s.queue) :
       ~(s.requests[n].id = id /\ Asks(s.queue[k], id))

Updates(m, id) == m.type = "updated" /\ m.id = id
NoUpdate(q, id) == \A k \in 1 .. Len(q) : ~Updates(q[k], id)
UpToDate(q, id, st) ==
  \E k \in 1 .. Len(q) : /\ Updates(q[k], id) /\ q[k].state = st
                         /\ \A j \in k + 1 .. Len(q) : ~Updates(q[j], id)
Shows(s, r) ==
  Found(s, r.id) =>
    \/ UpToDate(s.queue, r.id, s.items[r.id].state)
    \/ /\ NoUpdate(s.queue, r.id)
       /\ \/ r.state = s.items[r.id].state
          \/ r.state = "cancelled" /\ s.items[r.id].state = "interrupted"
WaitsFor(s, id, cb) == IF cb THEN id \in s.downloads ELSE id \in s.saves
OwnRequest(s, n) ==
  LET r == s.requests[n] IN
  /\ r.alive /\ ~r.answered => WaitsFor(s, r.id, r.callback)
  /\ r.alive /\ r.answered => Shows(s, r)
  /\ r.alive => s.ongoing[r.id] = n
  /\ ~r.alive => ~Found(s, r.id) /\ r.id \notin s.downloads \union s.saves
OwnInv(s, id) ==
  /\ \A k \in 1 .. Len(s.queue) : Asks(s.queue[k], id) => WaitsFor(s, id, s.queue[k].callback)
  /\ \A n \in 1 .. Len(s.requests) : s.requests[n].id = id => OwnRequest(s, n)

IdInv(s, id) ==
  /\ ItemInv(s, id) /\ ComesInv(s, id) /\ AskedInv(s, id)
  /\ ~s.clash => FreeInv(s, id) /\ OwnInv(s, id)
-----------------------------------------------------------------------------
(***************************************************************************)
(* Most steps are about one number and leave what concerns another (j) as  *)
(* it is; what holds of the other then still does.                         *)
(***************************************************************************)
QueueOn(q, p, j, free) ==
  /\ \A k \in 1 .. Len(q) : Asks(q[k], j) => \E l \in 1 .. Len(p) : p[l] = q[k]
  /\ \A k \in 1 .. Len(p) : Asks(p[k], j) => \E l \in 1 .. Len(q) : q[l] = p[k]
  /\ free =>
       /\ (\A k, l \in 1 .. Len(q) : Asks(q[k], j) /\ Asks(q[l], j) => k = l) =>
            (\A k, l \in 1 .. Len(p) : Asks(p[k], j) /\ Asks(p[l], j) => k = l)
       /\ NoUpdate(q, j) => NoUpdate(p, j)
       /\ \A st \in States : UpToDate(q, j, st) => UpToDate(p, j, st)

Page == [NewItem EXCEPT !.kind = "page", !.target = "set", !.observers = 1]
ItemsOn(s, e, j) ==
  /\ Len(s.items) <= Len(e.items)
  /\ j \in 1 .. Len(s.items) => e.items[j] = s.items[j]
  /\ j \in 1 .. Len(e.items) /\ j \notin 1 .. Len(s.items) => e.clash /\ e.items[j] = Page
RequestsOn(s, e, j) ==
  /\ \A n \in 1 .. Len(s.requests) : s.requests[n].id = j =>
       n \in 1 .. Len(e.requests) /\ e.requests[n] = s.requests[n]
  /\ \A n \in 1 .. Len(e.requests) : e.requests[n].id = j =>
       n \in 1 .. Len(s.requests) /\ e.requests[n] = s.requests[n]
  /\ e.ongoing[j] = s.ongoing[j]
SetsOn(s, e, j) ==
  /\ j \in e.downloads <=> j \in s.downloads
  /\ j \in e.saves <=> j \in s.saves
  /\ j \in e.given <=> j \in s.given
View(s, e, j) ==
  /\ s.clash => e.clash
  /\ ItemsOn(s, e, j) /\ RequestsOn(s, e, j) /\ SetsOn(s, e, j)
  /\ QueueOn(s.queue, e.queue, j, ~e.clash)
CurrentOn(s, e, j) ==
  /\ j <= s.currentId /\ (j <= Len(e.items) \/ ~e.clash) => j <= e.currentId
  /\ ~e.clash /\ Len(e.items) < j /\ j <= e.currentId => j <= s.currentId

(* The parts of a state.                                                   *)
LEMMA Lengths ==
  ASSUME NEW s \in State
  PROVE  /\ Len(s.items) \in Nat /\ Len(s.queue) \in Nat /\ Len(s.requests) \in Nat
         /\ DOMAIN s.items = 1 .. Len(s.items) /\ DOMAIN s.queue = 1 .. Len(s.queue)
         /\ DOMAIN s.requests = 1 .. Len(s.requests) /\ s.currentId \in Nat
         /\ \A i \in 1 .. Len(s.items) : s.items[i] \in ItemSet
         /\ \A n \in 1 .. Len(s.requests) : s.requests[n] \in RequestSet
         /\ \A k \in 1 .. Len(s.queue) : s.queue[k] \in Updated \union Requested
BY DEF State

(* The item of a saved page.                                               *)
LEMMA PageItem ==
  Page \in ItemSet /\ Page.kind = "page" /\ Page.state = "in_progress" /\ Page.target = "set"
  /\ Page.observers = 1
BY DEF Page, NewItem, ItemSet, States

(* findDownloadById() by position.                                         *)
LEMMA FoundOn ==
  ASSUME NEW s \in State, NEW id
  PROVE  Found(s, id) <=> id \in 1 .. Len(s.items) /\ s.items[id].state # "gone"
BY Lengths DEF Found

(* A queue that stays as it is.                                            *)
LEMMA QueueSame == ASSUME NEW q, NEW j, NEW free PROVE QueueOn(q, q, j, free)
BY DEF QueueOn

(* Two changes of the queue, one after the other.                          *)
LEMMA QueueThen ==
  ASSUME NEW q, NEW p, NEW r, NEW j, NEW f, NEW g \in BOOLEAN, QueueOn(q, p, j, f), QueueOn(p, r, j, g),
         g => f
  PROVE  QueueOn(q, r, j, g)
<1>1. \A k \in 1 .. Len(q) : Asks(q[k], j) => \E l \in 1 .. Len(r) : r[l] = q[k]
  <2> SUFFICES ASSUME NEW k \in 1 .. Len(q), Asks(q[k], j) PROVE \E l \in 1 .. Len(r) : r[l] = q[k]
    OBVIOUS
  <2>1. PICK l \in 1 .. Len(p) : p[l] = q[k]
    BY DEF QueueOn
  <2> QED
    BY <2>1 DEF QueueOn
<1>2. \A k \in 1 .. Len(r) : Asks(r[k], j) => \E l \in 1 .. Len(q) : q[l] = r[k]
  <2> SUFFICES ASSUME NEW k \in 1 .. Len(r), Asks(r[k], j) PROVE \E l \in 1 .. Len(q) : q[l] = r[k]
    OBVIOUS
  <2>1. PICK l \in 1 .. Len(p) : p[l] = r[k]
    BY DEF QueueOn
  <2> QED
    BY <2>1 DEF QueueOn
<1>3. ASSUME g
      PROVE  /\ (\A k, l \in 1 .. Len(q) : Asks(q[k], j) /\ Asks(q[l], j) => k = l) =>
                  (\A k, l \in 1 .. Len(r) : Asks(r[k], j) /\ Asks(r[l], j) => k = l)
             /\ NoUpdate(q, j) => NoUpdate(r, j)
             /\ \A st \in States : UpToDate(q, j, st) => UpToDate(r, j, st)
  BY <1>3 DEF QueueOn
<1> QED
  BY <1>1, <1>2, <1>3 DEF QueueOn

(* A message more is about its own number only.                            *)
LEMMA QueueAppend ==
  ASSUME NEW S, NEW q \in Seq(S), NEW m \in S, NEW j, NEW free
  PROVE  /\ Append(q, m) \in Seq(S) /\ Len(Append(q, m)) = Len(q) + 1
         /\ \A k \in 1 .. Len(q) : Append(q, m)[k] = q[k]
         /\ Append(q, m)[Len(q) + 1] = m
         /\ m.id # j => QueueOn(q, Append(q, m), j, free)
<1> DEFINE p == Append(q, m)
<1>1. /\ p \in Seq(S) /\ Len(p) = Len(q) + 1 /\ Len(q) \in Nat
      /\ \A k \in 1 .. Len(q) : p[k] = q[k]
      /\ p[Len(q) + 1] = m
  OBVIOUS
<1> HIDE DEF p
<1>2. ASSUME m.id # j PROVE QueueOn(q, p, j, free)
  <2>1. \A k \in 1 .. Len(p) : k = Len(q) + 1 \/ k \in 1 .. Len(q)
    BY <1>1
  <2>2. \A k \in 1 .. Len(q) : k \in 1 .. Len(p)
    BY <1>1
  <2>3. \A k \in 1 .. Len(p) : Asks(p[k], j) \/ Updates(p[k], j) => k \in 1 .. Len(q) /\ p[k] = q[k]
    BY <1>1, <1>2, <2>1 DEF Asks, Updates
  <2>4. /\ \A k \in 1 .. Len(q) : Asks(q[k], j) => \E l \in 1 .. Len(p) : p[l] = q[k]
        /\ \A k \in 1 .. Len(p) : Asks(p[k], j) => \E l \in 1 .. Len(q) : q[l] = p[k]
    BY <1>1, <2>2, <2>3
  <2>5. (\A k, l \in 1 .. Len(q) : Asks(q[k], j) /\ Asks(q[l], j) => k = l) =>
            (\A k, l \in 1 .. Len(p) : Asks(p[k], j) /\ Asks(p[l], j) => k = l)
    BY <2>3
  <2>6. NoUpdate(q, j) => NoUpdate(p, j)
    BY <2>3 DEF NoUpdate
  <2>7. \A st \in States : UpToDate(q, j, st) => UpToDate(p, j, st)
    <3> SUFFICES ASSUME NEW st \in States, UpToDate(q, j, st) PROVE UpToDate(p, j, st)
      OBVIOUS
    <3>1. PICK k \in 1 .. Len(q) : /\ Updates(q[k], j) /\ q[k].state = st
                                   /\ \A i \in k + 1 .. Len(q) : ~Updates(q[i], j)
      BY DEF UpToDate
    <3>2. \A i \in k + 1 .. Len(p) : i \in 1 .. Len(p) /\ (i \in 1 .. Len(q) => i \in k + 1 .. Len(q))
      BY <1>1
    <3>3. \A i \in k + 1 .. Len(p) : ~Updates(p[i], j)
      BY <2>3, <3>1, <3>2
    <3> QED
      BY <1>1, <2>2, <3>1, <3>3 DEF UpToDate
  <2> QED
    BY <2>4, <2>5, <2>6, <2>7 DEF QueueOn
<1> QED
  BY <1>1, <1>2 DEF p

(* So is the message that is taken.                                        *)
LEMMA QueueTail ==
  ASSUME NEW S, NEW q \in Seq(S), q # <<>>, NEW j, NEW free
  PROVE  /\ Tail(q) \in Seq(S) /\ Len(Tail(q)) = Len(q) - 1 /\ Head(q) = q[1] /\ Len(q) \in Nat
         /\ Len(q) > 0 /\ q[1] \in S
         /\ \A k \in 1 .. Len(q) - 1 : Tail(q)[k] = q[k + 1]
         /\ q[1].id # j => QueueOn(q, Tail(q), j, free)
<1> DEFINE p == Tail(q)
<1>1. /\ p \in Seq(S) /\ Len(p) = Len(q) - 1 /\ Len(q) \in Nat /\ Len(q) > 0 /\ Head(q) = q[1]
      /\ q[1] \in S /\ \A k \in 1 .. Len(q) - 1 : p[k] = q[k + 1]
  OBVIOUS
<1> HIDE DEF p
<1>2. ASSUME q[1].id # j PROVE QueueOn(q, p, j, free)
  <2>1. \A k \in 1 .. Len(q) : k = 1 \/ (k - 1 \in 1 .. Len(p) /\ p[k - 1] = q[k])
    <3> SUFFICES ASSUME NEW k \in 1 .. Len(q), k # 1 PROVE k - 1 \in 1 .. Len(p) /\ p[k - 1] = q[k]
      OBVIOUS
    <3>1. k - 1 \in 1 .. Len(q) - 1 /\ (k - 1) + 1 = k
      BY <1>1
    <3> QED
      BY <1>1, <3>1
  <2>2. \A k \in 1 .. Len(p) : k + 1 \in 1 .. Len(q) /\ p[k] = q[k + 1]
    BY <1>1
  <2>3. \A k \in 1 .. Len(q) : Asks(q[k], j) \/ Updates(q[k], j) =>
          k - 1 \in 1 .. Len(p) /\ p[k - 1] = q[k]
    BY <1>2, <2>1 DEF Asks, Updates
  <2>4. /\ \A k \in 1 .. Len(q) : Asks(q[k], j) => \E l \in 1 .. Len(p) : p[l] = q[k]
        /\ \A k \in 1 .. Len(p) : Asks(p[k], j) => \E l \in 1 .. Len(q) : q[l] = p[k]
    BY <2>2, <2>3
  <2>5. (\A k, l \in 1 .. Len(q) : Asks(q[k], j) /\ Asks(q[l], j) => k = l) =>
            (\A k, l \in 1 .. Len(p) : Asks(p[k], j) /\ Asks(p[l], j) => k = l)
    <3> SUFFICES ASSUME \A k, l \in 1 .. Len(q) : Asks(q[k], j) /\ Asks(q[l], j) => k = l,
                        NEW k \in 1 .. Len(p), NEW l \in 1 .. Len(p), Asks(p[k], j), Asks(p[l], j)
                 PROVE  k = l
      OBVIOUS
    <3>1. k + 1 = l + 1
      BY <2>2
    <3> QED
      BY <3>1
  <2>6. NoUpdate(q, j) => NoUpdate(p, j)
    BY <2>2 DEF NoUpdate
  <2>7. \A st \in States : UpToDate(q, j, st) => UpToDate(p, j, st)
    <3> SUFFICES ASSUME NEW st \in States, UpToDate(q, j, st) PROVE UpToDate(p, j, st)
      OBVIOUS
    <3>1. PICK k \in 1 .. Len(q) : /\ Updates(q[k], j) /\ q[k].state = st
                                   /\ \A i \in k + 1 .. Len(q) : ~Updates(q[i], j)
      BY DEF UpToDate
    <3>2. k - 1 \in 1 .. Len(p) /\ p[k - 1] = q[k]
      BY <2>3, <3>1
    <3>3. \A i \in (k - 1) + 1 .. Len(p) : i \in 1 .. Len(p) /\ i + 1 \in k + 1 .. Len(q)
      BY <1>1
    <3>4. \A i \in (k - 1) + 1 .. Len(p) : ~Updates(p[i], j)
      BY <2>2, <3>1, <3>3
    <3> QED
      BY <3>1, <3>2, <3>4 DEF UpToDate
  <2> QED
    BY <2>4, <2>5, <2>6, <2>7 DEF QueueOn
<1> QED
  BY <1>1, <1>2 DEF p

(* An update more, for a number of which nothing is known.                 *)
LEMMA QueueUpdate ==
  ASSUME NEW S, NEW q \in Seq(S), NEW m \in S, NEW j, m.type = "updated"
  PROVE  QueueOn(q, Append(q, m), j, FALSE)
<1> DEFINE p == Append(q, m)
<1>1. /\ Len(p) = Len(q) + 1 /\ Len(q) \in Nat
      /\ \A k \in 1 .. Len(q) : p[k] = q[k]
      /\ p[Len(q) + 1] = m
  OBVIOUS
<1> HIDE DEF p
<1>2. /\ \A k \in 1 .. Len(p) : k = Len(q) + 1 \/ k \in 1 .. Len(q)
      /\ \A k \in 1 .. Len(q) : k \in 1 .. Len(p)
  BY <1>1
<1>3. \A k \in 1 .. Len(p) : Asks(p[k], j) => k \in 1 .. Len(q) /\ p[k] = q[k]
  BY <1>1, <1>2 DEF Asks
<1> QED
  BY <1>1, <1>2, <1>3 DEF QueueOn, p

(* What two steps leave alone, both together do.                           *)
LEMMA ViewThen ==
  ASSUME NEW s \in State, NEW t \in State, NEW e \in State, NEW j \in Items,
         View(s, t, j), View(t, e, j)
  PROVE  View(s, e, j)
<1>1. s.clash => e.clash
  BY DEF View
<1>2. ItemsOn(s, e, j)
  <2>1. /\ ItemsOn(s, t, j) /\ ItemsOn(t, e, j) /\ (t.clash => e.clash)
        /\ Len(s.items) \in Nat /\ Len(t.items) \in Nat /\ Len(e.items) \in Nat
    BY Lengths DEF View
  <2>2. Len(s.items) <= Len(e.items) /\ (j \in 1 .. Len(s.items) => j \in 1 .. Len(t.items))
    BY <2>1 DEF ItemsOn
  <2> QED
    BY <2>1, <2>2 DEF ItemsOn
<1>3. RequestsOn(s, e, j)
  BY DEF RequestsOn, View
<1>4. SetsOn(s, e, j)
  BY DEF SetsOn, View
<1>5. QueueOn(s.queue, e.queue, j, ~e.clash)
  <2>1. /\ QueueOn(s.queue, t.queue, j, ~t.clash) /\ QueueOn(t.queue, e.queue, j, ~e.clash)
        /\ (~e.clash => ~t.clash) /\ (~e.clash) \in BOOLEAN
    BY DEF View
  <2> QED
    BY <2>1, QueueThen
<1> QED
  BY <1>1, <1>2, <1>3, <1>4, <1>5 DEF View

(* An answer for another number still comes.                               *)
LEMMA ComesOn ==
  ASSUME NEW s \in State, NEW e \in State, NEW j \in Items, NEW cb, View(s, e, j), Comes(s, j, cb)
  PROVE  Comes(e, j, cb)
<1>1. CASE \E k \in 1 .. Len(s.queue) : Asks(s.queue[k], j) /\ s.queue[k].callback = cb
  <2>1. PICK k \in 1 .. Len(s.queue) : Asks(s.queue[k], j) /\ s.queue[k].callback = cb
    BY <1>1
  <2>2. PICK l \in 1 .. Len(e.queue) : e.queue[l] = s.queue[k]
    BY <2>1 DEF View, QueueOn
  <2> QED
    BY <2>1, <2>2 DEF Comes
<1>2. CASE \E n \in 1 .. Len(s.requests) : Waits(s.requests[n], j) /\ s.requests[n].callback = cb
  <2>1. PICK n \in 1 .. Len(s.requests) : Waits(s.requests[n], j) /\ s.requests[n].callback = cb
    BY <1>2
  <2>2. n \in 1 .. Len(e.requests) /\ e.requests[n] = s.requests[n]
    BY <2>1 DEF View, RequestsOn, Waits
  <2> QED
    BY <2>1, <2>2 DEF Comes
<1> QED
  BY <1>1, <1>2 DEF Comes

(* The invariant of a number that a step leaves alone.                     *)
LEMMA ViewKeeps ==
  ASSUME NEW s \in State, NEW e \in State, NEW j \in Items, IdInv(s, j),
         View(s, e, j), CurrentOn(s, e, j)
  PROVE  IdInv(e, j)
<1>1. /\ Len(s.items) \in Nat /\ Len(e.items) \in Nat /\ j \in Nat /\ j >= 1
      /\ s.currentId \in Nat /\ e.currentId \in Nat
      /\ \A i \in 1 .. Len(s.items) : s.items[i] \in ItemSet
  BY Lengths, DownloadConstants DEF Items, DownloadConstants
<1>2. ItemInv(s, j) /\ ComesInv(s, j) /\ AskedInv(s, j) /\ (~s.clash => FreeInv(s, j) /\ OwnInv(s, j))
  BY DEF IdInv
<1>3. ItemsOn(s, e, j) /\ RequestsOn(s, e, j) /\ SetsOn(s, e, j) /\ (s.clash => e.clash)
      /\ QueueOn(s.queue, e.queue, j, ~e.clash)
  BY DEF View
<1>4. ItemInv(e, j)
  <2>1. CASE j \in 1 .. Len(s.items)
    BY <1>1, <1>2, <1>3, <2>1 DEF ItemInv, ItemsOn, SetsOn, CurrentOn
  <2>2. CASE j \notin 1 .. Len(s.items)
    BY <1>1, <1>2, <1>3, <2>2, PageItem DEF ItemInv, ItemsOn, SetsOn
  <2> QED
    BY <2>1, <2>2
<1>5. ComesInv(e, j)
  BY <1>2, <1>3, ComesOn DEF ComesInv, SetsOn
<1>6. AskedInv(e, j)
  <2>1. \A n \in 1 .. Len(e.requests) : e.requests[n].id = j /\ e.requests[n].alive =>
          (e.requests[n].answered <=> e.requests[n].state # "requested")
    BY <1>2, <1>3 DEF AskedInv, RequestsOn
  <2>2. \A k \in 1 .. Len(e.queue) : Asks(e.queue[k], j) /\ e.queue[k].accepted => e.queue[k].save
    <3> SUFFICES ASSUME NEW k \in 1 .. Len(e.queue), Asks(e.queue[k], j), e.queue[k].accepted
                 PROVE  e.queue[k].save
      OBVIOUS
    <3>1. PICK l \in 1 .. Len(s.queue) : s.queue[l] = e.queue[k]
      BY <1>3 DEF QueueOn
    <3> QED
      BY <1>2, <3>1 DEF AskedInv
  <2>3. e.ongoing[j] # 0 => /\ e.ongoing[j] \in 1 .. Len(e.requests)
                            /\ e.requests[e.ongoing[j]].id = j
                            /\ e.requests[e.ongoing[j]].alive
    BY <1>2, <1>3 DEF AskedInv, RequestsOn
  <2> QED
    BY <2>1, <2>2, <2>3 DEF AskedInv
<1>7. ASSUME ~e.clash PROVE FreeInv(e, j)
  <2>0. FreeInv(s, j) /\ (j \in 1 .. Len(e.items) => j \in 1 .. Len(s.items))
    BY <1>2, <1>3, <1>7 DEF ItemsOn
  <2>1. /\ j \in e.given => j <= e.currentId
        /\ Len(e.items) < j /\ j <= e.currentId => j \in e.given
        /\ j \in e.saves => Len(e.items) < j
    BY <1>1, <1>3, <1>7, <2>0 DEF FreeInv, ItemsOn, SetsOn, CurrentOn
  <2>2. \A n \in 1 .. Len(e.requests) : e.requests[n].id = j => j \in e.given
    BY <1>3, <2>0 DEF FreeInv, RequestsOn, SetsOn
  <2>3. \A k \in 1 .. Len(e.queue) : Asks(e.queue[k], j) =>
          \E l \in 1 .. Len(s.queue) : s.queue[l] = e.queue[k]
    BY <1>3 DEF QueueOn
  <2>4. \A k \in 1 .. Len(e.queue) : Asks(e.queue[k], j) => j \in e.given
    BY <1>3, <2>0, <2>3 DEF FreeInv, SetsOn
  <2>5. \A n, m \in 1 .. Len(e.requests) : e.requests[n].id = j /\ e.requests[m].id = j => n = m
    BY <1>3, <2>0 DEF FreeInv, RequestsOn
  <2>6. \A k, l \in 1 .. Len(e.queue) : Asks(e.queue[k], j) /\ Asks(e.queue[l], j) => k = l
    BY <1>3, <1>7, <2>0 DEF FreeInv, QueueOn
  <2>7. \A n \in 1 .. Len(e.requests), k \in 1 .. Len(e.queue) :
          ~(e.requests[n].id = j /\ Asks(e.queue[k], j))
    BY <1>3, <2>0, <2>3 DEF FreeInv, RequestsOn
  <2> QED
    BY <2>1, <2>2, <2>4, <2>5, <2>6, <2>7 DEF FreeInv
<1>8. ASSUME ~e.clash PROVE OwnInv(e, j)
  <2>0. OwnInv(s, j)
    BY <1>2, <1>3, <1>8
  <2>1. Found(e, j) <=> Found(s, j)
    BY <1>3, <1>8, FoundOn DEF ItemsOn
  <2>2. Found(s, j) => e.items[j] = s.items[j] /\ s.items[j].state \in States
    BY <1>1, <1>3, FoundOn DEF ItemsOn, ItemSet
  <2>3. \A k \in 1 .. Len(e.queue) : Asks(e.queue[k], j) => WaitsFor(e, j, e.queue[k].callback)
    <3> SUFFICES ASSUME NEW k \in 1 .. Len(e.queue), Asks(e.queue[k], j)
                 PROVE  WaitsFor(e, j, e.queue[k].callback)
      OBVIOUS
    <3>1. PICK l \in 1 .. Len(s.queue) : s.queue[l] = e.queue[k]
      BY <1>3 DEF QueueOn
    <3> QED
      BY <1>3, <2>0, <3>1 DEF OwnInv, WaitsFor, SetsOn
  <2>4. \A n \in 1 .. Len(e.requests) : e.requests[n].id = j => OwnRequest(e, n)
    <3> SUFFICES ASSUME NEW n \in 1 .. Len(e.requests), e.requests[n].id = j
                 PROVE  OwnRequest(e, n)
      OBVIOUS
    <3> DEFINE r == e.requests[n]
    <3>1. n \in 1 .. Len(s.requests) /\ s.requests[n] = r /\ e.ongoing[j] = s.ongoing[j] /\ r.id = j
      BY <1>3 DEF RequestsOn
    <3> HIDE DEF r
    <3>2. OwnRequest(s, n)
      BY <2>0, <3>1 DEF OwnInv
    <3>3. r.alive /\ ~r.answered => WaitsFor(e, j, r.callback)
      BY <1>3, <3>1, <3>2 DEF OwnRequest, WaitsFor, SetsOn
    <3>4. Shows(s, r) => Shows(e, r)
      BY <1>3, <1>8, <2>1, <2>2, <3>1 DEF Shows, QueueOn
    <3>5. /\ r.alive /\ r.answered => Shows(s, r)
          /\ r.alive => e.ongoing[j] = n
          /\ ~r.alive => ~Found(e, j) /\ j \notin e.downloads \union e.saves
      BY <1>3, <2>1, <3>1, <3>2 DEF OwnRequest, SetsOn
    <3> QED
      BY <3>1, <3>3, <3>4, <3>5 DEF OwnRequest, r
  <2> QED
    BY <2>3, <2>4 DEF OwnInv
<1> QED
  BY <1>4, <1>5, <1>6, <1>7, <1>8 DEF IdInv
-----------------------------------------------------------------------------
(***************************************************************************)
(* What the operators do: they are about one number, and post no request.  *)
(***************************************************************************)
Grown(q, p) ==
  /\ \A k \in 1 .. Len(q) : k \in 1 .. Len(p) /\ p[k] = q[k]
  /\ \A k \in 1 .. Len(p) : k \notin 1 .. Len(q) => p[k].type = "updated"
Effect(s, e, id) ==
  /\ e \in State /\ e.client = s.client /\ e.currentId = s.currentId /\ e.given = s.given
  /\ e.dir = s.dir /\ (s.clash => e.clash) /\ Len(s.items) <= Len(e.items)
  /\ Grown(s.queue, e.queue) /\ (~s.client => e.queue = s.queue)
  /\ \A j \in Items : j # id => View(s, e, j)
SameAsks(s, e) == e.requests = s.requests /\ e.ongoing = s.ongoing /\ e.clash = s.clash
SameSets(s, e) == e.downloads = s.downloads /\ e.saves = s.saves

(* Nothing done.                                                           *)
LEMMA EffectNone == ASSUME NEW s \in State, NEW id PROVE Effect(s, s, id)
<1>1. Len(s.items) \in Nat /\ Grown(s.queue, s.queue)
  BY Lengths DEF Grown
<1>2. \A j \in Items : View(s, s, j)
  BY <1>1, QueueSame DEF View, ItemsOn, RequestsOn, SetsOn
<1> QED
  BY <1>1, <1>2 DEF Effect

(* One operator after the other.                                           *)
LEMMA EffectThen ==
  ASSUME NEW s \in State, NEW t, NEW e, NEW id, Effect(s, t, id), Effect(t, e, id)
  PROVE  Effect(s, e, id)
<1>1. /\ t \in State /\ e \in State /\ Len(s.items) \in Nat /\ Len(t.items) \in Nat
      /\ Len(e.items) \in Nat
  BY Lengths DEF Effect
<1>2. Grown(s.queue, e.queue)
  BY DEF Effect, Grown
<1>3. \A j \in Items : j # id => View(s, e, j)
  BY <1>1, ViewThen DEF Effect
<1>4. Len(s.items) <= Len(e.items)
  BY <1>1 DEF Effect
<1> QED
  BY <1>1, <1>2, <1>3, <1>4 DEF Effect

(* An item is replaced.                                                    *)
LEMMA ItemSetTo ==
  ASSUME NEW s \in State, NEW i \in 1 .. Len(s.items), NEW it \in ItemSet,
         NEW e, e = [s EXCEPT !.items[i] = it]
  PROVE  /\ Effect(s, e, i) /\ SameAsks(s, e) /\ SameSets(s, e) /\ e.queue = s.queue
         /\ Len(e.items) = Len(s.items) /\ e.items[i] = it
         /\ \A j \in 1 .. Len(s.items) : j # i => e.items[j] = s.items[j]
<1> DEFINE f == [s.items EXCEPT ![i] = it]
<1>1. /\ f \in Seq(ItemSet) /\ Len(f) = Len(s.items) /\ f[i] = it
      /\ \A j \in 1 .. Len(s.items) : j # i => f[j] = s.items[j]
  BY DEF State
<1>2. e = [s EXCEPT !.items = f]
  BY DEF State
<1> HIDE DEF f
<1>3. /\ e \in State /\ e.items = f
      /\ e.client = s.client /\ e.currentId = s.currentId /\ e.downloads = s.downloads
      /\ e.saves = s.saves /\ e.queue = s.queue /\ e.requests = s.requests
      /\ e.ongoing = s.ongoing /\ e.given = s.given /\ e.clash = s.clash /\ e.dir = s.dir
  BY <1>1, <1>2 DEF State
<1>4. Len(s.items) \in Nat /\ Grown(s.queue, e.queue)
  BY <1>3, Lengths DEF Grown
<1>5. \A j \in Items : j # i => View(s, e, j)
  <2> SUFFICES ASSUME NEW j \in Items, j # i PROVE View(s, e, j)
    OBVIOUS
  <2>1. ItemsOn(s, e, j)
    BY <1>1, <1>3, <1>4 DEF ItemsOn
  <2>2. RequestsOn(s, e, j) /\ SetsOn(s, e, j)
    BY <1>3 DEF RequestsOn, SetsOn
  <2> QED
    BY <1>3, <2>1, <2>2, QueueSame DEF View
<1>6. SameAsks(s, e) /\ SameSets(s, e)
  BY <1>3 DEF SameAsks, SameSets
<1>7. Effect(s, e, i)
  BY <1>1, <1>3, <1>4, <1>5 DEF Effect
<1> QED
  BY <1>1, <1>3, <1>6, <1>7

(* Post() adds a message, if there is somebody to read it.                 *)
LEMMA PostKeeps ==
  ASSUME NEW s \in State, NEW m \in Updated \union Requested
  PROVE  LET e == Post(s, m) IN
         /\ e \in State /\ SameAsks(s, e) /\ SameSets(s, e) /\ e.items = s.items
         /\ e.client = s.client /\ e.currentId = s.currentId /\ e.given = s.given /\ e.dir = s.dir
         /\ e.queue = IF s.client THEN Append(s.queue, m) ELSE s.queue
<1> DEFINE q == Append(s.queue, m)
<1>1. q \in Seq(Updated \union Requested)
  BY QueueAppend DEF State
<1>2. CASE ~s.client
  BY <1>2 DEF Post, SameAsks, SameSets
<1>3. CASE s.client
  <2> DEFINE e == Post(s, m)
  <2>1. e = [s EXCEPT !.queue = q]
    BY <1>3 DEF Post, Posted, State
  <2> HIDE DEF q, e
  <2>2. /\ e \in State /\ e.queue = q
        /\ e.client = s.client /\ e.currentId = s.currentId /\ e.downloads = s.downloads
        /\ e.saves = s.saves /\ e.items = s.items /\ e.requests = s.requests
        /\ e.ongoing = s.ongoing /\ e.given = s.given /\ e.clash = s.clash /\ e.dir = s.dir
    BY <1>1, <2>1 DEF State
  <2> QED
    BY <1>3, <2>2 DEF SameAsks, SameSets, q, e
<1> QED
  BY <1>2, <1>3

(* OnDownloadUpdated() of an item that is observed.                        *)
Watched(s, i) == s.items[i].observers = IF s.items[i].state = "gone" THEN 0 ELSE 1
(* Notify() posts what the item is.                                        *)
LEMMA Notified ==
  ASSUME NEW s \in State, NEW i \in Items, i \in 1 .. Len(s.items), Watched(s, i)
  PROVE  LET e == Notify(s, i) IN
         /\ Effect(s, e, i) /\ SameAsks(s, e) /\ SameSets(s, e) /\ e.items = s.items
         /\ s.client /\ s.items[i].state # "gone" => UpToDate(e.queue, i, s.items[i].state)
         /\ s.clash => \A id \in Items : Effect(s, e, id)
<1> DEFINE it == s.items[i]
           e == Notify(s, i)
           m == [type |-> "updated", id |-> i, state |-> it.state,
                 done |-> it.state \in {"complete", "cancelled"} \/ it.target = "lost"]
<1>0. it \in ItemSet /\ s.queue \in Seq(Updated \union Requested) /\ Len(s.items) \in Nat
      /\ Len(s.queue) \in Nat
  BY Lengths DEF State
<1>1. CASE it.observers = 0
  <2>1. e = s /\ it.state = "gone"
    BY <1>1 DEF Notify, Watched
  <2> QED
    BY <2>1, EffectNone DEF SameAsks, SameSets
<1>2. CASE it.observers # 0
  <2>1. it.state \in States
    BY <1>0, <1>2 DEF Watched, ItemSet
  <2>2. m \in Updated /\ m.id = i /\ m.state = it.state /\ m.type = "updated"
    BY <2>1 DEF Updated
  <2>3. e = Post(s, m)
    BY <1>2 DEF Notify
  <2> HIDE DEF m, e
  <2>4. /\ e \in State /\ SameAsks(s, e) /\ SameSets(s, e) /\ e.items = s.items
        /\ e.client = s.client /\ e.currentId = s.currentId /\ e.given = s.given /\ e.dir = s.dir
        /\ e.queue = IF s.client THEN Append(s.queue, m) ELSE s.queue
    BY <2>2, <2>3, PostKeeps
  <2> DEFINE p == Append(s.queue, m)
  <2>5. /\ Len(p) = Len(s.queue) + 1
        /\ \A k \in 1 .. Len(s.queue) : p[k] = s.queue[k]
        /\ p[Len(s.queue) + 1] = m
        /\ \A j \in Items : m.id # j => QueueOn(s.queue, p, j, ~e.clash)
    BY <1>0, <2>2, QueueAppend
  <2> HIDE DEF p
  <2>6. Grown(s.queue, p) /\ Grown(s.queue, s.queue)
    <3>1. \A k \in 1 .. Len(p) : k \in 1 .. Len(s.queue) \/ k = Len(s.queue) + 1
      BY <1>0, <2>5
    <3> QED
      BY <1>0, <2>2, <2>5, <3>1 DEF Grown
  <2>7. \A j \in Items : j # i \/ s.clash => View(s, e, j)
    <3> SUFFICES ASSUME NEW j \in Items, j # i \/ s.clash PROVE View(s, e, j)
      OBVIOUS
    <3>0. QueueOn(s.queue, p, j, FALSE)
      BY <1>0, <2>2, QueueUpdate DEF p
    <3>00. e.clash = s.clash /\ s.clash \in BOOLEAN
      BY <2>4 DEF SameAsks, State
    <3>1. QueueOn(s.queue, e.queue, j, ~e.clash)
      <4>1. CASE j # i
        BY <2>2, <2>4, <2>5, <4>1, QueueSame DEF p
      <4>2. CASE s.clash
        <5>1. (~e.clash) = FALSE
          BY <3>00, <4>2
        <5> QED
          BY <2>4, <3>0, <5>1, QueueSame DEF p
      <4> QED
        BY <4>1, <4>2
    <3> QED
      BY <1>0, <2>4, <3>1 DEF View, ItemsOn, RequestsOn, SetsOn, SameAsks, SameSets
  <2>8. UpToDate(p, i, it.state)
    <3>1. /\ Len(p) \in 1 .. Len(p) /\ p[Len(p)] = m
          /\ \A k \in Len(p) + 1 .. Len(p) : FALSE
      BY <1>0, <2>5
    <3>2. Updates(p[Len(p)], i) /\ p[Len(p)].state = it.state
      BY <2>2, <3>1 DEF Updates
    <3> QED
      BY <3>1, <3>2 DEF UpToDate
  <2>9. Grown(s.queue, e.queue)
    BY <2>4, <2>6 DEF p
  <2>10. Effect(s, e, i) /\ (s.clash => \A id \in Items : Effect(s, e, id))
    BY <1>0, <2>4, <2>7, <2>9 DEF Effect, SameAsks
  <2> QED
    BY <2>4, <2>8, <2>10 DEF p, e
<1> QED
  BY <1>1, <1>2

(* CancelItem() of an item that can still be cancelled.                    *)
LEMMA Cancelled ==
  ASSUME NEW s \in State, NEW i \in Items, i \in 1 .. Len(s.items), Watched(s, i)
  PROVE  LET e == CancelItem(s, i) IN
         /\ Effect(s, e, i) /\ SameAsks(s, e) /\ SameSets(s, e) /\ Len(e.items) = Len(s.items)
         /\ \/ /\ s.items[i].state \notin {"in_progress", "interrupted"} /\ e = s
            \/ /\ s.items[i].state \in {"in_progress", "interrupted"}
               /\ e.items[i] = [s.items[i] EXCEPT !.state = "cancelled", !.target = "none"]
               /\ s.client => UpToDate(e.queue, i, "cancelled")
<1> DEFINE it == [s.items[i] EXCEPT !.state = "cancelled", !.target = "none"]
           t == [s EXCEPT !.items[i] = it]
           e == CancelItem(s, i)
<1>0. s.items[i] \in ItemSet
  BY Lengths
<1>1. CASE s.items[i].state \notin {"in_progress", "interrupted"}
  <2>1. e = s
    BY <1>1 DEF CancelItem
  <2> QED
    BY <1>1, <2>1, EffectNone DEF SameAsks, SameSets
<1>2. CASE s.items[i].state \in {"in_progress", "interrupted"}
  <2>1. it \in ItemSet /\ it.state = "cancelled" /\ it.observers = 1
    BY <1>0, <1>2 DEF ItemSet, States, Watched
  <2>2. e = Notify(t, i)
    <3>1. t = [s EXCEPT !.items[i].state = "cancelled", !.items[i].target = "none"]
      BY DEF State
    <3> QED
      BY <1>2, <3>1 DEF CancelItem
  <2> HIDE DEF it, t
  <2>3. /\ Effect(s, t, i) /\ SameAsks(s, t) /\ SameSets(s, t) /\ t.queue = s.queue
        /\ Len(t.items) = Len(s.items) /\ t.items[i] = it
    BY <2>1, ItemSetTo DEF t
  <2>4. t \in State /\ Watched(t, i) /\ i \in 1 .. Len(t.items) /\ t.client = s.client
    BY <2>1, <2>3 DEF Effect, Watched
  <2>5. /\ Effect(t, e, i) /\ SameAsks(t, e) /\ SameSets(t, e) /\ e.items = t.items
        /\ t.client /\ t.items[i].state # "gone" => UpToDate(e.queue, i, t.items[i].state)
    BY <2>2, <2>4, Notified
  <2>6. Effect(s, e, i)
    BY <2>3, <2>5, EffectThen
  <2> QED
    BY <1>2, <2>1, <2>3, <2>4, <2>5, <2>6 DEF SameAsks, SameSets, it, e
<1> QED
  BY <1>1, <1>2

(* ProvideTarget().                                                        *)
LEMMA TargetProvided ==
  ASSUME NEW s \in State, NEW i \in Items, i \in 1 .. Len(s.items), Watched(s, i)
  PROVE  LET e == ProvideTarget(s, i) IN
         /\ Effect(s, e, i) /\ SameAsks(s, e) /\ SameSets(s, e) /\ Len(e.items) = Len(s.items)
         /\ e.items[i] = [s.items[i] EXCEPT !.target = "set"]
         /\ s.client /\ s.items[i].state # "gone" => UpToDate(e.queue, i, s.items[i].state)
<1> DEFINE it == [s.items[i] EXCEPT !.target = "set"]
           t == [s EXCEPT !.items[i] = it]
           e == ProvideTarget(s, i)
<1>0. s.items[i] \in ItemSet
  BY Lengths
<1>1. it \in ItemSet /\ it.state = s.items[i].state /\ it.observers = s.items[i].observers
  BY <1>0 DEF ItemSet
<1>2. e = Notify(t, i)
  <2>1. t = [s EXCEPT !.items[i].target = "set"]
    BY DEF State
  <2> QED
    BY <2>1 DEF ProvideTarget
<1> HIDE DEF it, t
<1>3. /\ Effect(s, t, i) /\ SameAsks(s, t) /\ SameSets(s, t) /\ t.queue = s.queue
      /\ Len(t.items) = Len(s.items) /\ t.items[i] = it
  BY <1>1, ItemSetTo DEF t
<1>4. t \in State /\ Watched(t, i) /\ i \in 1 .. Len(t.items) /\ t.client = s.client
  BY <1>1, <1>3 DEF Effect, Watched
<1>5. /\ Effect(t, e, i) /\ SameAsks(t, e) /\ SameSets(t, e) /\ e.items = t.items
      /\ t.client /\ t.items[i].state # "gone" => UpToDate(e.queue, i, t.items[i].state)
  BY <1>2, <1>4, Notified
<1>6. Effect(s, e, i)
  BY <1>3, <1>5, EffectThen
<1> QED
  BY <1>1, <1>3, <1>4, <1>5, <1>6 DEF SameAsks, SameSets, it, e

(* Erase() of the callbacks of a number.                                   *)
LEMMA Erased ==
  ASSUME NEW s \in State, NEW id \in Items
  PROVE  LET e == Erase(s, id) IN
         /\ Effect(s, e, id) /\ SameAsks(s, e) /\ e.items = s.items /\ e.queue = s.queue
         /\ e.downloads = s.downloads \ {id} /\ e.saves = s.saves \ {id}
<1> DEFINE e == Erase(s, id)
           d == s.downloads \ {id}
           v == s.saves \ {id}
<1>1. d \in SUBSET Items /\ v \in SUBSET Items
  BY DEF State
<1>2. e = [s EXCEPT !.downloads = d, !.saves = v]
  BY DEF Erase
<1>0. \A j \in Items : j # id => (j \in d <=> j \in s.downloads) /\ (j \in v <=> j \in s.saves)
  OBVIOUS
<1> HIDE DEF d, v, e
<1>3. /\ e \in State /\ e.downloads = d /\ e.saves = v
      /\ e.client = s.client /\ e.currentId = s.currentId /\ e.items = s.items
      /\ e.queue = s.queue /\ e.requests = s.requests
      /\ e.ongoing = s.ongoing /\ e.given = s.given /\ e.clash = s.clash /\ e.dir = s.dir
  BY <1>1, <1>2 DEF State
<1>4. Len(s.items) \in Nat /\ Grown(s.queue, e.queue)
  BY <1>3, Lengths DEF Grown
<1>5. \A j \in Items : j # id => View(s, e, j)
  BY <1>0, <1>3, <1>4, QueueSame DEF View, ItemsOn, RequestsOn, SetsOn
<1>6. Effect(s, e, id)
  BY <1>3, <1>4, <1>5 DEF Effect
<1> QED
  BY <1>3, <1>6 DEF SameAsks, d, v, e

(* cancelDownload().                                                       *)
LEMMA DownloadCancelled ==
  ASSUME NEW s \in State, NEW id \in Items, id \in 1 .. Len(s.items) => Watched(s, id)
  PROVE  LET e == cancelDownload(s, id) IN
         /\ Effect(s, e, id) /\ SameAsks(s, e) /\ Len(e.items) = Len(s.items)
         /\ e.downloads = s.downloads \ {id} /\ e.saves = s.saves \ {id}
         /\ id \in 1 .. Len(s.items) =>
              \/ /\ s.items[id].state \notin {"in_progress", "interrupted"}
                 /\ e.items = s.items /\ e.queue = s.queue
              \/ /\ s.items[id].state \in {"in_progress", "interrupted"}
                 /\ e.items[id] = [s.items[id] EXCEPT !.state = "cancelled", !.target = "none"]
                 /\ s.client => UpToDate(e.queue, id, "cancelled")
<1> DEFINE t == Erase(s, id)
           e == cancelDownload(s, id)
<1>1. /\ Effect(s, t, id) /\ SameAsks(s, t) /\ t.items = s.items /\ t.queue = s.queue
      /\ t.downloads = s.downloads \ {id} /\ t.saves = s.saves \ {id}
  BY Erased
<1>2. e = IF Found(s, id) THEN CancelItem(t, id) ELSE t
  BY DEF cancelDownload
<1> HIDE DEF t, e
<1>3. t \in State /\ t.client = s.client /\ (id \in 1 .. Len(s.items) => Watched(t, id))
  BY <1>1 DEF Effect, Watched
<1>4. CASE Found(s, id)
  <2>0. id \in 1 .. Len(t.items) /\ id \in 1 .. Len(s.items)
    BY <1>1, <1>4, FoundOn
  <2>1. e = CancelItem(t, id)
    BY <1>2, <1>4
  <2>2. /\ Effect(t, e, id) /\ SameAsks(t, e) /\ SameSets(t, e) /\ Len(e.items) = Len(t.items)
        /\ \/ /\ t.items[id].state \notin {"in_progress", "interrupted"} /\ e = t
           \/ /\ t.items[id].state \in {"in_progress", "interrupted"}
              /\ e.items[id] = [t.items[id] EXCEPT !.state = "cancelled", !.target = "none"]
              /\ t.client => UpToDate(e.queue, id, "cancelled")
    BY <1>3, <2>0, <2>1, Cancelled
  <2>3. Effect(s, e, id)
    BY <1>1, <2>2, EffectThen
  <2> QED
    BY <1>1, <1>3, <2>2, <2>3 DEF SameAsks, SameSets, e
<1>5. CASE ~Found(s, id)
  <2>1. e = t
    BY <1>2, <1>5
  <2>2. id \in 1 .. Len(s.items) => s.items[id].state \notin {"in_progress", "interrupted"}
    BY <1>5, FoundOn
  <2> QED
    BY <1>1, <2>1, <2>2 DEF e
<1> QED
  BY <1>4, <1>5

(* removeDownload().                                                       *)
LEMMA DownloadRemoved ==
  ASSUME NEW s \in State, NEW id \in Items, id \in 1 .. Len(s.items) => Watched(s, id)
  PROVE  LET e == removeDownload(s, id) IN
         /\ Effect(s, e, id) /\ SameAsks(s, e) /\ Len(e.items) = Len(s.items)
         /\ e.downloads = s.downloads \ {id} /\ e.saves = s.saves \ {id}
         /\ id \in 1 .. Len(s.items) =>
              e.items[id].state = "gone" /\ e.items[id].observers = 0
<1> DEFINE t == Erase(s, id)
           c == CancelItem(t, id)
           e == removeDownload(s, id)
<1>1. /\ Effect(s, t, id) /\ SameAsks(s, t) /\ t.items = s.items /\ t.queue = s.queue
      /\ t.downloads = s.downloads \ {id} /\ t.saves = s.saves \ {id}
  BY Erased
<1>2. e = IF Found(s, id) THEN [c EXCEPT !.items[id] = GoneItem] ELSE t
  BY DEF removeDownload
<1>3. t \in State /\ t.client = s.client /\ (id \in 1 .. Len(s.items) => Watched(t, id))
  BY <1>1 DEF Effect, Watched
<1>4. GoneItem \in ItemSet /\ GoneItem.state = "gone" /\ GoneItem.observers = 0
  BY DEF GoneItem, NewItem, ItemSet, States
<1> HIDE DEF t, e
<1>5. CASE Found(s, id)
  <2>0. id \in 1 .. Len(t.items) /\ id \in 1 .. Len(s.items)
    BY <1>1, <1>5, FoundOn
  <2>1. /\ Effect(t, c, id) /\ SameAsks(t, c) /\ SameSets(t, c) /\ Len(c.items) = Len(t.items)
    BY <1>3, <2>0, Cancelled
  <2>2. e = [c EXCEPT !.items[id] = GoneItem]
    BY <1>2, <1>5
  <2>3. c \in State /\ id \in 1 .. Len(c.items)
    BY <2>0, <2>1 DEF Effect
  <2> HIDE DEF c
  <2>4. /\ Effect(c, e, id) /\ SameAsks(c, e) /\ SameSets(c, e) /\ e.queue = c.queue
        /\ Len(e.items) = Len(c.items) /\ e.items[id] = GoneItem
    BY <1>4, <2>2, <2>3, ItemSetTo
  <2>5. Effect(s, e, id)
    BY <1>1, <2>1, <2>4, EffectThen
  <2> QED
    BY <1>1, <1>4, <2>1, <2>4, <2>5 DEF SameAsks, SameSets, e
<1>6. CASE ~Found(s, id)
  <2>1. e = t
    BY <1>2, <1>6
  <2>2. id \in 1 .. Len(s.items) => s.items[id].state = "gone" /\ Watched(s, id)
    BY <1>6, FoundOn
  <2> QED
    BY <1>1, <2>1, <2>2 DEF e, Watched
<1> QED
  BY <1>5, <1>6

(* The application's answer about the target of an item.                   *)
LEMMA TargetDetermined ==
  ASSUME NEW s \in State, NEW id \in Items, NEW accepted, id \in s.downloads,
         id \in 1 .. Len(s.items), Watched(s, id), s.items[id].state = "in_progress"
  PROVE  LET e == downloadTargetDetermined(s, id, accepted) IN
         /\ Effect(s, e, id) /\ SameAsks(s, e) /\ Len(e.items) = Len(s.items)
         /\ e.downloads = s.downloads \ {id} /\ e.saves = s.saves
         /\ e.items[id].kind = s.items[id].kind /\ e.items[id].observers = 1
         /\ e.items[id].target # "asking" /\ e.items[id].state \in {"in_progress", "cancelled"}
         /\ s.client => UpToDate(e.queue, id, e.items[id].state)
<1> DEFINE e == downloadTargetDetermined(s, id, accepted)
           d == s.downloads \ {id}
           t == [s EXCEPT !.downloads = d]
           yes == accepted /\ Found(s, id) /\ s.dir
<1>1. e = IF yes THEN ProvideTarget(t, id) ELSE CancelItem(t, id)
  BY DEF downloadTargetDetermined, NoTarget, CancelTarget
<1>2. d \in SUBSET Items /\ \A j \in Items : j # id => (j \in d <=> j \in s.downloads)
  BY DEF State
<1>0. s.items[id] \in ItemSet
  BY Lengths
<1> HIDE DEF e, d, yes
<1>3. /\ t \in State /\ t.downloads = d /\ t.saves = s.saves
      /\ t.client = s.client /\ t.currentId = s.currentId /\ t.items = s.items
      /\ t.queue = s.queue /\ t.requests = s.requests
      /\ t.ongoing = s.ongoing /\ t.given = s.given /\ t.clash = s.clash /\ t.dir = s.dir
  BY <1>2 DEF State
<1> HIDE DEF t
<1>4. Effect(s, t, id)
  <2>1. Len(s.items) \in Nat /\ Grown(s.queue, t.queue)
    BY <1>3, Lengths DEF Grown
  <2>2. \A j \in Items : j # id => View(s, t, j)
    BY <1>2, <1>3, <2>1, QueueSame DEF View, ItemsOn, RequestsOn, SetsOn
  <2> QED
    BY <1>3, <2>1, <2>2 DEF Effect
<1>5. t.items[id].state = "in_progress" /\ Watched(t, id) /\ id \in 1 .. Len(t.items)
      /\ s.items[id].observers = 1
  BY <1>3 DEF Watched
<1>6. CASE yes
  <2>1. /\ Effect(t, e, id) /\ SameAsks(t, e) /\ SameSets(t, e) /\ Len(e.items) = Len(t.items)
        /\ e.items[id] = [t.items[id] EXCEPT !.target = "set"]
        /\ t.client /\ t.items[id].state # "gone" => UpToDate(e.queue, id, t.items[id].state)
    BY <1>1, <1>3, <1>5, <1>6, TargetProvided
  <2>2. /\ e.items[id].kind = s.items[id].kind /\ e.items[id].observers = 1
        /\ e.items[id].target = "set" /\ e.items[id].state = "in_progress"
    BY <1>0, <1>3, <1>5, <2>1 DEF ItemSet
  <2>3. Effect(s, e, id)
    BY <1>4, <2>1, EffectThen
  <2> QED
    BY <1>3, <1>5, <2>1, <2>2, <2>3 DEF SameAsks, SameSets, e, d
<1>7. CASE ~yes
  <2>1. /\ Effect(t, e, id) /\ SameAsks(t, e) /\ SameSets(t, e) /\ Len(e.items) = Len(t.items)
        /\ e.items[id] = [t.items[id] EXCEPT !.state = "cancelled", !.target = "none"]
        /\ t.client => UpToDate(e.queue, id, "cancelled")
    BY <1>1, <1>3, <1>5, <1>7, Cancelled
  <2>2. /\ e.items[id].kind = s.items[id].kind /\ e.items[id].observers = 1
        /\ e.items[id].target = "none" /\ e.items[id].state = "cancelled"
    BY <1>0, <1>3, <1>5, <2>1 DEF ItemSet
  <2>3. Effect(s, e, id)
    BY <1>4, <2>1, EffectThen
  <2> QED
    BY <1>3, <1>5, <2>1, <2>2, <2>3 DEF SameAsks, SameSets, e, d
<1> QED
  BY <1>6, <1>7

(* The item of a saved page: its number is the one that was guessed, or    *)
(* a number was given twice.                                               *)
LEMMA SaveCreated ==
  ASSUME NEW s \in State, NEW id \in Items, Len(s.items) + 1 \in Items,
         NEW w, w = [s EXCEPT !.saves = @ \ {id}]
  PROVE  LET e == savePackageDownloadCreated(w, id) IN
         /\ Effect(s, e, id) /\ e.requests = s.requests /\ e.ongoing = s.ongoing
         /\ Len(e.items) = Len(s.items) + 1
         /\ \A i \in 1 .. Len(s.items) : e.items[i] = s.items[i]
         /\ e.items[Len(s.items) + 1] = Page
         /\ e.downloads = s.downloads /\ e.saves = s.saves \ {id}
         /\ ~e.clash => id = Len(s.items) + 1
         /\ s.client /\ id = Len(s.items) + 1 => UpToDate(e.queue, id, "in_progress")
<1> DEFINE i == Len(s.items) + 1
           v == s.saves \ {id}
           f == Append(s.items, Page)
           c == s.clash \/ i # id
           u == [s EXCEPT !.saves = v, !.items = f, !.clash = c]
           t == Notify(u, i)
           e == savePackageDownloadCreated(w, id)
<1>0. Len(s.items) \in Nat /\ s.items \in Seq(ItemSet) /\ Page \in ItemSet /\ s.clash \in BOOLEAN
  BY Lengths, PageItem DEF State
<1>1. v \in SUBSET Items /\ \A j \in Items : j # id => (j \in v <=> j \in s.saves)
  BY DEF State
<1>2. /\ f \in Seq(ItemSet) /\ Len(f) = i /\ f[i] = Page
      /\ \A j \in 1 .. Len(s.items) : f[j] = s.items[j]
  BY <1>0
<1>3. c \in BOOLEAN /\ (s.clash => c) /\ (~c => id = i)
  BY <1>0
<1>4. e = [t EXCEPT !.items[i].observers = 1]
  <2>1. w = [s EXCEPT !.saves = v] /\ w.items = s.items /\ w.clash = s.clash
    BY DEF State
  <2>2. [w EXCEPT !.items = Append(@, Page), !.clash = @ \/ i # id]
          = [s EXCEPT !.saves = v, !.items = f, !.clash = c]
    BY <2>1 DEF State
  <2>3. [w EXCEPT !.items = Append(@, [NewItem EXCEPT !.kind = "page", !.target = "set", !.observers = 1]),
                  !.clash = @ \/ i # id] = u
    BY <2>2 DEF Page
  <2> QED
    BY <2>1, <2>3 DEF savePackageDownloadCreated, Observed
<1> HIDE DEF e, v, f, c
<1>5. /\ u \in State /\ u.downloads = s.downloads /\ u.saves = v
      /\ u.client = s.client /\ u.currentId = s.currentId /\ u.items = f
      /\ u.queue = s.queue /\ u.requests = s.requests
      /\ u.ongoing = s.ongoing /\ u.given = s.given /\ u.clash = c /\ u.dir = s.dir
  BY <1>1, <1>2, <1>3 DEF State
<1> HIDE DEF u
<1>6. Effect(s, u, id)
  <2>1. Grown(s.queue, u.queue) /\ Len(s.items) <= Len(u.items)
    BY <1>0, <1>2, <1>5, Lengths DEF Grown
  <2>2. \A j \in Items : j # id => View(s, u, j)
    <3> SUFFICES ASSUME NEW j \in Items, j # id PROVE View(s, u, j)
      OBVIOUS
    <3>1. ItemsOn(s, u, j)
      <4>1. j \in 1 .. Len(u.items) /\ j \notin 1 .. Len(s.items) => j = i
        BY <1>0, <1>2, <1>5
      <4> QED
        BY <1>2, <1>3, <1>5, <2>1, <4>1 DEF ItemsOn
    <3>2. RequestsOn(s, u, j) /\ SetsOn(s, u, j)
      BY <1>1, <1>5 DEF RequestsOn, SetsOn
    <3> QED
      BY <1>3, <1>5, <3>1, <3>2, QueueSame DEF View
  <2> QED
    BY <1>3, <1>5, <2>1, <2>2 DEF Effect
<1>7. i \in Items /\ i \in 1 .. Len(u.items) /\ Watched(u, i) /\ u.items[i] = Page
  BY <1>0, <1>2, <1>5, PageItem DEF Watched
<1> HIDE DEF i
<1>8. /\ Effect(u, t, i) /\ SameAsks(u, t) /\ SameSets(u, t) /\ t.items = u.items
      /\ u.client /\ u.items[i].state # "gone" => UpToDate(t.queue, i, u.items[i].state)
      /\ u.clash => \A x \in Items : Effect(u, t, x)
  BY <1>5, <1>7, Notified
<1>9. t \in State /\ t.items[i] = Page /\ t.items[i] \in ItemSet
  BY <1>0, <1>7, <1>8 DEF Effect
<1> HIDE DEF t
<1>10. e = [t EXCEPT !.items[i] = Page]
  <2>1. [Page EXCEPT !.observers = 1] = Page
    BY <1>0, PageItem DEF ItemSet
  <2>2. e = [t EXCEPT !.items[i] = [t.items[i] EXCEPT !.observers = 1]]
    BY <1>4, <1>9 DEF State
  <2> QED
    BY <1>9, <2>1, <2>2
<1>11. e = t
  <2>1. [t.items EXCEPT ![i] = Page] = t.items
    <3>1. t.items \in Seq(ItemSet) /\ i \in 1 .. Len(t.items)
      BY <1>7, <1>8, <1>9 DEF State
    <3> QED
      BY <1>9, <3>1
  <2>2. e = [t EXCEPT !.items = [t.items EXCEPT ![i] = Page]]
    BY <1>9, <1>10 DEF State
  <2>3. e = [t EXCEPT !.items = t.items]
    BY <2>1, <2>2
  <2> QED
    BY <1>9, <2>3 DEF State
<1>12. Effect(u, t, id)
  BY <1>3, <1>5, <1>8
<1>13. Effect(s, e, id)
  BY <1>6, <1>11, <1>12, EffectThen
<1>14. s.client /\ id = i => UpToDate(e.queue, id, "in_progress")
  BY <1>5, <1>7, <1>8, <1>11, PageItem
<1> QED
  BY <1>2, <1>3, <1>5, <1>8, <1>11, <1>13, <1>14 DEF SameAsks, SameSets, e, i, v

(* An item more takes the place of a page that was saved.                  *)
Grows(s, e) ==
  \/ Len(e.items) = Len(s.items) /\ e.saves \subseteq s.saves
  \/ \E x \in s.saves : /\ Len(e.items) = Len(s.items) + 1 /\ e.saves \subseteq s.saves \ {x}
                        /\ ~e.clash => Len(e.items) <= s.currentId
SavesOK(s, id) ==
  id \in s.saves => /\ Len(s.items) + 1 \in Items
                    /\ ~s.clash => Len(s.items) < id /\ id <= s.currentId

(* A page takes its item in one of two steps at most.                      *)
LEMMA GrowsThen ==
  ASSUME NEW s \in State, NEW t \in State, NEW e \in State,
         t.currentId = s.currentId, t.clash => e.clash,
         \/ Grows(s, t) /\ Len(e.items) = Len(t.items) /\ e.saves \subseteq t.saves
         \/ Grows(t, e) /\ Len(t.items) = Len(s.items) /\ t.saves \subseteq s.saves
  PROVE  Grows(s, e)
<1>1. CASE Grows(s, t) /\ Len(e.items) = Len(t.items) /\ e.saves \subseteq t.saves
  <2>1. CASE Len(t.items) = Len(s.items) /\ t.saves \subseteq s.saves
    BY <1>1, <2>1 DEF Grows
  <2>2. ASSUME NEW x \in s.saves, Len(t.items) = Len(s.items) + 1, t.saves \subseteq s.saves \ {x},
               ~t.clash => Len(t.items) <= s.currentId
        PROVE  Grows(s, e)
    <3>1. e.saves \subseteq s.saves \ {x} /\ (~e.clash => Len(e.items) <= s.currentId)
      BY <1>1, <2>2
    <3> QED
      BY <1>1, <2>2, <3>1 DEF Grows
  <2> QED
    BY <1>1, <2>1, <2>2 DEF Grows
<1>2. CASE Grows(t, e) /\ Len(t.items) = Len(s.items) /\ t.saves \subseteq s.saves
  <2>1. CASE Len(e.items) = Len(t.items) /\ e.saves \subseteq t.saves
    BY <1>2, <2>1 DEF Grows
  <2>2. ASSUME NEW x \in t.saves, Len(e.items) = Len(t.items) + 1, e.saves \subseteq t.saves \ {x},
               ~e.clash => Len(e.items) <= t.currentId
        PROVE  Grows(s, e)
    <3>1. x \in s.saves /\ e.saves \subseteq s.saves \ {x} /\ Len(e.items) = Len(s.items) + 1
      BY <1>2, <2>2
    <3> QED
      BY <2>2, <3>1 DEF Grows
  <2> QED
    BY <1>2, <2>1, <2>2 DEF Grows
<1> QED
  BY <1>1, <1>2

(* savePathDetermined() of a page that is not saved.                       *)
LEMMA SaveRefused ==
  ASSUME NEW s \in State, NEW id \in Items, NEW e, e = [s EXCEPT !.saves = @ \ {id}]
  PROVE  /\ Effect(s, e, id) /\ SameAsks(s, e) /\ e.items = s.items /\ e.queue = s.queue
         /\ e.downloads = s.downloads /\ e.saves = s.saves \ {id}
<1> DEFINE v == s.saves \ {id}
<1>1. v \in SUBSET Items
  BY DEF State
<1>2. e = [s EXCEPT !.saves = v]
  BY DEF State
<1>0. \A j \in Items : j # id => (j \in v <=> j \in s.saves)
  OBVIOUS
<1> HIDE DEF v
<1>3. /\ e \in State /\ e.downloads = s.downloads /\ e.saves = v
      /\ e.client = s.client /\ e.currentId = s.currentId /\ e.items = s.items
      /\ e.queue = s.queue /\ e.requests = s.requests
      /\ e.ongoing = s.ongoing /\ e.given = s.given /\ e.clash = s.clash /\ e.dir = s.dir
  BY <1>1, <1>2 DEF State
<1>4. Len(s.items) \in Nat /\ Grown(s.queue, e.queue)
  BY <1>3, Lengths DEF Grown
<1>5. \A j \in Items : j # id => View(s, e, j)
  BY <1>0, <1>3, <1>4, QueueSame DEF View, ItemsOn, RequestsOn, SetsOn
<1>6. /\ Len(s.items) <= Len(e.items) /\ (s.clash => e.clash)
      /\ ~s.client => e.queue = s.queue
  BY <1>3, <1>4
<1>7. Effect(s, e, id)
  BY <1>3, <1>4, <1>5, <1>6 DEF Effect
<1> QED
  BY <1>3, <1>7 DEF SameAsks, v

(* acceptDownload() of the delegate runs the callback, if it is kept.      *)
LEMMA Accepted ==
  ASSUME NEW s \in State, NEW id \in Items, NEW yes, NEW cb \in BOOLEAN,
         ItemInv(s, id), SavesOK(s, id)
  PROVE  LET e == acceptDownload(s, id, yes, cb) IN
         /\ Effect(s, e, id) /\ e.requests = s.requests /\ e.ongoing = s.ongoing
         /\ cb => e.downloads = s.downloads \ {id} /\ e.saves = s.saves
         /\ ~cb => e.downloads = s.downloads /\ e.saves = s.saves \ {id}
         /\ Grows(s, e) /\ ItemInv(e, id)
         /\ s.client /\ ~e.clash /\ WaitsFor(s, id, cb) /\ Found(e, id) =>
              UpToDate(e.queue, id, e.items[id].state)
<1> DEFINE e == acceptDownload(s, id, yes, cb)
<1>0. Len(s.items) \in Nat /\ id \in Nat /\ id >= 1
  BY Lengths, DownloadConstants DEF Items, DownloadConstants
<1>1. CASE cb /\ id \in s.downloads
  <2>1. e = downloadTargetDetermined(s, id, yes)
    BY <1>1 DEF acceptDownload
  <2>2. /\ id \in 1 .. Len(s.items) /\ Watched(s, id) /\ s.items[id].state = "in_progress"
        /\ s.items[id].kind = "link" => id <= s.currentId
    BY <1>1 DEF ItemInv, Watched
  <2>5. id \in s.downloads /\ cb
    BY <1>1
  <2> HIDE DEF e
  <2>3. /\ Effect(s, e, id) /\ SameAsks(s, e) /\ Len(e.items) = Len(s.items)
        /\ e.downloads = s.downloads \ {id} /\ e.saves = s.saves
        /\ e.items[id].kind = s.items[id].kind /\ e.items[id].observers = 1
        /\ e.items[id].target # "asking" /\ e.items[id].state \in {"in_progress", "cancelled"}
        /\ s.client => UpToDate(e.queue, id, e.items[id].state)
    BY <2>1, <2>2, <2>5, TargetDetermined
  <2>4. ItemInv(e, id)
    BY <2>2, <2>3 DEF ItemInv, Effect
  <2> QED
    BY <1>1, <2>3, <2>4 DEF Grows, SameAsks, e
<1>2. CASE cb /\ id \notin s.downloads
  <2>1. e = s
    BY <1>2 DEF acceptDownload, downloadTargetDetermined
  <2>2. s.downloads = s.downloads \ {id}
    BY <1>2
  <2>3. Effect(s, s, id) /\ Grows(s, s) /\ ~WaitsFor(s, id, cb)
    BY <1>2, EffectNone DEF Grows, WaitsFor
  <2> QED
    BY <1>2, <2>1, <2>2, <2>3
<1>3. CASE ~cb /\ yes /\ id \in s.saves
  <2> DEFINE w == [s EXCEPT !.saves = @ \ {id}]
  <2>1. e = savePackageDownloadCreated(w, id)
    BY <1>3 DEF acceptDownload, savePathDetermined
  <2>2. Len(s.items) + 1 \in Items
    BY <1>3 DEF SavesOK
  <2>3. /\ Effect(s, e, id) /\ e.requests = s.requests /\ e.ongoing = s.ongoing
        /\ Len(e.items) = Len(s.items) + 1
        /\ \A i \in 1 .. Len(s.items) : e.items[i] = s.items[i]
        /\ e.items[Len(s.items) + 1] = Page
        /\ e.downloads = s.downloads /\ e.saves = s.saves \ {id}
        /\ ~e.clash => id = Len(s.items) + 1
        /\ s.client /\ id = Len(s.items) + 1 => UpToDate(e.queue, id, "in_progress")
    BY <2>1, <2>2, SaveCreated
  <2> HIDE DEF e, w
  <2>4. ItemInv(e, id)
    <3>1. CASE id \in 1 .. Len(s.items)
      <4>1. e.items[id] = s.items[id] /\ id \in 1 .. Len(e.items) /\ e.currentId = s.currentId
        BY <1>0, <2>3, <3>1 DEF Effect
      <4> QED
        BY <2>3, <3>1, <4>1 DEF ItemInv
    <3>2. CASE id = Len(s.items) + 1
      <4>1. e.items[id] = Page /\ id \notin e.downloads
        BY <1>0, <2>3, <3>2 DEF ItemInv
      <4> QED
        BY <4>1, PageItem DEF ItemInv
    <3>3. CASE id \notin 1 .. Len(s.items) /\ id # Len(s.items) + 1
      <4>1. id \notin 1 .. Len(e.items) /\ id \notin e.downloads
        BY <1>0, <2>3, <3>3 DEF ItemInv
      <4> QED
        BY <4>1 DEF ItemInv
    <3> QED
      BY <3>1, <3>2, <3>3
  <2>5. Grows(s, e)
    <3>1. ~e.clash => Len(e.items) <= s.currentId
      BY <1>0, <1>3, <2>3 DEF SavesOK, Effect
    <3> QED
      BY <1>3, <2>3, <3>1 DEF Grows
  <2>6. s.client /\ ~e.clash => UpToDate(e.queue, id, e.items[id].state)
    BY <2>3, PageItem
  <2> QED
    BY <1>3, <2>3, <2>4, <2>5, <2>6 DEF e
<1>4. CASE ~cb /\ ~(yes /\ id \in s.saves)
  <2>1. e = [s EXCEPT !.saves = @ \ {id}]
    BY <1>4 DEF acceptDownload, savePathDetermined
  <2>2. /\ Effect(s, e, id) /\ SameAsks(s, e) /\ e.items = s.items /\ e.queue = s.queue
        /\ e.downloads = s.downloads /\ e.saves = s.saves \ {id}
    BY <2>1, SaveRefused
  <2> HIDE DEF e
  <2>3. ItemInv(e, id)
    BY <2>2 DEF ItemInv, Effect
  <2>4. ~e.clash /\ WaitsFor(s, id, cb) => ~Found(e, id)
    <3> SUFFICES ASSUME ~e.clash, WaitsFor(s, id, cb) PROVE ~Found(e, id)
      OBVIOUS
    <3>1. id \in s.saves /\ ~s.clash
      BY <1>4, <2>2 DEF WaitsFor, SameAsks
    <3>2. id \notin 1 .. Len(e.items)
      BY <1>0, <2>2, <3>1 DEF SavesOK
    <3> QED
      BY <2>2, <3>2, FoundOn DEF Effect
  <2> QED
    BY <1>4, <2>2, <2>3, <2>4 DEF Grows, SameAsks, e
<1> QED
  BY <1>1, <1>2, <1>3, <1>4

(***************************************************************************)
(* A request and the number it is about.                                   *)
(***************************************************************************)
SetRequest(s, n, r) == [s EXCEPT !.requests = [s.requests EXCEPT ![n] = r]]
SameItems(s, e) ==
  /\ e.client = s.client /\ e.items = s.items /\ e.currentId = s.currentId
  /\ e.downloads = s.downloads /\ e.saves = s.saves
  /\ e.given = s.given /\ e.clash = s.clash /\ e.dir = s.dir

RequestIs(s, e, n, r) ==
  /\ Effect(s, e, r.id) /\ SameItems(s, e) /\ e.ongoing = s.ongoing /\ e.queue = s.queue
  /\ e.requests = [s.requests EXCEPT ![n] = r] /\ e.requests \in Seq(RequestSet)
  /\ Len(e.requests) = Len(s.requests) /\ e.requests[n] = r
  /\ \A m \in 1 .. Len(s.requests) : m # n => e.requests[m] = s.requests[m]

(* A request is replaced.                                                  *)
LEMMA RequestSetTo ==
  ASSUME NEW s \in State, NEW n \in 1 .. Len(s.requests), NEW r \in RequestSet,
         r.id = s.requests[n].id, NEW e, e = SetRequest(s, n, r)
  PROVE  RequestIs(s, e, n, r)
<1> DEFINE f == [s.requests EXCEPT ![n] = r]
<1>1. /\ f \in Seq(RequestSet) /\ Len(f) = Len(s.requests) /\ f[n] = r
      /\ \A m \in 1 .. Len(s.requests) : m # n => f[m] = s.requests[m]
  BY DEF State
<1>2. e = [s EXCEPT !.requests = f]
  BY DEF SetRequest
<1> HIDE DEF f
<1>3. /\ e \in State /\ e.requests = f /\ e.ongoing = s.ongoing /\ e.queue = s.queue
      /\ SameItems(s, e)
  BY <1>1, <1>2 DEF State, SameItems
<1>4. Len(s.items) \in Nat /\ Grown(s.queue, e.queue)
  BY <1>3, Lengths DEF Grown
<1>5. ASSUME NEW j \in Items, j # r.id PROVE View(s, e, j)
  <2>1. RequestsOn(s, e, j)
    BY <1>1, <1>3, <1>5 DEF RequestsOn
  <2>2. ItemsOn(s, e, j) /\ SetsOn(s, e, j)
    BY <1>3, <1>4 DEF ItemsOn, SetsOn, SameItems
  <2>3. QueueOn(s.queue, e.queue, j, ~e.clash)
    BY <1>3, QueueSame
  <2> QED
    BY <1>3, <2>1, <2>2, <2>3 DEF View, SameItems
<1>6. Effect(s, e, r.id)
  BY <1>3, <1>4, <1>5 DEF Effect, SameItems
<1> QED
  BY <1>1, <1>3, <1>6 DEF f, RequestIs

(* All that holds of a number whose request is not yet settled.            *)
AskedBut(s, id, x) ==
  /\ \A n \in 1 .. Len(s.requests) : n # x /\ s.requests[n].id = id /\ s.requests[n].alive =>
       (s.requests[n].answered <=> s.requests[n].state # "requested")
  /\ \A k \in 1 .. Len(s.queue) :
       Asks(s.queue[k], id) /\ s.queue[k].accepted => s.queue[k].save
  /\ s.ongoing[id] # 0 => /\ s.ongoing[id] \in 1 .. Len(s.requests)
                          /\ s.requests[s.ongoing[id]].id = id
                          /\ s.requests[s.ongoing[id]].alive
Ready(s, id, n) ==
  /\ n \in 1 .. Len(s.requests) /\ s.requests[n].id = id /\ s.requests[n].alive
  /\ ItemInv(s, id) /\ ComesInv(s, id) /\ AskedBut(s, id, n)
  /\ ~s.clash =>
       /\ FreeInv(s, id) /\ s.ongoing[id] = n
       /\ ~s.requests[n].answered => WaitsFor(s, id, s.requests[n].callback)
       /\ s.requests[n].answered => Shows(s, s.requests[n])
Settled(r) == r.answered <=> r.state # "requested"

(* A request that the application has.                                     *)
LEMMA ReadyIfInv ==
  ASSUME NEW s \in State, NEW id \in Items, NEW n \in 1 .. Len(s.requests),
         s.requests[n].id = id, s.requests[n].alive, IdInv(s, id)
  PROVE  Ready(s, id, n) /\ Settled(s.requests[n])
<1>1. AskedBut(s, id, n) /\ Settled(s.requests[n])
  BY DEF AskedBut, AskedInv, IdInv, Settled
<1>2. ASSUME ~s.clash
      PROVE  /\ FreeInv(s, id) /\ s.ongoing[id] = n
             /\ ~s.requests[n].answered => WaitsFor(s, id, s.requests[n].callback)
             /\ s.requests[n].answered => Shows(s, s.requests[n])
  BY <1>2 DEF IdInv, OwnInv, OwnRequest
<1> QED
  BY <1>1, <1>2 DEF Ready, IdInv

(* And back, once its callback is settled.                                 *)
LEMMA InvIfReady ==
  ASSUME NEW s \in State, NEW id \in Items, NEW n, Ready(s, id, n), Settled(s.requests[n])
  PROVE  IdInv(s, id)
<1>1. AskedInv(s, id)
  BY DEF AskedBut, AskedInv, Ready, Settled
<1>2. ASSUME ~s.clash PROVE OwnInv(s, id)
  <2>1. \A k \in 1 .. Len(s.queue) : ~Asks(s.queue[k], id)
    BY <1>2 DEF Ready, FreeInv
  <2>2. \A m \in 1 .. Len(s.requests) : s.requests[m].id = id => m = n
    BY <1>2 DEF Ready, FreeInv
  <2>3. OwnRequest(s, n)
    BY <1>2 DEF Ready, OwnRequest
  <2> QED
    BY <2>1, <2>2, <2>3 DEF OwnInv
<1> QED
  BY <1>1, <1>2 DEF Ready, IdInv

(* Updates more, for a number of which nothing is known.                   *)
LEMMA GrownOn ==
  ASSUME NEW q, NEW p, NEW id, Grown(q, p)
  PROVE  QueueOn(q, p, id, FALSE)
<1>1. \A k \in 1 .. Len(p) : Asks(p[k], id) => k \in 1 .. Len(q) /\ q[k] = p[k]
  BY DEF Grown, Asks
<1> QED
  BY <1>1 DEF Grown, QueueOn

(* A request that is settled and alive, its callback run.                  *)
LEMMA SettledKeeps ==
  ASSUME NEW s \in State, NEW id \in Items, NEW n, Ready(s, id, n), NEW e \in State,
         NEW r \in RequestSet, r.id = id, r.alive, r.answered, r.state # "requested",
         e.requests = [s.requests EXCEPT ![n] = r], e.ongoing = s.ongoing, e.given = s.given,
         e.currentId = s.currentId, s.clash => e.clash, Len(s.items) <= Len(e.items),
         QueueOn(s.queue, e.queue, id, FALSE), ItemInv(e, id),
         id \in e.downloads => /\ id \in s.downloads
                               /\ s.requests[n].answered \/ ~s.requests[n].callback,
         id \in e.saves => /\ id \in s.saves /\ Len(e.items) = Len(s.items)
                           /\ s.requests[n].answered \/ s.requests[n].callback,
         ~e.clash => Shows(e, r)
  PROVE  IdInv(e, id)
<1>0. /\ n \in 1 .. Len(s.requests) /\ s.requests[n].id = id
      /\ s.requests \in Seq(RequestSet) /\ s.requests[n].callback \in BOOLEAN
  BY Lengths DEF Ready, State, RequestSet
<1>1. /\ Len(e.requests) = Len(s.requests) /\ e.requests[n] = r
      /\ \A m \in 1 .. Len(s.requests) : m # n => e.requests[m] = s.requests[m]
  BY <1>0
<1>2. \A k \in 1 .. Len(s.queue) : Asks(s.queue[k], id) => \E l \in 1 .. Len(e.queue) : e.queue[l] = s.queue[k]
  BY DEF QueueOn
<1>3. \A k \in 1 .. Len(e.queue) : Asks(e.queue[k], id) => \E l \in 1 .. Len(s.queue) : s.queue[l] = e.queue[k]
  BY DEF QueueOn
<1>4. ASSUME NEW cb, Comes(s, id, cb), s.requests[n].answered \/ cb # s.requests[n].callback
      PROVE  Comes(e, id, cb)
  <2>1. CASE \E k \in 1 .. Len(s.queue) : Asks(s.queue[k], id) /\ s.queue[k].callback = cb
    BY <1>2, <2>1 DEF Comes
  <2>2. CASE \E m \in 1 .. Len(s.requests) : Waits(s.requests[m], id) /\ s.requests[m].callback = cb
    <3>1. PICK m \in 1 .. Len(s.requests) : Waits(s.requests[m], id) /\ s.requests[m].callback = cb
      BY <2>2
    <3>2. m \in 1 .. Len(e.requests) /\ e.requests[m] = s.requests[m]
      BY <1>1, <1>4, <3>1 DEF Waits
    <3> QED
      BY <3>1, <3>2 DEF Comes
  <2> QED
    BY <1>4, <2>1, <2>2 DEF Comes
<1>5. ComesInv(e, id)
  BY <1>0, <1>4 DEF ComesInv, Ready
<1>6. AskedBut(e, id, n)
  <2>1. \A m \in 1 .. Len(e.requests) : m # n /\ e.requests[m].id = id /\ e.requests[m].alive =>
          (e.requests[m].answered <=> e.requests[m].state # "requested")
    BY <1>1 DEF AskedBut, Ready
  <2>2. \A k \in 1 .. Len(e.queue) : Asks(e.queue[k], id) /\ e.queue[k].accepted => e.queue[k].save
    BY <1>3 DEF AskedBut, Ready
  <2>3. e.ongoing[id] # 0 => /\ e.ongoing[id] \in 1 .. Len(e.requests)
                             /\ e.requests[e.ongoing[id]].id = id
                             /\ e.requests[e.ongoing[id]].alive
    BY <1>1 DEF AskedBut, Ready
  <2> QED
    BY <2>1, <2>2, <2>3 DEF AskedBut
<1>7. ASSUME ~e.clash PROVE FreeInv(e, id) /\ e.ongoing[id] = n
  <2>0. FreeInv(s, id) /\ s.ongoing[id] = n
    BY <1>7 DEF Ready
  <2>1. /\ Len(s.items) \in Nat /\ Len(e.items) \in Nat /\ id \in Nat /\ s.currentId \in Nat
    BY Lengths, DownloadConstants DEF Items, DownloadConstants
  <2>2. \A k \in 1 .. Len(e.queue) : ~Asks(e.queue[k], id)
    BY <1>0, <1>3, <2>0 DEF FreeInv
  <2>3. \A m \in 1 .. Len(e.requests) : e.requests[m].id = id => s.requests[m].id = id
    BY <1>0, <1>1
  <2>4. /\ id \in e.given => id <= e.currentId
        /\ Len(e.items) < id /\ id <= e.currentId => id \in e.given
    BY <2>0, <2>1 DEF FreeInv
  <2>5. /\ id \in e.saves => Len(e.items) < id
    BY <2>0, <2>1 DEF FreeInv
  <2>6. /\ \A m \in 1 .. Len(e.requests) : e.requests[m].id = id => id \in e.given
        /\ \A m, l \in 1 .. Len(e.requests) : e.requests[m].id = id /\ e.requests[l].id = id => m = l
    BY <1>1, <2>0, <2>3 DEF FreeInv
  <2> QED
    BY <2>0, <2>2, <2>4, <2>5, <2>6 DEF FreeInv
<1>8. Ready(e, id, n)
  BY <1>0, <1>1, <1>5, <1>6, <1>7 DEF Ready
<1> QED
  BY <1>1, <1>8, InvIfReady DEF Settled

(* A request replaced by one that waits as it did.                         *)
LEMMA ReadyWith ==
  ASSUME NEW s \in State, NEW id \in Items, NEW n, Ready(s, id, n), ~s.requests[n].answered,
         NEW r \in RequestSet, r.id = id, r.alive, ~r.answered,
         r.callback = s.requests[n].callback,
         NEW e \in State, SameItems(s, e), e.ongoing = s.ongoing, e.queue = s.queue,
         Len(e.requests) = Len(s.requests), e.requests[n] = r,
         \A m \in 1 .. Len(s.requests) : m # n => e.requests[m] = s.requests[m]
  PROVE  Ready(e, id, n)
<1>0. /\ n \in 1 .. Len(s.requests) /\ s.requests[n].id = id
  BY DEF Ready
<1>1. /\ SameItems(s, e) /\ e.ongoing = s.ongoing /\ e.queue = s.queue
      /\ Len(e.requests) = Len(s.requests) /\ e.requests[n] = r
      /\ \A m \in 1 .. Len(s.requests) : m # n => e.requests[m] = s.requests[m]
  OBVIOUS
<1>2. \A m \in 1 .. Len(s.requests) : /\ e.requests[m].id = s.requests[m].id
                                      /\ Waits(s.requests[m], id) => Waits(e.requests[m], id)
                                      /\ m # n => e.requests[m] = s.requests[m]
  BY <1>0, <1>1 DEF Waits
<1>3. \A cb : Comes(s, id, cb) => Comes(e, id, cb)
  <2> SUFFICES ASSUME NEW cb, Comes(s, id, cb) PROVE Comes(e, id, cb)
    OBVIOUS
  <2>1. CASE \E k \in 1 .. Len(s.queue) : Asks(s.queue[k], id) /\ s.queue[k].callback = cb
    BY <1>1, <2>1 DEF Comes
  <2>2. CASE \E m \in 1 .. Len(s.requests) : Waits(s.requests[m], id) /\ s.requests[m].callback = cb
    <3>1. PICK m \in 1 .. Len(s.requests) : Waits(s.requests[m], id) /\ s.requests[m].callback = cb
      BY <2>2
    <3>2. m \in 1 .. Len(e.requests) /\ Waits(e.requests[m], id) /\ e.requests[m].callback = cb
      BY <1>0, <1>1, <1>2, <3>1
    <3> QED
      BY <3>2 DEF Comes
  <2> QED
    BY <2>1, <2>2 DEF Comes
<1>4. ItemInv(e, id) /\ ComesInv(e, id)
  BY <1>1, <1>3 DEF Ready, ItemInv, ComesInv, SameItems
<1>5. AskedBut(e, id, n)
  BY <1>0, <1>1, <1>2 DEF Ready, AskedBut
<1>6. ASSUME ~e.clash PROVE FreeInv(e, id) /\ e.ongoing[id] = n /\ WaitsFor(e, id, r.callback)
  <2>1. FreeInv(s, id) /\ s.ongoing[id] = n /\ WaitsFor(s, id, r.callback)
    BY <1>1, <1>6 DEF Ready, SameItems
  <2>2. /\ Len(e.requests) = Len(s.requests) /\ e.queue = s.queue
        /\ \A m \in 1 .. Len(s.requests) : e.requests[m].id = s.requests[m].id
    BY <1>1, <1>2
  <2>3. /\ e.given = s.given /\ e.items = s.items /\ e.currentId = s.currentId
        /\ e.saves = s.saves
    BY <1>1 DEF SameItems
  <2>4. /\ id \in e.given => id <= e.currentId
        /\ Len(e.items) < id /\ id <= e.currentId => id \in e.given
        /\ id \in e.saves => Len(e.items) < id
    BY <2>1, <2>3 DEF FreeInv
  <2>5. /\ \A m \in 1 .. Len(e.requests) : e.requests[m].id = id => id \in e.given
        /\ \A k \in 1 .. Len(e.queue) : Asks(e.queue[k], id) => id \in e.given
    BY <2>1, <2>2, <2>3 DEF FreeInv
  <2>6. \A l, m \in 1 .. Len(e.requests) : e.requests[l].id = id /\ e.requests[m].id = id => l = m
    BY <2>1, <2>2 DEF FreeInv
  <2>7. /\ \A k, l \in 1 .. Len(e.queue) : Asks(e.queue[k], id) /\ Asks(e.queue[l], id) => k = l
        /\ \A m \in 1 .. Len(e.requests), k \in 1 .. Len(e.queue) :
             ~(e.requests[m].id = id /\ Asks(e.queue[k], id))
    BY <2>1, <2>2 DEF FreeInv
  <2>8. FreeInv(e, id)
    BY <2>4, <2>5, <2>6, <2>7 DEF FreeInv
  <2> QED
    BY <1>1, <2>1, <2>8 DEF WaitsFor, SameItems
<1> QED
  BY <1>0, <1>1, <1>4, <1>5, <1>6 DEF Ready

Done(s, e, id, n) ==
  /\ Effect(s, e, id) /\ Grows(s, e) /\ IdInv(e, id)
  /\ Len(e.requests) = Len(s.requests) /\ n \in 1 .. Len(e.requests)
  /\ e.requests[n].id = id /\ e.requests[n].alive /\ e.requests[n].answered

(* A request marked as answered.                                           *)
LEMMA AnsweredRequest ==
  ASSUME NEW s \in State, NEW n \in 1 .. Len(s.requests), NEW q, q = s.requests[n],
         NEW r, r = [q EXCEPT !.answered = TRUE]
  PROVE  /\ [s EXCEPT !.requests[n].answered = TRUE] = SetRequest(s, n, r)
         /\ r \in RequestSet /\ r.id = q.id /\ r.alive = q.alive
         /\ r.answered = TRUE /\ r.state = q.state /\ r.callback = q.callback
<1>1. q \in RequestSet
  BY Lengths
<1>2. /\ r \in RequestSet /\ r.id = q.id /\ r.alive = q.alive
      /\ r.state = q.state /\ r.callback = q.callback
      /\ r.answered = TRUE
  BY <1>1 DEF RequestSet
<1>3. [s EXCEPT !.requests[n].answered = TRUE] = SetRequest(s, n, r)
  BY DEF State, SetRequest
<1> QED
  BY <1>2, <1>3

(* answer() of a request that has not been answered.                       *)
LEMMA Answers ==
  ASSUME NEW s \in State, NEW id \in Items, NEW n, Ready(s, id, n), s.client, SavesOK(s, id),
         s.requests[n].state # "requested"
  PROVE  Done(s, answer(s, n), id, n)
<1> DEFINE r == s.requests[n]
           yes == r.state \notin {"cancelled", "requested"}
           u == acceptDownload(s, id, yes, r.callback)
           a == [r EXCEPT !.answered = TRUE]
           e == answer(s, n)
<1>0. /\ n \in 1 .. Len(s.requests) /\ r.id = id /\ r \in RequestSet /\ r.callback \in BOOLEAN
      /\ r.alive /\ ItemInv(s, id) /\ Len(s.items) \in Nat
  BY Lengths DEF Ready, RequestSet
<1>1. CASE r.answered
  <2>1. e = s
    BY <1>1 DEF answer
  <2>2. IdInv(s, id)
    BY <1>1, InvIfReady DEF Settled
  <2>3. Effect(s, s, id) /\ Grows(s, s)
    BY EffectNone DEF Grows
  <2> QED
    BY <1>0, <1>1, <2>1, <2>2, <2>3 DEF Done
<1>2. CASE ~r.answered
  <2>1. e = [u EXCEPT !.requests[n].answered = TRUE]
    BY <1>0, <1>2 DEF answer
  <2> HIDE DEF yes
  <2>2. /\ Effect(s, u, id) /\ u.requests = s.requests /\ u.ongoing = s.ongoing
        /\ r.callback => u.downloads = s.downloads \ {id} /\ u.saves = s.saves
        /\ ~r.callback => u.downloads = s.downloads /\ u.saves = s.saves \ {id}
        /\ Grows(s, u) /\ ItemInv(u, id)
        /\ s.client /\ ~u.clash /\ WaitsFor(s, id, r.callback) /\ Found(u, id) =>
              UpToDate(u.queue, id, u.items[id].state)
    <3> HIDE DEF r
    <3> QED
      BY <1>0, Accepted
  <2> HIDE DEF u, e
  <2>3. u \in State /\ n \in 1 .. Len(u.requests) /\ u.requests[n] = r
    BY <1>0, <2>2 DEF Effect
  <2>4. /\ e = SetRequest(u, n, a)
        /\ a \in RequestSet /\ a.id = id /\ a.alive /\ a.answered
        /\ a.state # "requested"
    <3>1. r.state # "requested"
      OBVIOUS
    <3>0. a = [r EXCEPT !.answered = TRUE]
      OBVIOUS
    <3> HIDE DEF r, a
    <3>2. /\ [u EXCEPT !.requests[n].answered = TRUE] = SetRequest(u, n, a)
          /\ a \in RequestSet /\ a.id = r.id /\ a.alive = r.alive
          /\ a.answered = TRUE /\ a.state = r.state
      <4>1. [u EXCEPT !.requests[n].answered = TRUE] = SetRequest(u, n, a)
        BY <2>3, <3>0 DEF SetRequest
      <4>2. a \in RequestSet
        BY <2>3, <3>0, AnsweredRequest
      <4>3. a.id = r.id /\ a.alive = r.alive
        BY <2>3, <3>0, AnsweredRequest
      <4>4. a.answered = TRUE
        BY <2>3, <3>0, AnsweredRequest
      <4>5. a.state = r.state
        BY <2>3, <3>0, AnsweredRequest
      <4> QED
        BY <4>1, <4>2, <4>3, <4>4, <4>5
    <3> QED
      BY <1>0, <2>1, <3>1, <3>2
  <2> HIDE DEF a
  <2>5. /\ Effect(u, e, id) /\ SameItems(u, e) /\ e.ongoing = u.ongoing /\ e.queue = u.queue
        /\ e.requests = [s.requests EXCEPT ![n] = a] /\ Len(e.requests) = Len(s.requests)
        /\ e.requests[n] = a
    <3>1. r.id = a.id
      BY <1>0, <2>4
    <3>2. RequestIs(u, e, n, a)
      BY <2>3, <2>4, <3>1, RequestSetTo
    <3> QED
      BY <2>2, <2>4, <3>2 DEF RequestIs
  <2>6. Effect(s, e, id)
    BY <2>2, <2>5, EffectThen
  <2>7. Grows(s, e)
    BY <2>2, <2>3, <2>5, <2>6, GrowsThen DEF SameItems, Effect
  <2>8. ItemInv(e, id)
    BY <2>2, <2>5 DEF ItemInv, SameItems
  <2>9. ASSUME ~e.clash PROVE Shows(e, a)
    <3>1. ~s.clash /\ ~u.clash
      BY <2>5, <2>6, <2>9 DEF SameItems, Effect
    <3>2. WaitsFor(s, id, r.callback)
      BY <1>2, <3>1 DEF Ready
    <3>3. Found(e, id) => UpToDate(e.queue, id, e.items[id].state)
      BY <2>2, <2>5, <3>1, <3>2 DEF SameItems, Found
    <3> QED
      BY <2>4, <3>3 DEF Shows
  <2>10. /\ id \in e.downloads => id \in s.downloads /\ ~r.callback
         /\ id \in e.saves => id \in s.saves /\ r.callback
    BY <1>0, <2>2, <2>5 DEF SameItems
  <2>11. id \in e.saves => Len(e.items) = Len(s.items)
    <3> SUFFICES ASSUME id \in e.saves PROVE Len(e.items) = Len(s.items)
      OBVIOUS
    <3>1. u.saves = s.saves /\ Grows(s, u) /\ e.items = u.items
      BY <2>2, <2>5, <2>10 DEF SameItems
    <3>2. Len(u.items) = Len(s.items)
      BY <3>1 DEF Grows
    <3> QED
      BY <3>1, <3>2
  <2>12. /\ e.ongoing = s.ongoing /\ e.given = s.given /\ e.currentId = s.currentId
         /\ s.clash => e.clash
         /\ Len(s.items) <= Len(e.items) /\ QueueOn(s.queue, e.queue, id, FALSE)
         /\ e \in State
    BY <2>2, <2>5, <2>6, GrownOn DEF Effect
  <2>13. IdInv(e, id)
    BY <2>4, <2>5, <2>8, <2>9, <2>10, <2>11, <2>12, SettledKeeps
  <2> QED
    BY <1>0, <2>4, <2>5, <2>6, <2>7, <2>13 DEF Done, e
<1> QED
  BY <1>1, <1>2

(* A change of the request before it is answered.                          *)
LEMMA DoneThen ==
  ASSUME NEW s \in State, NEW x \in State, NEW e, NEW id \in Items, NEW n,
         Effect(s, x, id), SameItems(s, x), Len(x.requests) = Len(s.requests), Done(x, e, id, n)
  PROVE  Done(s, e, id, n)
<1>1. Effect(s, e, id) /\ e \in State
  <2>1. Effect(x, e, id)
    BY DEF Done
  <2>2. Effect(s, e, id)
    BY <2>1, EffectThen
  <2> QED
    BY <2>2 DEF Effect
<1>2. Grows(s, e)
  <2>1. Grows(x, e) /\ Len(x.items) = Len(s.items) /\ x.saves \subseteq s.saves
        /\ x.currentId = s.currentId /\ (x.clash => e.clash)
    BY DEF Done, SameItems, Effect
  <2> QED
    BY <1>1, <2>1, GrowsThen
<1> QED
  BY <1>1, <1>2 DEF Done

(* accept().                                                               *)
LEMMA Accepts ==
  ASSUME NEW s \in State, NEW id \in Items, NEW n, Ready(s, id, n), s.client, SavesOK(s, id),
         s.requests[n].state = "requested", ~s.requests[n].answered
  PROVE  Done(s, accept(s, n), id, n)
<1> DEFINE q == s.requests[n]
           r == [q EXCEPT !.state = "in_progress"]
           x == [s EXCEPT !.requests[n].state = "in_progress"]
<1>0. n \in 1 .. Len(s.requests) /\ q.id = id /\ q.alive /\ q \in RequestSet
  BY Lengths DEF Ready
<1>1. accept(s, n) = answer(x, n)
  BY DEF accept
<1>2. x = SetRequest(s, n, r)
  BY <1>0 DEF State, SetRequest
<1>3. /\ r \in RequestSet /\ r.id = id /\ r.alive /\ ~r.answered /\ r.callback = q.callback
      /\ r.state = "in_progress"
  BY <1>0 DEF RequestSet, States
<1> HIDE DEF r, x
<1>4. /\ Effect(s, x, id) /\ SameItems(s, x) /\ x.ongoing = s.ongoing /\ x.queue = s.queue
      /\ Len(x.requests) = Len(s.requests) /\ x.requests[n] = r
      /\ \A m \in 1 .. Len(s.requests) : m # n => x.requests[m] = s.requests[m]
  <2>1. r.id = s.requests[n].id
    BY <1>0, <1>3
  <2>2. RequestIs(s, x, n, r)
    BY <1>0, <1>2, <1>3, <2>1, RequestSetTo
  <2> QED
    BY <1>3, <2>2 DEF RequestIs
<1>5. x \in State
  BY <1>4 DEF Effect
<1>6. Ready(x, id, n)
  BY <1>3, <1>4, <1>5, ReadyWith
<1>7. x.client /\ SavesOK(x, id) /\ x.requests[n].state # "requested"
  BY <1>3, <1>4 DEF SameItems, SavesOK
<1>8. Done(x, answer(x, n), id, n)
  BY <1>5, <1>6, <1>7, Answers
<1> QED
  BY <1>1, <1>4, <1>5, <1>8, DoneThen

(* A request whose callback is gone.                                       *)
LEMMA AnswersNothing ==
  ASSUME NEW t \in State, NEW id \in Items, NEW n \in 1 .. Len(t.requests),
         t.requests[n].id = id, ~t.requests[n].answered,
         id \notin t.downloads, id \notin t.saves,
         NEW r, r = [t.requests[n] EXCEPT !.answered = TRUE]
  PROVE  answer(t, n) = SetRequest(t, n, r)
<1> DEFINE q == t.requests[n]
           yes == q.state \notin {"cancelled", "requested"}
           u == acceptDownload(t, id, yes, q.callback)
<1>1. answer(t, n) = [u EXCEPT !.requests[n].answered = TRUE]
  BY DEF answer
<1>2. [t EXCEPT !.saves = @ \ {id}] = t
  <2>1. t.saves \ {id} = t.saves
    OBVIOUS
  <2> QED
    BY <2>1 DEF State
<1>3. u = t
  BY <1>2 DEF acceptDownload, downloadTargetDetermined, savePathDetermined
<1> HIDE DEF u
<1>4. [t EXCEPT !.requests[n].answered = TRUE] = SetRequest(t, n, r)
  BY DEF State, SetRequest
<1> QED
  BY <1>1, <1>3, <1>4

(* cancel() of a request.                                                  *)
LEMMA SettledDone ==
  ASSUME NEW s \in State, NEW id \in Items, NEW n, Ready(s, id, n),
         NEW t, Effect(s, t, id), t.requests = s.requests, t.ongoing = s.ongoing,
         Len(t.items) = Len(s.items), t.saves \subseteq s.saves, ItemInv(t, id),
         id \in t.downloads \union t.saves => t = s /\ s.requests[n].answered,
         NEW r \in RequestSet, r.id = id, r.alive, r.answered, r.state # "requested",
         ~t.clash => Shows(t, r),
         NEW e, e = SetRequest(t, n, r)
  PROVE  Done(s, e, id, n)
<1>0. n \in 1 .. Len(t.requests) /\ t \in State /\ t.requests[n].id = r.id
  BY DEF Ready, Effect
<1>1. RequestIs(t, e, n, r)
  BY <1>0, RequestSetTo
<1>2. /\ Effect(t, e, id) /\ SameItems(t, e) /\ e.ongoing = s.ongoing /\ e.queue = t.queue
      /\ e.requests = [s.requests EXCEPT ![n] = r]
      /\ Len(e.requests) = Len(s.requests) /\ e.requests[n] = r
  BY <1>1 DEF RequestIs
<1>3. Effect(s, e, id)
  BY <1>2, EffectThen
<1>4. Grows(s, e)
  BY <1>2 DEF Grows, SameItems
<1>5. /\ e \in State /\ e.given = s.given /\ e.currentId = s.currentId /\ (s.clash => e.clash)
      /\ Len(s.items) <= Len(e.items) /\ QueueOn(s.queue, e.queue, id, FALSE)
  BY <1>3, GrownOn DEF Effect
<1>6. ItemInv(e, id)
  BY <1>2 DEF ItemInv, SameItems
<1>7. /\ id \in e.downloads => /\ id \in s.downloads
                               /\ s.requests[n].answered \/ ~s.requests[n].callback
      /\ id \in e.saves => /\ id \in s.saves /\ Len(e.items) = Len(s.items)
                           /\ s.requests[n].answered \/ s.requests[n].callback
  BY <1>2 DEF SameItems
<1>8. ~e.clash => Shows(e, r)
  BY <1>2 DEF SameItems, Shows, Found
<1>9. IdInv(e, id)
  <2>1. e.requests = [s.requests EXCEPT ![n] = r] /\ e.ongoing = s.ongoing
    BY <1>2
  <2> QED
    BY <2>1, <1>5, <1>6, <1>7, <1>8, SettledKeeps
<1>10. n \in 1 .. Len(e.requests)
  BY <1>0, <1>2
<1> QED
  BY <1>2, <1>3, <1>4, <1>9, <1>10 DEF Done

(* cancel() of a download that runs.                                       *)
LEMMA CancelsStarted ==
  ASSUME NEW s \in State, NEW id \in Items, NEW n, Ready(s, id, n), s.client,
         s.requests[n].state = "in_progress", Found(s, id)
  PROVE  Done(s, cancel(s, n), id, n)
<1> DEFINE q == s.requests[n]
           t == cancelDownload(s, id)
           r == [q EXCEPT !.answered = TRUE]
<1>0. /\ n \in 1 .. Len(s.requests) /\ q.id = id /\ q.alive /\ q \in RequestSet
      /\ q.state = "in_progress" /\ ItemInv(s, id) /\ id \in 1 .. Len(s.items)
      /\ s.items[id] \in ItemSet
  BY Lengths, FoundOn DEF Ready
<1>1. cancel(s, n) = answer(t, n)
  BY <1>0 DEF cancel
<1>2. Watched(s, id) /\ s.items[id].state # "gone"
  BY <1>0, FoundOn DEF ItemInv, Watched
<1>3. /\ Effect(s, t, id) /\ SameAsks(s, t) /\ Len(t.items) = Len(s.items)
      /\ t.downloads = s.downloads \ {id} /\ t.saves = s.saves \ {id}
      /\ \/ /\ s.items[id].state \notin {"in_progress", "interrupted"}
            /\ t.items = s.items /\ t.queue = s.queue
         \/ /\ s.items[id].state \in {"in_progress", "interrupted"}
            /\ t.items[id] = [s.items[id] EXCEPT !.state = "cancelled", !.target = "none"]
            /\ s.client => UpToDate(t.queue, id, "cancelled")
  BY <1>0, <1>2, DownloadCancelled
<1>4. /\ r \in RequestSet /\ r.id = id /\ r.alive /\ r.answered /\ r.state = "in_progress"
  BY <1>0 DEF RequestSet
<1>5. answer(t, n) = SetRequest(t, n, r)
  <2>0. t \in State /\ t.requests = s.requests /\ n \in 1 .. Len(t.requests)
        /\ t.requests[n] = q
    BY <1>0, <1>3 DEF Effect, SameAsks
  <2> HIDE DEF t, q
  <2>1. CASE ~q.answered
    <3>1. id \notin t.downloads /\ id \notin t.saves
      BY <1>3
    <3> QED
      BY <1>0, <2>0, <2>1, <3>1, AnswersNothing
  <2>2. CASE q.answered
    <3>1. r = q
      BY <1>0, <2>2 DEF RequestSet
    <3>2. [t.requests EXCEPT ![n] = q] = t.requests
      BY <2>0 DEF State
    <3>3. SetRequest(t, n, r) = t
      BY <2>0, <3>1, <3>2 DEF SetRequest, State
    <3>4. answer(t, n) = t
      BY <2>0, <2>2 DEF answer
    <3> QED
      BY <3>3, <3>4
  <2> QED
    BY <2>1, <2>2
<1> HIDE DEF t, r
<1>6. ItemInv(t, id)
  <2>1. CASE s.items[id].state \notin {"in_progress", "interrupted"} /\ t.items = s.items
    BY <1>0, <1>3, <2>1 DEF ItemInv, Effect
  <2>2. CASE t.items[id] = [s.items[id] EXCEPT !.state = "cancelled", !.target = "none"]
    <3>1. /\ t.items[id].state = "cancelled" /\ t.items[id].target = "none"
          /\ t.items[id].kind = s.items[id].kind /\ t.items[id].observers = s.items[id].observers
      BY <1>0, <2>2 DEF ItemSet
    <3> QED
      BY <1>0, <1>2, <1>3, <3>1 DEF ItemInv, Effect
  <2> QED
    BY <1>3, <2>1, <2>2
<1>7. ASSUME ~t.clash PROVE Shows(t, r)
  <2>1. ~s.clash
    BY <1>3, <1>7 DEF SameAsks
  <2>2. CASE s.items[id].state \in {"in_progress", "interrupted"}
    <3>1. t.items[id].state = "cancelled" /\ UpToDate(t.queue, id, "cancelled")
      BY <1>0, <1>3, <2>2 DEF ItemSet
    <3> QED
      BY <1>4, <3>1 DEF Shows
  <2>3. CASE s.items[id].state \notin {"in_progress", "interrupted"}
    <3>1. t.items = s.items /\ t.queue = s.queue
      BY <1>3, <2>3
    <3>2. q.answered
      <4> SUFFICES ASSUME ~q.answered PROVE FALSE
        OBVIOUS
      <4>1. WaitsFor(s, id, q.callback)
        BY <2>1 DEF Ready
      <4>2. id \in s.downloads \/ id \in s.saves
        BY <4>1 DEF WaitsFor
      <4>3. id \in s.saves => Len(s.items) < id
        BY <2>1 DEF Ready, FreeInv
      <4> QED
        BY <1>0, <2>3, <4>2, <4>3, Lengths DEF ItemInv
    <3>3. Shows(s, q)
      BY <2>1, <3>2 DEF Ready
    <3> QED
      BY <1>0, <1>4, <3>1, <3>3 DEF Shows, Found
  <2> QED
    BY <2>2, <2>3
<1>8. /\ id \notin t.downloads \union t.saves /\ t.saves \subseteq s.saves
      /\ t.requests = s.requests /\ t.ongoing = s.ongoing
  BY <1>3 DEF SameAsks
<1>9. answer(t, n) = SetRequest(t, n, r)
  BY <1>5
<1>10. Done(s, answer(t, n), id, n)
  BY <1>3, <1>4, <1>6, <1>7, <1>8, <1>9, SettledDone
<1> QED
  BY <1>1, <1>10

CancelledOf(q) == [q EXCEPT !.state = "cancelled", !.finished = TRUE]
(* What cancel() leaves of a request.                                      *)
LEMMA CancelledRequest ==
  ASSUME NEW q \in RequestSet, NEW r, r = CancelledOf(q)
  PROVE  /\ r \in RequestSet /\ r.id = q.id /\ r.alive = q.alive /\ r.state = "cancelled"
         /\ r.answered = q.answered /\ r.callback = q.callback
BY DEF RequestSet, CancelledOf, States

(* cancel() of a request whose item is gone, or was never there.           *)
LEMMA CancelsGone ==
  ASSUME NEW s \in State, NEW id \in Items, NEW n, Ready(s, id, n), s.client,
         s.requests[n].state = "in_progress", ~Found(s, id)
  PROVE  Done(s, cancel(s, n), id, n)
<1> DEFINE q == s.requests[n]
           t == Erase(s, id)
           c == CancelledOf(q)
           x == SetRequest(t, n, c)
           r == [c EXCEPT !.answered = TRUE]
<1>0. /\ n \in 1 .. Len(s.requests) /\ q.id = id /\ q.alive /\ q \in RequestSet
      /\ q.state = "in_progress" /\ ItemInv(s, id)
  BY Lengths DEF Ready
<1>1. /\ Effect(s, t, id) /\ SameAsks(s, t) /\ t.items = s.items /\ t.queue = s.queue
      /\ t.downloads = s.downloads \ {id} /\ t.saves = s.saves \ {id}
  BY Erased
<1>2. t \in State /\ t.requests = s.requests /\ n \in 1 .. Len(t.requests) /\ t.requests[n] = q
  BY <1>0, <1>1 DEF Effect, SameAsks
<1>3. cancel(s, n) = answer([t EXCEPT !.requests[n].state = "cancelled",
                                      !.requests[n].finished = TRUE], n)
  <2>1. cancelDownload(s, id) = t
    BY DEF cancelDownload
  <2> HIDE DEF t
  <2> QED
    BY <1>0, <2>1 DEF cancel
<1>q. q = s.requests[n] /\ c = CancelledOf(q)
  OBVIOUS
<1>x. x = SetRequest(t, n, c)
  OBVIOUS
<1> HIDE DEF t, q, c, x
<1>4. /\ [t EXCEPT !.requests[n].state = "cancelled", !.requests[n].finished = TRUE] = x
      /\ c \in RequestSet /\ c.id = id /\ c.alive /\ c.state = "cancelled"
      /\ c.answered = q.answered /\ c.callback = q.callback
  <2>1. [t EXCEPT !.requests[n].state = "cancelled", !.requests[n].finished = TRUE]
          = SetRequest(t, n, c)
    BY <1>0, <1>2, <1>q, <1>x DEF State, SetRequest, CancelledOf
  <2>2. c \in RequestSet /\ c.id = q.id /\ c.state = "cancelled"
    BY <1>0, <1>q, CancelledRequest
  <2>3. c.alive = q.alive /\ c.answered = q.answered /\ c.callback = q.callback
    BY <1>0, <1>q, CancelledRequest
  <2> QED
    BY <1>0, <1>x, <2>1, <2>2, <2>3
<1>5. RequestIs(t, x, n, c)
  <2>1. c.id = t.requests[n].id
    BY <1>0, <1>2, <1>4
  <2> QED
    BY <1>2, <1>4, <1>x, <2>1, RequestSetTo
<1>6. /\ x \in State /\ SameItems(t, x) /\ n \in 1 .. Len(x.requests) /\ x.requests[n] = c
      /\ x.requests = [t.requests EXCEPT ![n] = c]
  BY <1>2, <1>5 DEF RequestIs, Effect
<1>7. /\ r \in RequestSet /\ r.id = id /\ r.alive /\ r.answered /\ r.state = "cancelled"
  BY <1>4 DEF RequestSet
<1>8. answer(x, n) = SetRequest(t, n, r)
  <2>0. id \notin x.downloads /\ id \notin x.saves
    BY <1>1, <1>6 DEF SameItems
  <2>1. SetRequest(x, n, r) = SetRequest(t, n, r)
    <3>1. t.requests \in Seq(RequestSet)
      BY <1>2 DEF State
    <3>2. [[t.requests EXCEPT ![n] = c] EXCEPT ![n] = r] = [t.requests EXCEPT ![n] = r]
      BY <1>2, <3>1
    <3> HIDE DEF r
    <3> QED
      BY <1>2, <1>x, <3>2 DEF SetRequest, State
  <2>2. SetRequest(x, n, c) = x
    <3>1. t.requests \in Seq(RequestSet)
      BY <1>2 DEF State
    <3>2. [[t.requests EXCEPT ![n] = c] EXCEPT ![n] = c] = [t.requests EXCEPT ![n] = c]
      BY <1>2, <3>1
    <3> QED
      BY <1>2, <1>x, <3>2 DEF SetRequest, State
  <2>3. CASE ~c.answered
    <3>1. answer(x, n) = SetRequest(x, n, r)
      BY <1>0, <1>4, <1>6, <2>0, <2>3, AnswersNothing
    <3> QED
      BY <2>1, <3>1
  <2>4. CASE c.answered
    <3>1. r = c
      BY <1>4, <2>4 DEF RequestSet
    <3>2. answer(x, n) = x
      BY <1>6, <2>4 DEF answer
    <3> QED
      BY <2>1, <2>2, <3>1, <3>2
  <2> QED
    BY <2>3, <2>4
<1> HIDE DEF r
<1>9. ItemInv(t, id)
  BY <1>0, <1>1, FoundOn DEF ItemInv, Effect
<1>10. Shows(t, r)
  BY <1>1, <1>7 DEF Shows, Found
<1>11. /\ id \notin t.downloads \union t.saves /\ t.saves \subseteq s.saves
       /\ t.requests = s.requests /\ t.ongoing = s.ongoing /\ Len(t.items) = Len(s.items)
  BY <1>1 DEF SameAsks
<1>12. Done(s, SetRequest(t, n, r), id, n)
  <2>1. r.state # "requested"
    BY <1>7
  <2> QED
    BY <1>1, <1>7, <1>9, <1>10, <1>11, <2>1, SettledDone
<1> QED
  BY <1>3, <1>4, <1>8, <1>12

(* cancel() of a request that has not been decided.                        *)
LEMMA CancelsUndecided ==
  ASSUME NEW s \in State, NEW id \in Items, NEW n, Ready(s, id, n), s.client, SavesOK(s, id),
         s.requests[n].state \in {"requested", "interrupted"},
         s.requests[n].answered <=> s.requests[n].state = "interrupted"
  PROVE  Done(s, cancel(s, n), id, n)
<1> DEFINE q == s.requests[n]
           c == CancelledOf(q)
           x == SetRequest(s, n, c)
<1>0. /\ n \in 1 .. Len(s.requests) /\ q.id = id /\ q.alive /\ q \in RequestSet
      /\ q.state \in {"requested", "interrupted"} /\ ItemInv(s, id)
      /\ q.answered <=> q.state = "interrupted"
  BY Lengths DEF Ready
<1>1. cancel(s, n) = answer([s EXCEPT !.requests[n].state = "cancelled",
                                      !.requests[n].finished = TRUE], n)
  BY <1>0 DEF cancel
<1>q. q = s.requests[n] /\ c = CancelledOf(q)
  OBVIOUS
<1>x. x = SetRequest(s, n, c)
  OBVIOUS
<1> HIDE DEF q, c, x
<1>2. /\ [s EXCEPT !.requests[n].state = "cancelled", !.requests[n].finished = TRUE] = x
      /\ c \in RequestSet /\ c.id = id /\ c.alive /\ c.state = "cancelled"
      /\ c.answered = q.answered /\ c.callback = q.callback
  <2>1. [s EXCEPT !.requests[n].state = "cancelled", !.requests[n].finished = TRUE]
          = SetRequest(s, n, c)
    BY <1>0, <1>q, <1>x DEF State, SetRequest, CancelledOf
  <2>2. c \in RequestSet /\ c.id = q.id /\ c.state = "cancelled"
    BY <1>0, <1>q, CancelledRequest
  <2>3. c.alive = q.alive /\ c.answered = q.answered /\ c.callback = q.callback
    BY <1>0, <1>q, CancelledRequest
  <2> QED
    BY <1>0, <1>x, <2>1, <2>2, <2>3
<1>3. RequestIs(s, x, n, c)
  <2>1. c.id = s.requests[n].id
    BY <1>0, <1>2, <1>q
  <2> QED
    BY <1>0, <1>2, <1>x, <2>1, RequestSetTo
<1>4. /\ Effect(s, x, id) /\ x \in State /\ SameItems(s, x)
      /\ x.ongoing = s.ongoing /\ x.queue = s.queue
      /\ Len(x.requests) = Len(s.requests) /\ x.requests[n] = c
      /\ \A m \in 1 .. Len(s.requests) : m # n => x.requests[m] = s.requests[m]
  BY <1>2, <1>3 DEF RequestIs, Effect
<1>5. CASE q.state = "requested"
  <2>1. ~q.answered /\ ~c.answered
    BY <1>0, <1>2, <1>5
  <2>2. Ready(x, id, n)
    BY <1>2, <1>4, <1>q, <2>1, ReadyWith
  <2>3. x.client /\ SavesOK(x, id) /\ x.requests[n].state # "requested"
    BY <1>2, <1>4 DEF SameItems, SavesOK
  <2>4. Done(x, answer(x, n), id, n)
    BY <1>4, <2>2, <2>3, Answers
  <2>5. Done(s, answer(x, n), id, n)
    BY <1>4, <2>4, DoneThen
  <2> QED
    BY <1>1, <1>2, <2>5
<1>6. CASE q.state = "interrupted"
  <2>1. q.answered /\ c.answered
    BY <1>0, <1>2, <1>6
  <2>2. answer(x, n) = x
    BY <1>4, <2>1 DEF answer
  <2>3. ASSUME ~s.clash PROVE Shows(s, c)
    <3>1. Shows(s, q)
      BY <1>q, <2>1, <2>3 DEF Ready
    <3>2. c.id = q.id /\ c.state = "cancelled"
      BY <1>0, <1>2
    <3> QED
      BY <1>6, <3>1, <3>2 DEF Shows
  <2>4. Effect(s, s, id)
    BY EffectNone
  <2>5. Done(s, x, id, n)
    <3>1. c.state # "requested" /\ s.requests[n].answered
      BY <1>2, <1>q, <2>1
    <3> QED
      BY <1>0, <1>2, <1>x, <2>1, <2>3, <2>4, <3>1, SettledDone
  <2> QED
    BY <1>1, <1>2, <2>2, <2>5
<1> QED
  BY <1>0, <1>5, <1>6

CancelOK(r) == /\ r.state = "requested" => ~r.answered
               /\ r.state \notin {"requested", "in_progress"} => r.answered
(* cancel(), all of it.                                                    *)
LEMMA Cancels ==
  ASSUME NEW s \in State, NEW id \in Items, NEW n, Ready(s, id, n), s.client, SavesOK(s, id),
         CancelOK(s.requests[n])
  PROVE  Done(s, cancel(s, n), id, n)
<1> DEFINE q == s.requests[n]
<1>0. /\ n \in 1 .. Len(s.requests) /\ q.id = id /\ q.alive
      /\ q.state \in {"requested", "in_progress", "interrupted", "complete", "cancelled"}
  BY Lengths DEF Ready, RequestSet, States
<1>1. CASE q.state = "in_progress"
  BY <1>1, CancelsStarted, CancelsGone
<1>2. CASE q.state \in {"requested", "interrupted"}
  <2>1. q.answered <=> q.state = "interrupted"
    BY <1>2 DEF CancelOK
  <2> QED
    BY <1>2, <2>1, CancelsUndecided
<1>3. CASE q.state \in {"complete", "cancelled"}
  <2>1. cancel(s, n) = s
    BY <1>3 DEF cancel
  <2>2. q.answered /\ q.state # "requested"
    BY <1>3 DEF CancelOK
  <2>3. IdInv(s, id)
    BY <2>2, InvIfReady DEF Settled
  <2> QED
    BY <1>0, <2>1, <2>2, <2>3, EffectNone DEF Done, Grows
<1> QED
  BY <1>0, <1>1, <1>2, <1>3

(* The destructor of a request, and downloadDestroyed().                   *)
Forgotten(t, n, id) == [t EXCEPT !.requests[n] = GoneRequest(id), !.ongoing[id] = 0]
(* The end of a request: its item and its callbacks go with it.            *)
LEMMA Removes ==
  ASSUME NEW t \in State, NEW id \in Items, NEW n \in 1 .. Len(t.requests),
         t.requests[n].id = id, IdInv(t, id),
         NEW y, y = Forgotten(t, n, id),
         NEW e, e = removeDownload(y, id)
  PROVE  Effect(t, e, id) /\ Grows(t, e) /\ Len(e.items) = Len(t.items)
         /\ e.saves \subseteq t.saves /\ IdInv(e, id)
<1> DEFINE r == GoneRequest(id)
           f == [t.requests EXCEPT ![n] = r]
           o == [t.ongoing EXCEPT ![id] = 0]
<1>1. r \in RequestSet /\ r.id = id /\ ~r.alive
  BY DEF GoneRequest, NewRequest, RequestSet, States
<1> HIDE DEF r
<1>2. /\ f \in Seq(RequestSet) /\ Len(f) = Len(t.requests) /\ f[n] = r
      /\ \A m \in 1 .. Len(t.requests) : m # n => f[m] = t.requests[m]
      /\ o \in [Items -> Nat] /\ o[id] = 0 /\ \A j \in Items : j # id => o[j] = t.ongoing[j]
  BY <1>1 DEF State
<1>3. y = [t EXCEPT !.requests = f, !.ongoing = o]
  BY DEF State, r, Forgotten
<1> HIDE DEF f, o
<1>4. y \in State /\ SameItems(t, y) /\ y.requests = f /\ y.ongoing = o /\ y.queue = t.queue
  BY <1>2, <1>3 DEF State, SameItems
<1>5. Effect(t, y, id)
  <2>1. Len(t.items) \in Nat /\ Grown(t.queue, y.queue)
    BY <1>4, Lengths DEF Grown
  <2>2. ASSUME NEW j \in Items, j # id PROVE View(t, y, j)
    <3>1. RequestsOn(t, y, j)
      BY <1>1, <1>2, <1>4, <2>2 DEF RequestsOn
    <3>2. ItemsOn(t, y, j) /\ SetsOn(t, y, j)
      BY <1>4, <2>1 DEF ItemsOn, SetsOn, SameItems
    <3>3. QueueOn(t.queue, y.queue, j, ~y.clash)
      BY <1>4, QueueSame
    <3> QED
      BY <1>4, <3>1, <3>2, <3>3 DEF View, SameItems
  <2> QED
    BY <1>4, <2>1, <2>2 DEF Effect, SameItems
<1>6. id \in 1 .. Len(y.items) => Watched(y, id)
  BY <1>4 DEF SameItems, Watched, IdInv, ItemInv
<1>7. /\ Effect(y, e, id) /\ SameAsks(y, e) /\ Len(e.items) = Len(t.items)
      /\ e.downloads = t.downloads \ {id} /\ e.saves = t.saves \ {id}
      /\ id \in 1 .. Len(e.items) => e.items[id].state = "gone" /\ e.items[id].observers = 0
  <2>1. /\ Effect(y, e, id) /\ SameAsks(y, e) /\ Len(e.items) = Len(y.items)
        /\ e.downloads = y.downloads \ {id} /\ e.saves = y.saves \ {id}
        /\ id \in 1 .. Len(y.items) => e.items[id].state = "gone" /\ e.items[id].observers = 0
    <3>1. Effect(y, e, id) /\ SameAsks(y, e)
      BY <1>4, <1>6, DownloadRemoved
    <3>2. /\ Len(e.items) = Len(y.items)
          /\ e.downloads = y.downloads \ {id} /\ e.saves = y.saves \ {id}
      BY <1>4, <1>6, DownloadRemoved
    <3>3. id \in 1 .. Len(y.items) => e.items[id].state = "gone" /\ e.items[id].observers = 0
      BY <1>4, <1>6, DownloadRemoved
    <3> QED
      BY <3>1, <3>2, <3>3
  <2> QED
    BY <1>4, <2>1 DEF SameItems
<1>8. Effect(t, e, id) /\ e \in State
  <2>1. Effect(t, e, id)
    BY <1>4, <1>5, <1>7, EffectThen
  <2> QED
    BY <2>1 DEF Effect
<1>9. /\ Grown(t.queue, e.queue) /\ e.requests = f /\ e.ongoing = o
      /\ e.clash = t.clash /\ e.given = t.given /\ e.currentId = t.currentId
  BY <1>4, <1>7, <1>8 DEF SameAsks, SameItems, Effect
<1>10. \A k \in 1 .. Len(e.queue) : Asks(e.queue[k], id) => k \in 1 .. Len(t.queue)
                                                            /\ e.queue[k] = t.queue[k]
  BY <1>9 DEF Grown, Asks
<1>11. \A m \in 1 .. Len(f) : f[m].id = t.requests[m].id /\ (f[m].alive => f[m] = t.requests[m])
  BY <1>1, <1>2
<1>12. ItemInv(e, id) /\ ComesInv(e, id)
  BY <1>7 DEF ItemInv, ComesInv
<1>13. AskedInv(e, id)
  <2>1. AskedInv(t, id)
    BY DEF IdInv
  <2>2. \A m \in 1 .. Len(e.requests) : e.requests[m].id = id /\ e.requests[m].alive =>
          (e.requests[m].answered <=> e.requests[m].state # "requested")
    BY <1>2, <1>9, <1>11, <2>1 DEF AskedInv
  <2>3. \A k \in 1 .. Len(e.queue) : Asks(e.queue[k], id) /\ e.queue[k].accepted => e.queue[k].save
    BY <1>10, <2>1 DEF AskedInv
  <2>4. e.ongoing[id] = 0
    BY <1>2, <1>9
  <2> QED
    BY <2>2, <2>3, <2>4 DEF AskedInv
<1>14. ASSUME ~e.clash PROVE FreeInv(e, id) /\ OwnInv(e, id)
  <2>1. FreeInv(t, id)
    BY <1>9, <1>14 DEF IdInv
  <2>2. \A k \in 1 .. Len(e.queue) : ~Asks(e.queue[k], id)
    BY <1>10, <2>1 DEF FreeInv
  <2>3. \A m \in 1 .. Len(e.requests) : e.requests[m].id = id => m = n
    BY <1>2, <1>9, <1>11, <2>1 DEF FreeInv
  <2>4. FreeInv(e, id)
    BY <1>2, <1>7, <1>9, <1>11, <2>1, <2>2 DEF FreeInv
  <2>5. ~Found(e, id)
    BY <1>7, <1>8, FoundOn
  <2>6. OwnRequest(e, n)
    BY <1>1, <1>2, <1>7, <1>9, <2>5 DEF OwnRequest
  <2> QED
    BY <2>2, <2>3, <2>4, <2>6 DEF OwnInv
<1>15. IdInv(e, id)
  BY <1>12, <1>13, <1>14 DEF IdInv
<1> QED
  BY <1>7, <1>8, <1>15 DEF Grows

(* The destructor, which cancels first what has not finished.              *)
LEMMA Deletes ==
  ASSUME NEW s \in State, NEW id \in Items, NEW n \in 1 .. Len(s.requests), s.client,
         s.requests[n].id = id, s.requests[n].alive, IdInv(s, id), SavesOK(s, id)
  PROVE  LET e == Delete(s, n) IN Effect(s, e, id) /\ Grows(s, e) /\ IdInv(e, id)
<1> DEFINE t == IF s.requests[n].finished THEN s ELSE cancel(s, n)
           y == Forgotten(t, n, id)
           e == removeDownload(y, id)
<1>1. Delete(s, n) = e
  BY DEF Delete, Forgotten
<1>2. /\ Effect(s, t, id) /\ Grows(s, t) /\ IdInv(t, id)
      /\ n \in 1 .. Len(t.requests) /\ t.requests[n].id = id
  <2>1. CASE s.requests[n].finished
    BY <2>1, EffectNone DEF Grows
  <2>2. CASE ~s.requests[n].finished
    <3>1. Ready(s, id, n) /\ CancelOK(s.requests[n])
      BY ReadyIfInv DEF Settled, CancelOK
    <3>2. Done(s, cancel(s, n), id, n)
      BY <3>1, Cancels
    <3> QED
      BY <2>2, <3>2 DEF Done
  <2> QED
    BY <2>1, <2>2
<1> HIDE DEF t
<1>3. t \in State
  BY <1>2 DEF Effect
<1>4. /\ Effect(t, e, id) /\ Grows(t, e) /\ Len(e.items) = Len(t.items)
      /\ e.saves \subseteq t.saves /\ IdInv(e, id)
  <2>1. y = Forgotten(t, n, id)
    OBVIOUS
  <2>2. e = removeDownload(y, id)
    OBVIOUS
  <2> HIDE DEF y, e
  <2> QED
    BY <1>2, <1>3, <2>1, <2>2, Removes
<1> HIDE DEF e
<1>5. Effect(s, e, id) /\ e \in State
  <2>1. Effect(s, e, id)
    BY <1>2, <1>3, <1>4, EffectThen
  <2> QED
    BY <2>1 DEF Effect
<1>6. Grows(s, e)
  <2>1. t.currentId = s.currentId /\ (t.clash => e.clash)
    BY <1>2, <1>4 DEF Effect
  <2> QED
    BY <1>2, <1>3, <1>4, <1>5, <2>1, GrowsThen
<1> QED
  BY <1>1, <1>4, <1>5, <1>6
-----------------------------------------------------------------------------
(***************************************************************************)
(* The profile takes the next timer.                                       *)
(***************************************************************************)
Step(s, e, id) ==
  /\ e \in State /\ e.client = s.client /\ e.currentId = s.currentId /\ (s.clash => e.clash)
  /\ Grows(s, e) /\ IdInv(e, id)
  /\ \A j \in Items : j # id => View(s, e, j)

(* An operator on one number is such a step.                               *)
LEMMA StepIfEffect ==
  ASSUME NEW s \in State, NEW e, NEW id, Effect(s, e, id), Grows(s, e), IdInv(e, id)
  PROVE  Step(s, e, id)
BY DEF Effect, Step

Shifted(s) == [s EXCEPT !.queue = Tail(s.queue)]
(* The next message is taken.                                              *)
LEMMA Shift ==
  ASSUME NEW s \in State, s.queue # <<>>, NEW m, m = s.queue[1], NEW t, t = Shifted(s)
  PROVE  /\ m \in Updated \union Requested /\ m.id \in Items /\ Len(s.queue) \in Nat
         /\ Len(s.queue) > 0
         /\ t \in State /\ SameItems(s, t) /\ t.requests = s.requests /\ t.ongoing = s.ongoing
         /\ Len(t.queue) = Len(s.queue) - 1
         /\ \A k \in 1 .. Len(s.queue) - 1 : t.queue[k] = s.queue[k + 1]
         /\ \A j \in Items : j # m.id => View(s, t, j)
<1> DEFINE p == Tail(s.queue)
<1>0. s.queue \in Seq(Updated \union Requested) /\ Len(s.items) \in Nat
  BY Lengths DEF State
<1>1. /\ p \in Seq(Updated \union Requested) /\ Len(p) = Len(s.queue) - 1 /\ Len(s.queue) \in Nat
      /\ Len(s.queue) > 0 /\ s.queue[1] \in Updated \union Requested
      /\ \A k \in 1 .. Len(s.queue) - 1 : p[k] = s.queue[k + 1]
  BY <1>0, QueueTail
<1>2. \A j : m.id # j => QueueOn(s.queue, p, j, ~s.clash)
  BY <1>0, QueueTail
<1>3. t = [s EXCEPT !.queue = p]
  BY DEF Shifted
<1> HIDE DEF p
<1>4. /\ t \in State /\ SameItems(s, t) /\ t.requests = s.requests /\ t.ongoing = s.ongoing
      /\ t.queue = p
  BY <1>1, <1>3 DEF State, SameItems
<1>5. ASSUME NEW j \in Items, j # m.id PROVE View(s, t, j)
  <2>1. ItemsOn(s, t, j) /\ SetsOn(s, t, j) /\ RequestsOn(s, t, j)
    BY <1>0, <1>4 DEF ItemsOn, SetsOn, RequestsOn, SameItems
  <2> QED
    BY <1>2, <1>4, <1>5, <2>1 DEF View, SameItems
<1>6. m.id \in Items
  BY <1>1 DEF Updated, Requested
<1> QED
  BY <1>1, <1>4, <1>5, <1>6

(* If it is an update, every answer still comes.                           *)
LEMMA ShiftUpdate ==
  ASSUME NEW s \in State, s.queue # <<>>, NEW m, m = s.queue[1], m.type = "updated",
         NEW t, t = Shifted(s), NEW id
  PROVE  QueueOn(s.queue, t.queue, id, FALSE)
<1>1. /\ Len(s.queue) \in Nat /\ Len(s.queue) > 0 /\ Len(t.queue) = Len(s.queue) - 1
      /\ \A k \in 1 .. Len(s.queue) - 1 : t.queue[k] = s.queue[k + 1]
  BY Shift
<1>2. ASSUME NEW k \in 1 .. Len(s.queue), Asks(s.queue[k], id)
      PROVE  \E l \in 1 .. Len(t.queue) : t.queue[l] = s.queue[k]
  <2>1. k # 1
    BY <1>2 DEF Asks
  <2>2. k - 1 \in 1 .. Len(s.queue) - 1 /\ (k - 1) + 1 = k
    BY <1>1, <2>1
  <2>3. t.queue[k - 1] = s.queue[k]
    BY <1>1, <2>2
  <2> QED
    BY <1>1, <2>2, <2>3
<1>3. \A k \in 1 .. Len(t.queue) : k + 1 \in 1 .. Len(s.queue) /\ t.queue[k] = s.queue[k + 1]
  BY <1>1
<1> QED
  BY <1>2, <1>3 DEF QueueOn

(* An update that changes no request.                                      *)
LEMMA UpdateDropped ==
  ASSUME NEW s \in State, s.queue # <<>>, NEW m, m = s.queue[1], m.type = "updated",
         NEW t, t = Shifted(s), NEW id, id = m.id, IdInv(s, id),
         ~s.clash => \A n \in 1 .. Len(s.requests) :
                       s.requests[n].id = id /\ s.requests[n].alive => ~s.requests[n].answered
  PROVE  IdInv(t, id)
<1>1. /\ t \in State /\ SameItems(s, t) /\ t.requests = s.requests /\ t.ongoing = s.ongoing
  BY Shift
<1>2. QueueOn(s.queue, t.queue, id, FALSE)
  BY ShiftUpdate
<1>3. /\ \A k \in 1 .. Len(s.queue) : Asks(s.queue[k], id) => \E l \in 1 .. Len(t.queue) : t.queue[l] = s.queue[k]
      /\ \A k \in 1 .. Len(t.queue) : Asks(t.queue[k], id) => \E l \in 1 .. Len(s.queue) : s.queue[l] = t.queue[k]
  BY <1>2 DEF QueueOn
<1>4. \A cb : Comes(s, id, cb) => Comes(t, id, cb)
  <2> SUFFICES ASSUME NEW cb, Comes(s, id, cb) PROVE Comes(t, id, cb)
    OBVIOUS
  <2>1. CASE \E k \in 1 .. Len(s.queue) : Asks(s.queue[k], id) /\ s.queue[k].callback = cb
    <3>1. PICK k \in 1 .. Len(s.queue) : Asks(s.queue[k], id) /\ s.queue[k].callback = cb
      BY <2>1
    <3>2. PICK l \in 1 .. Len(t.queue) : t.queue[l] = s.queue[k]
      BY <1>3, <3>1
    <3> QED
      BY <3>1, <3>2 DEF Comes
  <2>2. CASE \E n \in 1 .. Len(s.requests) : Waits(s.requests[n], id) /\ s.requests[n].callback = cb
    BY <1>1, <2>2 DEF Comes
  <2> QED
    BY <2>1, <2>2 DEF Comes
<1>5. ItemInv(t, id) /\ ComesInv(t, id) /\ AskedInv(t, id)
  <2>1. ItemInv(t, id)
    BY <1>1 DEF IdInv, ItemInv, SameItems
  <2>2. ComesInv(t, id)
    BY <1>1, <1>4 DEF IdInv, ComesInv, SameItems
  <2>3. AskedInv(t, id)
    <3>1. AskedInv(s, id)
      BY DEF IdInv
    <3>2. ASSUME NEW k \in 1 .. Len(t.queue), Asks(t.queue[k], id), t.queue[k].accepted
          PROVE  t.queue[k].save
      <4>1. PICK l \in 1 .. Len(s.queue) : s.queue[l] = t.queue[k]
        BY <1>3, <3>2
      <4> QED
        BY <3>1, <3>2, <4>1 DEF AskedInv
    <3> QED
      BY <1>1, <3>1, <3>2 DEF AskedInv
  <2> QED
    BY <2>1, <2>2, <2>3
<1>6. ASSUME ~t.clash PROVE FreeInv(t, id) /\ OwnInv(t, id)
  <2>0. FreeInv(s, id) /\ OwnInv(s, id) /\ ~s.clash
    BY <1>1, <1>6 DEF IdInv, SameItems
  <2>1. /\ Len(s.queue) \in Nat /\ Len(t.queue) = Len(s.queue) - 1
        /\ \A k \in 1 .. Len(s.queue) - 1 : t.queue[k] = s.queue[k + 1]
    BY Shift
  <2>2. \A k, l \in 1 .. Len(t.queue) : Asks(t.queue[k], id) /\ Asks(t.queue[l], id) => k = l
    <3> SUFFICES ASSUME NEW k \in 1 .. Len(t.queue), NEW l \in 1 .. Len(t.queue),
                        Asks(t.queue[k], id), Asks(t.queue[l], id)
                 PROVE  k = l
      OBVIOUS
    <3>1. /\ k + 1 \in 1 .. Len(s.queue) /\ t.queue[k] = s.queue[k + 1]
          /\ l + 1 \in 1 .. Len(s.queue) /\ t.queue[l] = s.queue[l + 1]
      BY <2>1
    <3>2. k + 1 = l + 1
      BY <2>0, <3>1 DEF FreeInv
    <3> QED
      BY <3>2
  <2>3. FreeInv(t, id)
    BY <1>1, <1>3, <2>0, <2>2 DEF FreeInv, SameItems
  <2>4. ASSUME NEW n \in 1 .. Len(t.requests), t.requests[n].id = id PROVE OwnRequest(t, n)
    <3>1. OwnRequest(s, n)
      BY <1>1, <2>0, <2>4 DEF OwnInv
    <3>2. t.requests[n].alive => ~t.requests[n].answered
      BY <1>1, <2>0, <2>4
    <3> QED
      BY <1>1, <3>1, <3>2 DEF OwnRequest, WaitsFor, Found, SameItems
  <2>5. \A k \in 1 .. Len(t.queue) : Asks(t.queue[k], id) => WaitsFor(t, id, t.queue[k].callback)
    <3> SUFFICES ASSUME NEW k \in 1 .. Len(t.queue), Asks(t.queue[k], id)
                 PROVE  WaitsFor(t, id, t.queue[k].callback)
      OBVIOUS
    <3>1. PICK l \in 1 .. Len(s.queue) : s.queue[l] = t.queue[k]
      BY <1>3
    <3>2. WaitsFor(s, id, s.queue[l].callback)
      BY <2>0, <3>1 DEF OwnInv
    <3> QED
      BY <1>1, <3>1, <3>2 DEF WaitsFor, SameItems
  <2> QED
    BY <2>3, <2>4, <2>5 DEF OwnInv
<1> QED
  BY <1>5, <1>6 DEF IdInv

(* What a request shows once the update at the head has been applied.      *)
LEMMA ShowsUpdated ==
  ASSUME NEW s \in State, s.queue # <<>>, NEW m, m = s.queue[1], m.type = "updated",
         NEW t, t = Shifted(s), NEW q \in RequestSet, q.id = m.id, Shows(s, q),
         NEW r, r.id = q.id, r.state = m.state
  PROVE  Shows(t, r)
<1>1. /\ t \in State /\ SameItems(s, t) /\ Len(s.queue) \in Nat /\ Len(s.queue) > 0
      /\ Len(t.queue) = Len(s.queue) - 1
      /\ \A k \in 1 .. Len(s.queue) - 1 : t.queue[k] = s.queue[k + 1]
  BY Shift
<1>2. SUFFICES ASSUME Found(t, r.id)
               PROVE  \/ UpToDate(t.queue, r.id, t.items[r.id].state)
                      \/ NoUpdate(t.queue, r.id) /\ r.state = t.items[r.id].state
  BY DEF Shows
<1> DEFINE id == m.id
           st == s.items[id].state
<1>3. Found(s, id) /\ r.id = id /\ t.items = s.items
  BY <1>1, <1>2 DEF Found, SameItems
<1>4. Updates(s.queue[1], id) /\ 1 \in 1 .. Len(s.queue)
  BY <1>1 DEF Updates
<1>5. UpToDate(s.queue, id, st)
  BY <1>3, <1>4 DEF Shows, NoUpdate
<1> HIDE DEF id, st
<1>6. PICK k \in 1 .. Len(s.queue) : /\ Updates(s.queue[k], id) /\ s.queue[k].state = st
                                     /\ \A j \in k + 1 .. Len(s.queue) : ~Updates(s.queue[j], id)
  BY <1>5 DEF UpToDate
<1>7. CASE k = 1
  <2>1. \A j \in 1 .. Len(t.queue) : j + 1 \in 2 .. Len(s.queue) /\ t.queue[j] = s.queue[j + 1]
    BY <1>1
  <2>2. NoUpdate(t.queue, id)
    BY <1>6, <1>7, <2>1 DEF NoUpdate
  <2>3. r.state = st
    BY <1>6, <1>7
  <2> QED
    BY <1>3, <2>2, <2>3 DEF st, id
<1>8. CASE k # 1
  <2>1. /\ k - 1 \in 1 .. Len(s.queue) - 1 /\ (k - 1) + 1 = k /\ k - 1 \in 1 .. Len(t.queue)
    BY <1>1, <1>8
  <2>2. t.queue[k - 1] = s.queue[k]
    BY <1>1, <2>1
  <2>3. \A j \in (k - 1) + 1 .. Len(t.queue) :
          j \in 1 .. Len(s.queue) - 1 /\ j + 1 \in k + 1 .. Len(s.queue)
    BY <1>1, <2>1
  <2>4. \A j \in (k - 1) + 1 .. Len(t.queue) : ~Updates(t.queue[j], id)
    BY <1>1, <1>6, <2>3
  <2>5. UpToDate(t.queue, id, st)
    BY <1>6, <2>1, <2>2, <2>4 DEF UpToDate
  <2> QED
    BY <1>3, <2>5 DEF st, id
<1> QED
  BY <1>7, <1>8

UpdatedOf(q, m) == [q EXCEPT !.state = m.state, !.finished = @ \/ m.done]
(* What update() makes of a request.                                       *)
LEMMA UpdatedRequest ==
  ASSUME NEW t \in State, NEW n \in 1 .. Len(t.requests), NEW m,
         ~Undecided(t.requests[n])
  PROVE  Update(t, n, m) = SetRequest(t, n, UpdatedOf(t.requests[n], m))
<1> DEFINE q == t.requests[n]
           r == UpdatedOf(q, m)
           f == [t.requests EXCEPT ![n].state = m.state]
           x == [t EXCEPT !.requests = f]
           g == [f EXCEPT ![n].finished = @ \/ m.done]
<1>1. Update(t, n, m) = [t EXCEPT !.requests[n].state = m.state, !.requests[n].finished = @ \/ m.done]
  BY DEF Update
<1>2. [t EXCEPT !.requests[n].state = m.state, !.requests[n].finished = @ \/ m.done]
        = [x EXCEPT !.requests = g]
  BY DEF State
<1>3. [x EXCEPT !.requests = g] = [t EXCEPT !.requests = g]
  BY DEF State
<1>4. q \in RequestSet /\ t.requests \in Seq(RequestSet)
  BY Lengths DEF State
<1>5. f = [t.requests EXCEPT ![n] = [q EXCEPT !.state = m.state]]
  BY <1>4
<1>6. f[n] = [q EXCEPT !.state = m.state]
  BY <1>4, <1>5
<1>7. f[n].finished = q.finished
  BY <1>4, <1>6 DEF RequestSet
<1>8. g = [t.requests EXCEPT ![n] = r]
  <2>1. g = [f EXCEPT ![n] = [f[n] EXCEPT !.finished = f[n].finished \/ m.done]]
    OBVIOUS
  <2>2. [f[n] EXCEPT !.finished = f[n].finished \/ m.done] = r
    BY <1>4, <1>6, <1>7 DEF RequestSet, UpdatedOf
  <2> HIDE DEF f
  <2>3. [f EXCEPT ![n] = r] = [t.requests EXCEPT ![n] = r]
    BY <1>4, <1>5
  <2> QED
    BY <2>1, <2>2, <2>3
<1> QED
  BY <1>1, <1>2, <1>3, <1>8 DEF SetRequest

(* downloadUpdated(), all of it.                                           *)
LEMMA DeliversUpdate ==
  ASSUME NEW s \in State, s.queue # <<>>, NEW m, m = s.queue[1], m.type = "updated",
         NEW t, t = Shifted(s), NEW id, id = m.id, IdInv(s, id)
  PROVE  Step(s, downloadUpdated(t, m), id)
<1> DEFINE n == s.ongoing[id]
           q == s.requests[n]
           e == downloadUpdated(t, m)
<1>1. /\ m \in Updated \union Requested /\ id \in Items
      /\ t \in State /\ SameItems(s, t) /\ t.requests = s.requests /\ t.ongoing = s.ongoing
      /\ \A j \in Items : j # id => View(s, t, j)
  BY Shift
<1>2. m.state \in States
  BY <1>1 DEF Updated, Requested
<1>3. e = IF n = 0 THEN t ELSE Update(t, n, m)
  BY <1>1 DEF downloadUpdated
<1>4. Len(s.items) \in Nat
  BY Lengths
<1>5. ASSUME NEW x \in 1 .. Len(s.requests), s.requests[x].id = id, s.requests[x].alive, ~s.clash
      PROVE  n = x /\ n # 0
  BY <1>5 DEF IdInv, OwnInv, OwnRequest
<1>6. CASE n = 0 \/ Undecided(q)
  <2>1. e = t
    BY <1>1, <1>3, <1>6 DEF Update
  <2>2. ~s.clash => \A x \in 1 .. Len(s.requests) :
                      s.requests[x].id = id /\ s.requests[x].alive => ~s.requests[x].answered
    BY <1>5, <1>6 DEF Undecided
  <2>3. IdInv(t, id)
    BY <2>2, UpdateDropped
  <2>4. Grows(s, t)
    BY <1>1, <1>4 DEF Grows, SameItems
  <2>5. Step(s, t, id)
    BY <1>1, <2>3, <2>4 DEF Step, SameItems
  <2> QED
    BY <2>1, <2>5
<1>7. CASE n # 0 /\ ~Undecided(q)
  <2> DEFINE r == UpdatedOf(q, m)
  <2>0. /\ n \in 1 .. Len(s.requests) /\ q.id = id /\ q.alive /\ q \in RequestSet
        /\ Ready(s, id, n) /\ Settled(q)
    <3>1. n \in 1 .. Len(s.requests) /\ q.id = id /\ q.alive
      BY <1>7 DEF IdInv, AskedInv
    <3> QED
      BY <1>1, <3>1, ReadyIfInv, Lengths
  <2>1. e = Update(t, n, m)
    BY <1>3, <1>7
  <2>2. q = t.requests[n] /\ q = s.requests[n]
    BY <1>1
  <2> HIDE DEF q, n
  <2>3. m.done \in BOOLEAN /\ q.finished \in BOOLEAN
    BY <1>1, <2>0 DEF Updated, Requested, RequestSet
  <2>4. /\ r \in RequestSet /\ r.id = id /\ r.alive /\ r.state = m.state
        /\ r.answered = q.answered
    BY <1>2, <2>0, <2>3 DEF RequestSet, UpdatedOf
  <2>5. e = SetRequest(t, n, r)
    <3>1. n \in 1 .. Len(t.requests) /\ t \in State /\ ~Undecided(q)
      BY <1>1, <1>7, <2>0
    <3>2. r = UpdatedOf(q, m)
      OBVIOUS
    <3> HIDE DEF r
    <3>3. ~Undecided(t.requests[n])
      BY <2>2, <3>1
    <3>4. Update(t, n, m) = SetRequest(t, n, UpdatedOf(t.requests[n], m))
      BY <3>1, <3>3, UpdatedRequest
    <3> QED
      BY <2>1, <2>2, <3>2, <3>4
  <2>6. q.answered /\ r.answered /\ r.state # "requested"
    <3>1. q.answered
      BY <1>7, <2>0 DEF Undecided, Settled
    <3> QED
      BY <1>2, <2>4, <3>1 DEF States
  <2> HIDE DEF e, r
  <2>7. RequestIs(t, e, n, r)
    <3>1. r.id = t.requests[n].id /\ n \in 1 .. Len(t.requests)
      BY <1>1, <2>0, <2>2, <2>4
    <3> QED
      BY <1>1, <2>4, <2>5, <3>1, RequestSetTo
  <2>8. /\ Effect(t, e, id) /\ SameItems(t, e) /\ e.ongoing = s.ongoing /\ e.queue = t.queue
        /\ e.requests = [s.requests EXCEPT ![n] = r]
    BY <1>1, <2>4, <2>7 DEF RequestIs
  <2>9. e \in State /\ SameItems(s, e)
    BY <1>1, <2>8 DEF Effect, SameItems
  <2>10. QueueOn(s.queue, e.queue, id, FALSE)
    BY <2>8, ShiftUpdate
  <2>11. ItemInv(e, id)
    BY <2>9 DEF IdInv, ItemInv, SameItems
  <2>12. ASSUME ~e.clash PROVE Shows(e, r)
    <3>1. Shows(s, q)
      BY <2>0, <2>2, <2>6, <2>9, <2>12, <1>1 DEF Ready, SameItems
    <3>2. Shows(t, r)
      BY <1>1, <2>0, <2>4, <3>1, ShowsUpdated
    <3> QED
      BY <2>8, <3>2 DEF Shows, Found, SameItems
  <2>13. IdInv(e, id)
    <3>1. /\ id \in e.downloads => /\ id \in s.downloads
                                   /\ s.requests[n].answered \/ ~s.requests[n].callback
          /\ id \in e.saves => /\ id \in s.saves /\ Len(e.items) = Len(s.items)
                               /\ s.requests[n].answered \/ s.requests[n].callback
      BY <1>1, <2>2, <2>6, <2>9 DEF SameItems
    <3>2. /\ e.given = s.given /\ e.currentId = s.currentId /\ (s.clash => e.clash)
          /\ Len(s.items) <= Len(e.items)
      BY <1>4, <2>9 DEF SameItems
    <3> QED
      BY <1>1, <2>0, <2>4, <2>6, <2>8, <2>9, <2>10, <2>11, <2>12, <3>1, <3>2, SettledKeeps
  <2>14. \A j \in Items : j # id => View(s, e, j)
    BY <1>1, <2>8, <2>9, ViewThen DEF Effect
  <2>15. Grows(s, e)
    BY <1>4, <2>9 DEF Grows, SameItems
  <2> QED
    BY <2>9, <2>13, <2>14, <2>15 DEF Step, SameItems, e
<1> QED
  BY <1>6, <1>7

(* The request at the head is gone from the queue.                         *)
LEMMA HeadAsks ==
  ASSUME NEW s \in State, s.queue # <<>>, NEW m, m = s.queue[1], m.type = "requested",
         NEW t, t = Shifted(s), NEW id, id = m.id, IdInv(s, id)
  PROVE  /\ m.accepted \in BOOLEAN /\ m.save \in BOOLEAN /\ m.callback \in BOOLEAN
         /\ m.accepted => m.save
         /\ \A k \in 1 .. Len(t.queue) : Asks(t.queue[k], id) =>
              \E l \in 1 .. Len(s.queue) : l # 1 /\ s.queue[l] = t.queue[k]
         /\ \A k \in 1 .. Len(s.queue) : k # 1 => k - 1 \in 1 .. Len(t.queue)
                                                      /\ t.queue[k - 1] = s.queue[k]
         /\ ~s.clash =>
              /\ \A n \in 1 .. Len(s.requests) : s.requests[n].id # id
              /\ \A k \in 1 .. Len(t.queue) : ~Asks(t.queue[k], id)
              /\ id \in s.given /\ WaitsFor(s, id, m.callback)
<1>1. /\ m \in Updated \union Requested /\ Len(s.queue) \in Nat /\ Len(s.queue) > 0
      /\ Len(t.queue) = Len(s.queue) - 1
      /\ \A k \in 1 .. Len(s.queue) - 1 : t.queue[k] = s.queue[k + 1]
  BY Shift
<1>2. /\ m.accepted \in BOOLEAN /\ m.save \in BOOLEAN /\ m.callback \in BOOLEAN
  BY <1>1 DEF Updated, Requested
<1>3. 1 \in 1 .. Len(s.queue) /\ Asks(s.queue[1], id)
  BY <1>1 DEF Asks
<1>4. m.accepted => m.save
  BY <1>3 DEF IdInv, AskedInv
<1>5. \A k \in 1 .. Len(t.queue) : /\ k + 1 \in 1 .. Len(s.queue) /\ k + 1 # 1
                                   /\ s.queue[k + 1] = t.queue[k]
  BY <1>1
<1>6. ASSUME NEW k \in 1 .. Len(s.queue), k # 1
      PROVE  k - 1 \in 1 .. Len(t.queue) /\ t.queue[k - 1] = s.queue[k]
  <2>1. k - 1 \in 1 .. Len(s.queue) - 1 /\ (k - 1) + 1 = k
    BY <1>1, <1>6
  <2> QED
    BY <1>1, <2>1
<1>7. ASSUME ~s.clash
      PROVE  /\ \A n \in 1 .. Len(s.requests) : s.requests[n].id # id
             /\ \A k \in 1 .. Len(t.queue) : ~Asks(t.queue[k], id)
             /\ id \in s.given /\ WaitsFor(s, id, m.callback)
  <2>1. FreeInv(s, id) /\ OwnInv(s, id)
    BY <1>7 DEF IdInv
  <2>2. \A k \in 1 .. Len(t.queue) : ~Asks(t.queue[k], id)
    BY <1>3, <1>5, <2>1 DEF FreeInv
  <2>3. \A n \in 1 .. Len(s.requests) : s.requests[n].id # id
    BY <1>3, <2>1 DEF FreeInv
  <2>4. id \in s.given
    BY <1>3, <2>1 DEF FreeInv
  <2>5. WaitsFor(s, id, m.callback)
    BY <1>3, <2>1 DEF OwnInv
  <2> QED
    BY <2>2, <2>3, <2>4, <2>5
<1> QED
  BY <1>2, <1>4, <1>5, <1>6, <1>7

ReceivedOf(m) ==
  NewRequest(m.id, IF m.accepted THEN "in_progress" ELSE "requested", m.callback)
WithRequest(t, m) ==
  [t EXCEPT !.requests = Append(@, ReceivedOf(m)), !.ongoing[m.id] = Len(t.requests) + 1]

(* The request that downloadRequested() makes is ready for an answer.      *)
LEMMA Received ==
  ASSUME NEW s \in State, s.queue # <<>>, NEW m, m = s.queue[1], m.type = "requested",
         NEW t, t = Shifted(s), NEW id, id = m.id, IdInv(s, id),
         NEW n, n = Len(s.requests) + 1, NEW x, x = WithRequest(t, m),
         NEW r, r = ReceivedOf(m)
  PROVE  /\ x \in State /\ SameItems(s, x) /\ Ready(x, id, n) /\ x.requests[n] = r
         /\ r.state = (IF m.accepted THEN "in_progress" ELSE "requested") /\ ~r.answered
         /\ \A j \in Items : j # id => View(s, x, j)
<1>1. /\ m \in Updated \union Requested /\ id \in Items
      /\ t \in State /\ SameItems(s, t) /\ t.requests = s.requests /\ t.ongoing = s.ongoing
      /\ \A j \in Items : j # id => View(s, t, j)
  BY Shift
<1>2. /\ m.accepted \in BOOLEAN /\ m.callback \in BOOLEAN
      /\ \A k \in 1 .. Len(t.queue) : Asks(t.queue[k], id) =>
           \E l \in 1 .. Len(s.queue) : l # 1 /\ s.queue[l] = t.queue[k]
      /\ \A k \in 1 .. Len(s.queue) : k # 1 => k - 1 \in 1 .. Len(t.queue)
                                               /\ t.queue[k - 1] = s.queue[k]
  BY HeadAsks
<1>3. ~s.clash =>
        /\ \A k \in 1 .. Len(s.requests) : s.requests[k].id # id
        /\ \A k \in 1 .. Len(t.queue) : ~Asks(t.queue[k], id)
        /\ id \in s.given /\ WaitsFor(s, id, m.callback)
  BY HeadAsks
<1>4. /\ r \in RequestSet /\ r.id = id /\ r.callback = m.callback
      /\ r.state = (IF m.accepted THEN "in_progress" ELSE "requested")
      /\ r.alive /\ ~r.answered
  BY <1>1, <1>2 DEF ReceivedOf, NewRequest, RequestSet, States
<1> DEFINE f == Append(s.requests, r)
           o == [s.ongoing EXCEPT ![id] = n]
<1>5. /\ f \in Seq(RequestSet) /\ Len(f) = n /\ f[n] = r /\ n \in Nat /\ n \in 1 .. n /\ n # 0
      /\ \A k \in 1 .. Len(s.requests) : f[k] = s.requests[k] /\ k # n /\ k \in 1 .. n
      /\ \A k \in 1 .. n : k = n \/ k \in 1 .. Len(s.requests)
  BY <1>4 DEF State
<1>6. o \in [Items -> Nat] /\ o[id] = n /\ \A j \in Items : j # id => o[j] = s.ongoing[j]
  BY <1>1, <1>5 DEF State
<1>7. x = [t EXCEPT !.requests = f, !.ongoing = o]
  BY <1>1 DEF WithRequest, State
<1> HIDE DEF f, o
<1>8. /\ x \in State /\ SameItems(t, x) /\ x.requests = f /\ x.ongoing = o /\ x.queue = t.queue
  BY <1>1, <1>5, <1>6, <1>7 DEF State, SameItems
<1>9. SameItems(s, x)
  BY <1>1, <1>8 DEF SameItems
<1>10. ASSUME NEW j \in Items, j # id PROVE View(s, x, j)
  <2>1. RequestsOn(s, x, j)
    BY <1>4, <1>5, <1>6, <1>8, <1>10 DEF RequestsOn
  <2>2. ItemsOn(s, x, j) /\ SetsOn(s, x, j)
    BY <1>9, Lengths DEF ItemsOn, SetsOn, SameItems
  <2>3. QueueOn(s.queue, t.queue, j, ~s.clash)
    BY <1>1, <1>10 DEF View, SameItems
  <2> QED
    BY <1>8, <1>9, <2>1, <2>2, <2>3 DEF View, SameItems
<1>11. ASSUME NEW cb, Comes(s, id, cb) PROVE Comes(x, id, cb)
  <2>1. CASE \E k \in 1 .. Len(s.queue) : Asks(s.queue[k], id) /\ s.queue[k].callback = cb
    <3>1. PICK k \in 1 .. Len(s.queue) : Asks(s.queue[k], id) /\ s.queue[k].callback = cb
      BY <2>1
    <3>2. CASE k = 1
      <4>1. n \in 1 .. Len(x.requests) /\ Waits(x.requests[n], id) /\ x.requests[n].callback = cb
        BY <1>4, <1>5, <1>8, <3>1, <3>2 DEF Waits
      <4> QED
        BY <4>1 DEF Comes
    <3>3. CASE k # 1
      BY <1>2, <1>8, <3>1, <3>3 DEF Comes
    <3> QED
      BY <3>2, <3>3
  <2>2. CASE \E k \in 1 .. Len(s.requests) : Waits(s.requests[k], id) /\ s.requests[k].callback = cb
    <3>1. PICK k \in 1 .. Len(s.requests) : Waits(s.requests[k], id) /\ s.requests[k].callback = cb
      BY <2>2
    <3>2. k \in 1 .. Len(x.requests) /\ x.requests[k] = s.requests[k]
      BY <1>5, <1>8
    <3> QED
      BY <3>1, <3>2 DEF Comes
  <2> QED
    BY <1>11, <2>1, <2>2 DEF Comes
<1>12. ItemInv(x, id) /\ ComesInv(x, id)
  <2>1. ItemInv(x, id)
    BY <1>9 DEF IdInv, ItemInv, SameItems
  <2>2. ComesInv(x, id)
    BY <1>9, <1>11 DEF IdInv, ComesInv, SameItems
  <2> QED
    BY <2>1, <2>2
<1>13. AskedBut(x, id, n)
  <2>0. AskedInv(s, id)
    BY DEF IdInv
  <2>1. \A k \in 1 .. Len(x.requests) : k # n /\ x.requests[k].id = id /\ x.requests[k].alive =>
          (x.requests[k].answered <=> x.requests[k].state # "requested")
    BY <1>5, <1>8, <2>0 DEF AskedInv
  <2>2. \A k \in 1 .. Len(x.queue) : Asks(x.queue[k], id) /\ x.queue[k].accepted => x.queue[k].save
    BY <1>2, <1>8, <2>0 DEF AskedInv
  <2> QED
    BY <1>4, <1>5, <1>6, <1>8, <2>1, <2>2 DEF AskedBut
<1>14. ASSUME ~x.clash
       PROVE  FreeInv(x, id) /\ x.ongoing[id] = n /\ WaitsFor(x, id, r.callback)
  <2>1. FreeInv(s, id) /\ ~s.clash
    BY <1>9, <1>14 DEF IdInv, SameItems
  <2>2. \A k \in 1 .. Len(x.requests) : x.requests[k].id = id => k = n
    BY <1>3, <1>5, <1>8, <2>1
  <2>3. \A k \in 1 .. Len(x.queue) : ~Asks(x.queue[k], id)
    BY <1>3, <1>8, <2>1
  <2>4. id \in x.given /\ WaitsFor(x, id, r.callback)
    BY <1>3, <1>4, <1>9, <2>1 DEF WaitsFor, SameItems
  <2>5. FreeInv(x, id)
    <3>1. /\ id \in x.given => id <= x.currentId
          /\ Len(x.items) < id /\ id <= x.currentId => id \in x.given
          /\ id \in x.saves => Len(x.items) < id
      BY <1>9, <2>1 DEF FreeInv, SameItems
    <3> QED
      BY <2>2, <2>3, <2>4, <3>1 DEF FreeInv
  <2> QED
    BY <1>6, <1>8, <2>4, <2>5
<1>15. Ready(x, id, n)
  <2>1. n \in 1 .. Len(x.requests) /\ x.requests[n] = r
    BY <1>5, <1>8
  <2> QED
    BY <1>4, <1>12, <1>13, <1>14, <2>1 DEF Ready
<1> QED
  BY <1>4, <1>5, <1>8, <1>9, <1>10, <1>15

(* A request that a receiver of the signal gets, and may answer.           *)
LEMMA DeliversSignal ==
  ASSUME NEW s \in State, s.queue # <<>>, NEW m, m = s.queue[1], m.type = "requested",
         NEW t, t = Shifted(s), NEW id, id = m.id, IdInv(s, id), SavesOK(s, id), s.client,
         NEW does \in {"nothing", "accept", "cancel"}
  PROVE  Step(s, downloadRequested(t, m, does), id)
<1> DEFINE n == Len(s.requests) + 1
           r == ReceivedOf(m)
           x == WithRequest(t, m)
           e == downloadRequested(t, m, does)
<1>1. /\ id \in Items /\ t \in State /\ SameItems(s, t) /\ t.requests = s.requests
  BY Shift
<1>2. m.accepted \in BOOLEAN /\ m.save \in BOOLEAN /\ (m.accepted => m.save)
  BY HeadAsks
<1>3. e = IF m.accepted THEN answer(Slot(x, n, does), n) ELSE Slot(x, n, does)
  <2> DEFINE n0 == Len(t.requests) + 1
  <2>1. n0 = n
    BY <1>1
  <2>2. does # "none"
    OBVIOUS
  <2>3. e = IF m.save /\ m.accepted THEN answer(Slot(x, n0, does), n0) ELSE Slot(x, n0, does)
    BY <2>2, Zenon DEF downloadRequested, ReceivedOf, WithRequest
  <2> HIDE DEF e, x, n, n0
  <2> QED
    BY <1>2, <2>1, <2>3
<1>x. x = WithRequest(t, m) /\ r = ReceivedOf(m) /\ n = Len(s.requests) + 1
  OBVIOUS
<1> HIDE DEF x, r, n
<1>4. /\ x \in State /\ SameItems(s, x) /\ Ready(x, id, n) /\ x.requests[n] = r
      /\ r.state = (IF m.accepted THEN "in_progress" ELSE "requested") /\ ~r.answered
      /\ \A j \in Items : j # id => View(s, x, j)
  BY <1>x, Received
<1>5. x.client /\ SavesOK(x, id)
  BY <1>4 DEF SameItems, SavesOK
<1>6. Done(x, e, id, n) \/ (e = x /\ IdInv(x, id))
  <2>1. CASE does = "nothing"
    <3>1. Slot(x, n, does) = x
      BY <2>1 DEF Slot
    <3>2. CASE m.accepted
      <4>1. Done(x, answer(x, n), id, n)
        BY <1>1, <1>4, <1>5, <3>2, Answers
      <4> QED
        BY <1>3, <3>1, <3>2, <4>1
    <3>3. CASE ~m.accepted
      <4>1. IdInv(x, id)
        BY <1>1, <1>4, <3>3, InvIfReady DEF Settled
      <4> QED
        BY <1>3, <3>1, <3>3, <4>1
    <3> QED
      BY <3>2, <3>3
  <2>2. CASE does = "accept"
    <3>1. Slot(x, n, does) = accept(x, n)
      BY <2>2 DEF Slot
    <3>2. CASE m.accepted
      <4>1. Done(x, answer(x, n), id, n)
        BY <1>1, <1>4, <1>5, <3>2, Answers
      <4>2. accept(x, n) = x
        BY <1>4, <3>2 DEF accept
      <4> QED
        BY <1>3, <3>1, <3>2, <4>1, <4>2
    <3>3. CASE ~m.accepted
      <4>1. Done(x, accept(x, n), id, n)
        BY <1>1, <1>4, <1>5, <3>3, Accepts
      <4> QED
        BY <1>3, <3>1, <3>3, <4>1
    <3> QED
      BY <3>2, <3>3
  <2>3. CASE does = "cancel"
    <3> DEFINE c == cancel(x, n)
    <3>1. Slot(x, n, does) = c
      BY <2>3 DEF Slot
    <3>2. CancelOK(x.requests[n])
      BY <1>2, <1>4 DEF CancelOK
    <3>3. Done(x, c, id, n)
      BY <1>1, <1>4, <1>5, <3>2, Cancels
    <3> HIDE DEF c
    <3>4. answer(c, n) = c
      BY <3>3 DEF Done, answer
    <3>5. e = c
      BY <1>2, <1>3, <3>1, <3>4
    <3> QED
      BY <3>3, <3>5
  <2> QED
    BY <2>1, <2>2, <2>3
<1> HIDE DEF e
<1>7. Len(s.items) \in Nat
  BY Lengths
<1>8. CASE e = x /\ IdInv(x, id)
  <2>1. Grows(s, x)
    BY <1>4, <1>7 DEF Grows, SameItems
  <2> QED
    BY <1>4, <1>8, <2>1 DEF Step, SameItems, e
<1>9. CASE Done(x, e, id, n)
  <2>1. Effect(x, e, id) /\ Grows(x, e) /\ IdInv(e, id) /\ e \in State
    BY <1>9 DEF Done, Effect
  <2>2. \A j \in Items : j # id => View(s, e, j)
    <3> SUFFICES ASSUME NEW j \in Items, j # id PROVE View(s, e, j)
      OBVIOUS
    <3>1. View(s, x, j) /\ View(x, e, j)
      BY <1>4, <2>1 DEF Effect
    <3> QED
      BY <1>4, <2>1, <3>1, ViewThen
  <2>3. Grows(s, e)
    <3>1. /\ x.currentId = s.currentId /\ (x.clash => e.clash)
          /\ Len(x.items) = Len(s.items) /\ x.saves \subseteq s.saves
      BY <1>4, <2>1 DEF SameItems, Effect
    <3> QED
      BY <1>4, <2>1, <3>1, GrowsThen
  <2>4. e.client = s.client /\ e.currentId = s.currentId /\ (s.clash => e.clash)
    BY <1>4, <2>1 DEF SameItems, Effect
  <2> QED
    BY <2>1, <2>2, <2>3, <2>4 DEF Step, e
<1> QED
  BY <1>6, <1>8, <1>9

(* Without a receiver the profile answers.                                 *)
LEMMA DeliversNothing ==
  ASSUME NEW s \in State, s.queue # <<>>, NEW m, m = s.queue[1], m.type = "requested",
         NEW t, t = Shifted(s), NEW id, id = m.id, IdInv(s, id), SavesOK(s, id), s.client
  PROVE  Step(s, downloadRequested(t, m, "none"), id)
<1> DEFINE e == downloadRequested(t, m, "none")
           cb == m.callback
<1>1. /\ id \in Items /\ t \in State /\ SameItems(s, t) /\ t.requests = s.requests
      /\ t.ongoing = s.ongoing /\ \A j \in Items : j # id => View(s, t, j)
  BY Shift
<1>2. /\ cb \in BOOLEAN
      /\ \A k \in 1 .. Len(t.queue) : Asks(t.queue[k], id) =>
           \E l \in 1 .. Len(s.queue) : l # 1 /\ s.queue[l] = t.queue[k]
      /\ \A k \in 1 .. Len(s.queue) : k # 1 => k - 1 \in 1 .. Len(t.queue)
                                               /\ t.queue[k - 1] = s.queue[k]
  <2>1. cb \in BOOLEAN
    BY HeadAsks
  <2>2. \A k \in 1 .. Len(t.queue) : Asks(t.queue[k], id) =>
           \E l \in 1 .. Len(s.queue) : l # 1 /\ s.queue[l] = t.queue[k]
    BY HeadAsks
  <2>3. \A k \in 1 .. Len(s.queue) : k # 1 => k - 1 \in 1 .. Len(t.queue)
                                               /\ t.queue[k - 1] = s.queue[k]
    BY HeadAsks
  <2> QED
    BY <2>1, <2>2, <2>3
<1>3. ~s.clash =>
        /\ \A k \in 1 .. Len(s.requests) : s.requests[k].id # id
        /\ \A k \in 1 .. Len(t.queue) : ~Asks(t.queue[k], id)
        /\ id \in s.given
  BY HeadAsks
<1>4. e = acceptDownload(t, id, m.accepted, cb)
  BY DEF downloadRequested
<1>5. ItemInv(t, id) /\ SavesOK(t, id)
  BY <1>1 DEF IdInv, ItemInv, SavesOK, SameItems
<1> HIDE DEF e
<1>c. cb = m.callback
  OBVIOUS
<1> HIDE DEF cb
<1>6. /\ Effect(t, e, id) /\ e.requests = t.requests /\ e.ongoing = t.ongoing
      /\ cb => e.downloads = t.downloads \ {id} /\ e.saves = t.saves
      /\ ~cb => e.downloads = t.downloads /\ e.saves = t.saves \ {id}
      /\ Grows(t, e) /\ ItemInv(e, id)
  BY <1>1, <1>2, <1>4, <1>5, Accepted
<1>7. /\ e \in State /\ e.requests = s.requests /\ e.ongoing = s.ongoing /\ e.given = s.given
      /\ e.client = s.client /\ e.currentId = s.currentId /\ (s.clash => e.clash)
      /\ Len(s.items) <= Len(e.items) /\ Len(s.items) \in Nat /\ Len(e.items) \in Nat
      /\ cb => e.downloads = s.downloads \ {id} /\ e.saves = s.saves
      /\ ~cb => e.downloads = s.downloads /\ e.saves = s.saves \ {id}
  <2>1. /\ e \in State /\ e.requests = s.requests /\ e.ongoing = s.ongoing /\ e.given = s.given
        /\ e.client = s.client /\ e.currentId = s.currentId /\ (s.clash => e.clash)
        /\ Len(s.items) <= Len(e.items)
    BY <1>1, <1>6 DEF SameItems, Effect
  <2>2. Len(s.items) \in Nat /\ Len(e.items) \in Nat
    BY <2>1, Lengths
  <2>3. /\ cb => e.downloads = s.downloads \ {id} /\ e.saves = s.saves
        /\ ~cb => e.downloads = s.downloads /\ e.saves = s.saves \ {id}
    BY <1>1, <1>6 DEF SameItems
  <2> QED
    BY <2>1, <2>2, <2>3
<1>8. Grows(s, e)
  BY <1>1, <1>6 DEF Grows, SameItems
<1>9. \A k \in 1 .. Len(e.queue) : Asks(e.queue[k], id) => k \in 1 .. Len(t.queue)
                                                           /\ e.queue[k] = t.queue[k]
  BY <1>6 DEF Effect, Grown, Asks
<1>10. ASSUME NEW c, Comes(s, id, c), c # cb PROVE Comes(e, id, c)
  <2>1. CASE \E k \in 1 .. Len(s.queue) : Asks(s.queue[k], id) /\ s.queue[k].callback = c
    <3>1. PICK k \in 1 .. Len(s.queue) : Asks(s.queue[k], id) /\ s.queue[k].callback = c
      BY <2>1
    <3>2. k # 1
      BY <1>10, <1>c, <3>1
    <3>3. k - 1 \in 1 .. Len(e.queue) /\ e.queue[k - 1] = s.queue[k]
      BY <1>2, <1>6, <3>2 DEF Effect, Grown
    <3> QED
      BY <3>1, <3>3 DEF Comes
  <2>2. CASE \E k \in 1 .. Len(s.requests) : Waits(s.requests[k], id) /\ s.requests[k].callback = c
    BY <1>7, <2>2 DEF Comes
  <2> QED
    BY <1>10, <2>1, <2>2 DEF Comes
<1>11. ComesInv(e, id)
  <2>1. /\ id \in e.downloads => id \in s.downloads /\ cb # TRUE
        /\ id \in e.saves => id \in s.saves /\ cb # FALSE
    BY <1>2, <1>7
  <2>2. ComesInv(s, id)
    BY DEF IdInv
  <2> QED
    BY <1>10, <2>1, <2>2 DEF ComesInv
<1>12. AskedInv(e, id)
  <2>1. AskedInv(s, id)
    BY DEF IdInv
  <2>2. \A k \in 1 .. Len(e.queue) : Asks(e.queue[k], id) /\ e.queue[k].accepted => e.queue[k].save
    BY <1>2, <1>9, <2>1 DEF AskedInv
  <2> QED
    BY <1>7, <2>1, <2>2 DEF AskedInv
<1>13. ASSUME ~e.clash PROVE FreeInv(e, id) /\ OwnInv(e, id)
  <2>1. FreeInv(s, id) /\ ~s.clash
    BY <1>7, <1>13 DEF IdInv
  <2>2. \A k \in 1 .. Len(e.requests) : e.requests[k].id # id
    BY <1>3, <1>7, <2>1
  <2>3. \A k \in 1 .. Len(e.queue) : ~Asks(e.queue[k], id)
    BY <1>3, <1>9, <2>1
  <2>4. id \in e.saves => Len(e.items) = Len(s.items) /\ id \in s.saves
    <3> SUFFICES ASSUME id \in e.saves PROVE Len(e.items) = Len(s.items) /\ id \in s.saves
      OBVIOUS
    <3>1. e.saves = s.saves
      BY <1>2, <1>7
    <3> QED
      BY <1>8, <3>1 DEF Grows
  <2>5. id \in Nat /\ id >= 1 /\ s.currentId \in Nat
    BY <1>1, Lengths, DownloadConstants DEF Items, DownloadConstants
  <2>6. /\ id \in e.given => id <= e.currentId
        /\ Len(e.items) < id /\ id <= e.currentId => id \in e.given
        /\ id \in e.saves => Len(e.items) < id
    BY <1>7, <2>1, <2>4, <2>5 DEF FreeInv
  <2>7. FreeInv(e, id)
    BY <2>2, <2>3, <2>6 DEF FreeInv
  <2> QED
    BY <2>2, <2>3, <2>7 DEF OwnInv
<1>14. IdInv(e, id)
  BY <1>6, <1>11, <1>12, <1>13 DEF IdInv
<1>15. \A j \in Items : j # id => View(s, e, j)
  <2> SUFFICES ASSUME NEW j \in Items, j # id PROVE View(s, e, j)
    OBVIOUS
  <2>1. View(s, t, j) /\ View(t, e, j)
    BY <1>1, <1>6 DEF Effect
  <2> QED
    BY <1>1, <1>7, <2>1, ViewThen
<1> QED
  BY <1>7, <1>8, <1>14, <1>15 DEF Step, e
-----------------------------------------------------------------------------
(***************************************************************************)
(* Chromium's item moves on.                                               *)
(***************************************************************************)
LEMMA ItemMoves ==
  ASSUME NEW s \in State, NEW id \in Items, id \in 1 .. Len(s.items),
         s.items[id].state # "gone", IdInv(s, id),
         NEW e, Effect(s, e, id), SameAsks(s, e), SameSets(s, e), Len(e.items) = Len(s.items),
         ItemInv(e, id), s.client => UpToDate(e.queue, id, e.items[id].state),
         ~s.client => s.queue = <<>> /\ s.requests = <<>>
  PROVE  Step(s, e, id)
<1>1. /\ e \in State /\ e.requests = s.requests /\ e.ongoing = s.ongoing /\ e.clash = s.clash
      /\ e.downloads = s.downloads /\ e.saves = s.saves
      /\ e.given = s.given /\ e.currentId = s.currentId /\ e.client = s.client
  BY DEF Effect, SameAsks, SameSets
<1>2. /\ \A k \in 1 .. Len(s.queue) : k \in 1 .. Len(e.queue) /\ e.queue[k] = s.queue[k]
      /\ \A k \in 1 .. Len(e.queue) : Asks(e.queue[k], id) => k \in 1 .. Len(s.queue)
                                                               /\ e.queue[k] = s.queue[k]
  BY DEF Effect, Grown, Asks
<1>3. \A cb : Comes(s, id, cb) => Comes(e, id, cb)
  BY <1>1, <1>2 DEF Comes
<1>4. ComesInv(e, id)
  BY <1>1, <1>3 DEF IdInv, ComesInv
<1>5. AskedInv(e, id)
  BY <1>1, <1>2 DEF IdInv, AskedInv
<1>6. ASSUME ~e.clash PROVE FreeInv(e, id) /\ OwnInv(e, id)
  <2>1. FreeInv(s, id) /\ OwnInv(s, id)
    BY <1>1, <1>6 DEF IdInv
  <2>2. FreeInv(e, id)
    BY <1>1, <1>2, <2>1 DEF FreeInv
  <2>3. Found(s, id)
    BY FoundOn
  <2>4. ASSUME NEW n \in 1 .. Len(e.requests), e.requests[n].id = id PROVE OwnRequest(e, n)
    <3>1. OwnRequest(s, n)
      BY <1>1, <2>1, <2>4 DEF OwnInv
    <3>2. s.client
      <4>1. CASE s.client
        BY <4>1
      <4>2. CASE ~s.client
        <5>1. Len(e.requests) = 0
          BY <1>1, <4>2
        <5> QED
          BY <5>1
      <4> QED
        BY <4>1, <4>2
    <3>3. Shows(e, e.requests[n])
      BY <2>4, <3>2 DEF Shows
    <3>4. e.requests[n].alive
      BY <1>1, <2>3, <2>4, <3>1 DEF OwnRequest
    <3> QED
      BY <1>1, <2>4, <3>1, <3>3, <3>4 DEF OwnRequest, WaitsFor
  <2>5. \A k \in 1 .. Len(e.queue) : Asks(e.queue[k], id) => WaitsFor(e, id, e.queue[k].callback)
    BY <1>1, <1>2, <2>1 DEF OwnInv, WaitsFor
  <2> QED
    BY <2>2, <2>4, <2>5 DEF OwnInv
<1>7. IdInv(e, id)
  BY <1>4, <1>5, <1>6 DEF IdInv
<1>8. Grows(s, e)
  BY <1>1 DEF Grows
<1> QED
  BY <1>1, <1>7, <1>8 DEF Step, Effect

Quiet(s) == ~s.client => s.queue = <<>> /\ s.requests = <<>>

(* Progress is reported.                                                   *)
LEMMA Progresses ==
  ASSUME NEW s \in State, NEW id \in Items, id \in 1 .. Len(s.items),
         s.items[id].state = "in_progress", IdInv(s, id), Quiet(s)
  PROVE  Step(s, Notify(s, id), id)
<1> DEFINE e == Notify(s, id)
<1>1. Watched(s, id) /\ ItemInv(s, id)
  BY DEF IdInv, ItemInv, Watched
<1>2. /\ Effect(s, e, id) /\ SameAsks(s, e) /\ SameSets(s, e) /\ e.items = s.items
      /\ s.client => UpToDate(e.queue, id, s.items[id].state)
  BY <1>1, Notified
<1> HIDE DEF e
<1>3. ItemInv(e, id)
  BY <1>1, <1>2 DEF ItemInv, Effect, SameSets
<1>4. /\ s.items[id].state # "gone" /\ Len(e.items) = Len(s.items)
      /\ s.client => UpToDate(e.queue, id, e.items[id].state)
      /\ ~s.client => s.queue = <<>> /\ s.requests = <<>>
  BY <1>2 DEF Quiet
<1>5. Step(s, e, id)
  BY <1>2, <1>3, <1>4, ItemMoves
<1> QED
  BY <1>5 DEF e

(* The item ends, or is interrupted for good or for a while.               *)
Stopped(s, id, st, target) == [s EXCEPT !.items[id].state = st, !.items[id].target = target]
(* The item stops with its update.                                         *)
LEMMA Stops ==
  ASSUME NEW s \in State, NEW id \in Items, id \in 1 .. Len(s.items),
         s.items[id].state = "in_progress", s.items[id].target = "set", IdInv(s, id), Quiet(s),
         NEW st \in {"complete", "interrupted"}, NEW target \in {"set", "lost"},
         s.items[id].kind = "page" /\ st = "interrupted" => target = "lost",
         NEW t, t = Stopped(s, id, st, target)
  PROVE  Step(s, Notify(t, id), id)
<1> DEFINE it == [s.items[id] EXCEPT !.state = st, !.target = target]
           e == Notify(t, id)
<1>0. s.items[id] \in ItemSet /\ s.items \in Seq(ItemSet) /\ ItemInv(s, id)
  BY Lengths DEF State, IdInv
<1>1. /\ it \in ItemSet /\ it.state = st /\ it.target = target
      /\ it.observers = s.items[id].observers /\ it.kind = s.items[id].kind
  BY <1>0 DEF ItemSet, States
<1>2. t = [s EXCEPT !.items[id] = it]
  BY <1>0 DEF State, Stopped
<1> HIDE DEF it
<1>3. /\ Effect(s, t, id) /\ SameAsks(s, t) /\ SameSets(s, t) /\ t.queue = s.queue
      /\ Len(t.items) = Len(s.items) /\ t.items[id] = it
  BY <1>1, <1>2, ItemSetTo
<1>4. t \in State /\ Watched(t, id) /\ id \in 1 .. Len(t.items) /\ t.client = s.client
  BY <1>0, <1>1, <1>3 DEF Effect, Watched, ItemInv
<1>5. /\ Effect(t, e, id) /\ SameAsks(t, e) /\ SameSets(t, e) /\ e.items = t.items
      /\ t.client /\ t.items[id].state # "gone" => UpToDate(e.queue, id, t.items[id].state)
  BY <1>4, Notified
<1>e. e = Notify(t, id)
  OBVIOUS
<1> HIDE DEF e
<1>6. Effect(s, e, id) /\ SameAsks(s, e) /\ SameSets(s, e) /\ Len(e.items) = Len(s.items)
  <2>1. Effect(s, e, id)
    BY <1>3, <1>5, EffectThen
  <2> QED
    BY <1>3, <1>5, <2>1 DEF SameAsks, SameSets
<1>7. ItemInv(e, id)
  <2>1. id \notin s.downloads
    BY <1>0 DEF ItemInv
  <2> QED
    BY <1>0, <1>1, <1>3, <1>5, <1>6, <2>1 DEF ItemInv, Effect, SameSets
<1>8. /\ s.items[id].state # "gone"
      /\ s.client => UpToDate(e.queue, id, e.items[id].state)
      /\ ~s.client => s.queue = <<>> /\ s.requests = <<>>
  BY <1>1, <1>3, <1>4, <1>5 DEF Quiet
<1>9. Step(s, e, id)
  BY <1>6, <1>7, <1>8, ItemMoves
<1> QED
  BY <1>9, <1>e

(* The application resumes the item, whose target is asked for again.      *)
Resumed(s, id) == [s EXCEPT !.items[id].state = "in_progress"]
(* resume(), through DetermineDownloadTarget() again.                      *)
LEMMA Resumes ==
  ASSUME NEW s \in State, NEW id \in Items, id \in 1 .. Len(s.items),
         s.items[id].state = "interrupted", s.items[id].target = "set", IdInv(s, id), Quiet(s),
         NEW t, t = Resumed(s, id)
  PROVE  Step(s, DetermineDownloadTarget(Notify(t, id), id, FALSE), id)
<1> DEFINE it == [s.items[id] EXCEPT !.state = "in_progress"]
           u == Notify(t, id)
           e == ProvideTarget(u, id)
<1>0. s.items[id] \in ItemSet /\ s.items \in Seq(ItemSet) /\ ItemInv(s, id)
  BY Lengths DEF State, IdInv
<1>1. /\ it \in ItemSet /\ it.state = "in_progress" /\ it.target = "set"
      /\ it.observers = s.items[id].observers /\ it.kind = s.items[id].kind
  BY <1>0 DEF ItemSet, States
<1>2. t = [s EXCEPT !.items[id] = it]
  BY <1>0 DEF State, Resumed
<1> HIDE DEF it
<1>3. /\ Effect(s, t, id) /\ SameAsks(s, t) /\ SameSets(s, t) /\ t.queue = s.queue
      /\ Len(t.items) = Len(s.items) /\ t.items[id] = it
  BY <1>1, <1>2, ItemSetTo
<1>4. t \in State /\ Watched(t, id) /\ id \in 1 .. Len(t.items) /\ t.client = s.client
  BY <1>0, <1>1, <1>3 DEF Effect, Watched, ItemInv
<1>5. Effect(t, u, id) /\ SameAsks(t, u) /\ SameSets(t, u) /\ u.items = t.items
  BY <1>4, Notified
<1>u. u = Notify(t, id)
  OBVIOUS
<1> HIDE DEF u
<1>6. u \in State /\ Watched(u, id) /\ id \in 1 .. Len(u.items) /\ u.client = s.client
  BY <1>4, <1>5 DEF Effect, Watched
<1>7. /\ Effect(u, e, id) /\ SameAsks(u, e) /\ SameSets(u, e) /\ Len(e.items) = Len(u.items)
      /\ e.items[id] = [u.items[id] EXCEPT !.target = "set"]
      /\ u.client /\ u.items[id].state # "gone" => UpToDate(e.queue, id, u.items[id].state)
  BY <1>6, TargetProvided
<1>8. DetermineDownloadTarget(u, id, FALSE) = e
  <2>1. s.items[id].kind = "link"
    BY <1>0 DEF ItemInv, ItemSet
  <2>2. u.currentId >= id /\ u.items[id].target = "set"
    BY <1>0, <1>1, <1>3, <1>5, <2>1, Lengths DEF ItemInv, Effect, Items
  <2> QED
    BY <2>2 DEF DetermineDownloadTarget, AnotherRound
<1> HIDE DEF e
<1>9. Effect(s, e, id) /\ SameAsks(s, e) /\ SameSets(s, e) /\ Len(e.items) = Len(s.items)
  <2>1. Effect(s, u, id)
    BY <1>3, <1>5, EffectThen
  <2>2. Effect(s, e, id)
    BY <1>7, <2>1, EffectThen
  <2> QED
    BY <1>3, <1>5, <1>7, <2>2 DEF SameAsks, SameSets
<1>10. /\ e.items[id].state = "in_progress" /\ e.items[id].target = "set"
       /\ e.items[id].observers = s.items[id].observers /\ e.items[id].kind = s.items[id].kind
  BY <1>1, <1>3, <1>5, <1>7 DEF ItemSet
<1>11. ItemInv(e, id)
  <2>1. id \notin s.downloads
    BY <1>0 DEF ItemInv
  <2> QED
    BY <1>0, <1>9, <1>10, <2>1 DEF ItemInv, Effect, SameSets
<1>12. /\ s.items[id].state # "gone"
       /\ s.client => UpToDate(e.queue, id, e.items[id].state)
       /\ ~s.client => s.queue = <<>> /\ s.requests = <<>>
  BY <1>1, <1>3, <1>5, <1>6, <1>7, <1>10 DEF Quiet
<1>13. Step(s, e, id)
  BY <1>9, <1>11, <1>12, ItemMoves
<1> QED
  BY <1>8, <1>13, <1>u
-----------------------------------------------------------------------------
(***************************************************************************)
(* A new number: what Chromium starts, or a page to save.                  *)
(***************************************************************************)
RequestedOf(id, auto, save, targetCallback) ==
  [type |-> "requested", id |-> id, accepted |-> auto, save |-> save, callback |-> targetCallback]

(* A request on its way to the profile.                                    *)
LEMMA RequestPosted ==
  ASSUME NEW s \in State, NEW id \in Items, IdInv(s, id), NEW e \in State,
         NEW m \in Requested, m.id = id, m.accepted => m.save,
         e.queue = Append(s.queue, m), e.requests = s.requests, e.ongoing = s.ongoing,
         e.given = s.given \union {id}, e.clash = (s.clash \/ id \in s.given),
         id <= e.currentId, Len(s.items) <= Len(e.items), ItemInv(e, id),
         WaitsFor(e, id, m.callback),
         id \in e.downloads => id \in s.downloads \/ m.callback,
         id \in e.saves => id \in s.saves \/ (~m.callback /\ (~s.clash => Len(e.items) < id))
  PROVE  IdInv(e, id)
<1> DEFINE l == Len(s.queue) + 1
<1>0. s.queue \in Seq(Updated \union Requested) /\ m \in Updated \union Requested
      /\ m.callback \in BOOLEAN /\ m.type = "requested"
  BY DEF State, Requested
<1>1. /\ Len(e.queue) = l /\ l \in 1 .. l /\ e.queue[l] = m
      /\ \A k \in 1 .. Len(s.queue) : e.queue[k] = s.queue[k] /\ k \in 1 .. l
      /\ \A k \in 1 .. l : k = l \/ k \in 1 .. Len(s.queue)
  <2>1. Len(s.queue) \in Nat
    BY <1>0
  <2>2. /\ Len(e.queue) = l /\ e.queue[l] = m
        /\ \A k \in 1 .. Len(s.queue) : e.queue[k] = s.queue[k]
    BY <1>0, QueueAppend
  <2> QED
    BY <2>1, <2>2
<1> HIDE DEF l
<1>2. Asks(m, id)
  BY <1>0 DEF Asks
<1>3. \A cb : Comes(s, id, cb) => Comes(e, id, cb)
  <2> SUFFICES ASSUME NEW cb, Comes(s, id, cb) PROVE Comes(e, id, cb)
    OBVIOUS
  <2>1. CASE \E k \in 1 .. Len(s.queue) : Asks(s.queue[k], id) /\ s.queue[k].callback = cb
    <3>1. PICK k \in 1 .. Len(s.queue) : Asks(s.queue[k], id) /\ s.queue[k].callback = cb
      BY <2>1
    <3>2. k \in 1 .. Len(e.queue) /\ e.queue[k] = s.queue[k]
      BY <1>1
    <3> QED
      BY <3>1, <3>2 DEF Comes
  <2>2. CASE \E n \in 1 .. Len(s.requests) : Waits(s.requests[n], id) /\ s.requests[n].callback = cb
    BY <2>2 DEF Comes
  <2> QED
    BY <2>1, <2>2 DEF Comes
<1>4. Comes(e, id, m.callback)
  BY <1>1, <1>2 DEF Comes
<1>5. ComesInv(e, id)
  <2>0. ComesInv(s, id)
    BY DEF IdInv
  <2>1. id \in e.downloads => Comes(e, id, TRUE)
    BY <1>0, <1>3, <1>4, <2>0 DEF ComesInv
  <2>2. id \in e.saves => Comes(e, id, FALSE)
    BY <1>0, <1>3, <1>4, <2>0 DEF ComesInv
  <2> QED
    BY <2>1, <2>2 DEF ComesInv
<1>6. AskedInv(e, id)
  <2>0. AskedInv(s, id)
    BY DEF IdInv
  <2>1. \A k \in 1 .. Len(e.queue) : Asks(e.queue[k], id) /\ e.queue[k].accepted => e.queue[k].save
    BY <1>1, <2>0 DEF AskedInv
  <2> QED
    BY <2>0, <2>1 DEF AskedInv
<1>7. ASSUME ~e.clash PROVE FreeInv(e, id) /\ OwnInv(e, id)
  <2>0. ~s.clash /\ id \notin s.given
    BY <1>7 DEF State
  <2>1. FreeInv(s, id)
    BY <2>0 DEF IdInv
  <2>2. \A n \in 1 .. Len(s.requests) : s.requests[n].id # id
    BY <2>0, <2>1 DEF FreeInv
  <2>3. \A k \in 1 .. Len(s.queue) : ~Asks(s.queue[k], id)
    BY <2>0, <2>1 DEF FreeInv
  <2>4. id \notin s.saves
    <3>1. ~Comes(s, id, FALSE)
      BY <2>2, <2>3 DEF Comes, Waits
    <3> QED
      BY <3>1 DEF IdInv, ComesInv
  <2>5. \A k \in 1 .. Len(e.queue) : Asks(e.queue[k], id) => k = l
    BY <1>1, <2>3
  <2>6. id \in e.saves => Len(e.items) < id
    BY <2>0, <2>4
  <2>7. FreeInv(e, id)
    BY <2>2, <2>5, <2>6 DEF FreeInv
  <2>8. OwnInv(e, id)
    BY <1>1, <2>2, <2>5 DEF OwnInv
  <2> QED
    BY <2>7, <2>8
<1> QED
  BY <1>5, <1>6, <1>7 DEF IdInv

AskedItem == [NewItem EXCEPT !.target = "asking", !.observers = 1]
RefusedItem == [AskedItem EXCEPT !.state = "cancelled", !.target = "none"]
(* The item of a download that starts, asked about or refused.             *)
LEMMA LinkItems ==
  /\ NewItem \in ItemSet /\ NewItem.target = "none"
  /\ AskedItem \in ItemSet /\ AskedItem.kind = "link" /\ AskedItem.state = "in_progress"
  /\ AskedItem.target = "asking" /\ AskedItem.observers = 1
  /\ RefusedItem \in ItemSet /\ RefusedItem.kind = "link" /\ RefusedItem.state = "cancelled"
  /\ RefusedItem.target = "none" /\ RefusedItem.observers = 1
BY DEF NewItem, AskedItem, RefusedItem, ItemSet, States

(* Sequences are the same if their entries are.                            *)
LEMMA SameSeq ==
  ASSUME NEW S, NEW p \in Seq(S), NEW q \in Seq(S), Len(p) = Len(q),
         \A k \in 1 .. Len(p) : p[k] = q[k]
  PROVE  p = q
<1>1. DOMAIN p = 1 .. Len(p) /\ DOMAIN q = 1 .. Len(p)
  OBVIOUS
<1>2. p = [k \in 1 .. Len(p) |-> p[k]] /\ q = [k \in 1 .. Len(p) |-> q[k]]
  OBVIOUS
<1> QED
  BY <1>2

WithItem(s) == [s EXCEPT !.items = Append(@, NewItem)]
Asking(s) == [s EXCEPT !.items = Append(@, AskedItem), !.currentId = Len(s.items) + 1]
AskAbout(a, i) ==
  [a EXCEPT !.currentId = i, !.items[i].observers = @ + 1, !.items[i].target = "asking"]
(* The target of a new item is asked for.                                  *)
LEMMA AskedAbout ==
  ASSUME NEW a \in State, NEW i \in 1 .. Len(a.items), a.items[i] = NewItem
  PROVE  AskAbout(a, i) = [a EXCEPT !.currentId = i, !.items = [a.items EXCEPT ![i] = AskedItem]]
<1> DEFINE f == a.items
           g == [f EXCEPT ![i].observers = @ + 1]
           h == [g EXCEPT ![i].target = "asking"]
           x == [a EXCEPT !.currentId = i]
           y == [x EXCEPT !.items = g]
<1>0. f \in Seq(ItemSet) /\ DOMAIN f = 1 .. Len(f)
  BY Lengths DEF State
<1>1. x.items = f /\ y.items = g
  BY DEF State
<1>2. [a EXCEPT !.currentId = i, !.items[i].observers = @ + 1] = y
  BY <1>1 DEF State
<1>3. AskAbout(a, i) = [y EXCEPT !.items[i].target = "asking"]
  BY <1>2 DEF AskAbout
<1>4. [y EXCEPT !.items[i].target = "asking"] = [y EXCEPT !.items = h]
  BY <1>1
<1>5. g = [f EXCEPT ![i] = [NewItem EXCEPT !.observers = 1]]
  BY <1>0 DEF NewItem
<1>6. h = [f EXCEPT ![i] = AskedItem]
  BY <1>0, <1>5 DEF NewItem, AskedItem
<1>7. [y EXCEPT !.items = h] = [x EXCEPT !.items = h]
  BY DEF State
<1> QED
  BY <1>3, <1>4, <1>6, <1>7

(* DetermineDownloadTarget() of a new item.                                *)
LEMMA DownloadStarts ==
  ASSUME NEW s \in State, NEW i, i = Len(s.items) + 1, NEW auto
  PROVE  DetermineDownloadTarget(WithItem(s), i, auto) =
           IF s.client
           THEN PostRequest([Asking(s) EXCEPT !.downloads = @ \union {i}], i, auto, auto, TRUE)
           ELSE CancelTarget(Asking(s), i)
<1> DEFINE f == Append(s.items, NewItem)
           a == WithItem(s)
<1>0. s.items \in Seq(ItemSet) /\ i \in Nat /\ Len(s.items) \in Nat
  BY Lengths DEF State
<1>1. /\ f \in Seq(ItemSet) /\ Len(f) = i /\ f[i] = NewItem /\ i \in 1 .. i
      /\ \A j \in 1 .. i : j = i \/ j \in 1 .. Len(s.items)
      /\ \A j \in 1 .. Len(s.items) : f[j] = s.items[j]
  BY <1>0, LinkItems
<1> HIDE DEF f
<1>2. a = [s EXCEPT !.items = f]
  BY DEF WithItem, State, f
<1> HIDE DEF a
<1>a. a \in State /\ a.items = f /\ a.client = s.client
  BY <1>1, <1>2 DEF State
<1>3. ~AnotherRound(a, i)
  BY <1>1, <1>a, LinkItems DEF AnotherRound
<1>4. [f EXCEPT ![i] = AskedItem] = Append(s.items, AskedItem)
  <2> DEFINE p == [f EXCEPT ![i] = AskedItem]
             q == Append(s.items, AskedItem)
  <2>1. /\ p \in Seq(ItemSet) /\ Len(p) = i /\ p[i] = AskedItem
        /\ \A j \in 1 .. Len(s.items) : j # i => p[j] = s.items[j]
    BY <1>0, <1>1, LinkItems
  <2>2. /\ q \in Seq(ItemSet) /\ Len(q) = i /\ q[i] = AskedItem
        /\ \A j \in 1 .. Len(s.items) : q[j] = s.items[j]
    BY <1>0, LinkItems
  <2> HIDE DEF p, q
  <2>3. p = q
    BY <1>1, <2>1, <2>2, SameSeq
  <2> QED
    BY <2>3 DEF p, q
<1>5. AskAbout(a, i) = Asking(s)
  <2>1. AskAbout(a, i) = [a EXCEPT !.currentId = i, !.items = Append(s.items, AskedItem)]
    <3>1. i \in 1 .. Len(a.items) /\ a.items[i] = NewItem
      BY <1>1, <1>a
    <3>2. AskAbout(a, i) = [a EXCEPT !.currentId = i, !.items = [a.items EXCEPT ![i] = AskedItem]]
      BY <1>a, <3>1, AskedAbout
    <3> QED
      BY <1>4, <1>a, <3>2
  <2> QED
    BY <1>2, <2>1 DEF Asking, State
<1>6. DetermineDownloadTarget(a, i, auto) =
        IF a.client
        THEN PostRequest([AskAbout(a, i) EXCEPT !.downloads = @ \union {i}], i, auto, auto, TRUE)
        ELSE CancelTarget(AskAbout(a, i), i)
  BY <1>3, Zenon DEF DetermineDownloadTarget, AskAbout
<1> QED
  BY <1>5, <1>6, <1>a DEF a

Posts(t, id, auto, save, cb, m, e) ==
  /\ m \in Requested /\ m.id = id /\ m.accepted = auto /\ m.save = save /\ m.callback = cb
  /\ e \in State /\ e.client = t.client /\ e.items = t.items /\ e.currentId = t.currentId
  /\ e.downloads = t.downloads /\ e.saves = t.saves /\ e.queue = Append(t.queue, m)
  /\ e.requests = t.requests /\ e.ongoing = t.ongoing
  /\ e.given = t.given \union {id} /\ e.clash = (t.clash \/ id \in t.given)
(* PostRequest() of a profile that is open.                                *)
LEMMA PostsRequest ==
  ASSUME NEW t \in State, t.client, NEW id \in Items, NEW auto \in BOOLEAN, NEW save \in BOOLEAN,
         NEW cb \in BOOLEAN, NEW m, m = RequestedOf(id, auto, save, cb),
         NEW e, e = PostRequest(t, id, auto, save, cb)
  PROVE  Posts(t, id, auto, save, cb, m, e)
<1> DEFINE q == Append(t.queue, m)
           g == t.given \union {id}
           c == t.clash \/ id \in t.given
<1>1. m \in Requested /\ m.id = id /\ m.accepted = auto /\ m.save = save /\ m.callback = cb
  BY DEF RequestedOf, Requested
<1>2. q \in Seq(Updated \union Requested) /\ g \in SUBSET Items /\ c \in BOOLEAN
  <2>1. q \in Seq(Updated \union Requested)
    BY <1>1, QueueAppend DEF State
  <2>2. g \in SUBSET Items
    BY DEF State
  <2> QED
    BY <2>1, <2>2
<1>3. Post(t, m) = [t EXCEPT !.queue = q]
  BY DEF Post, Posted
<1>4. e = [Post(t, m) EXCEPT !.given = @ \union {id}, !.clash = @ \/ id \in t.given]
  BY DEF PostRequest, RequestedOf
<1>5. e = [[t EXCEPT !.queue = q] EXCEPT !.given = g, !.clash = c]
  BY <1>3, <1>4 DEF State
<1> HIDE DEF q, g, c
<1>6. /\ e \in State /\ e.client = t.client /\ e.items = t.items /\ e.currentId = t.currentId
      /\ e.downloads = t.downloads /\ e.saves = t.saves /\ e.queue = q
      /\ e.requests = t.requests /\ e.ongoing = t.ongoing /\ e.given = g /\ e.clash = c
  BY <1>2, <1>5 DEF State
<1> QED
  BY <1>1, <1>6 DEF q, g, c, Posts

(* What is known of the other numbers when one is new.                     *)
OthersSame(s, e, id) ==
  /\ s.clash => e.clash
  /\ Len(s.items) <= Len(e.items) /\ \A k \in 1 .. Len(s.items) : e.items[k] = s.items[k]
  /\ \A k \in 1 .. Len(e.items) : k \notin 1 .. Len(s.items) => k = id
  /\ \A k \in Items : k # id => /\ k \in e.downloads <=> k \in s.downloads
                                /\ k \in e.saves <=> k \in s.saves
                                /\ k \in e.given <=> k \in s.given
  /\ e.requests = s.requests /\ e.ongoing = s.ongoing
  /\ \/ e.queue = s.queue
     \/ \E m \in Updated \union Requested : m.id = id /\ e.queue = Append(s.queue, m)
(* The invariant of the other numbers when one is new.                     *)
LEMMA OthersKeep ==
  ASSUME NEW s \in State, NEW e \in State, NEW id \in Items, NEW j \in Items, j # id,
         IdInv(s, j), CurrentOn(s, e, j), OthersSame(s, e, id)
  PROVE  IdInv(e, j)
<1>1. ItemsOn(s, e, j)
  BY DEF ItemsOn, OthersSame
<1>2. RequestsOn(s, e, j) /\ SetsOn(s, e, j)
  BY DEF RequestsOn, SetsOn, OthersSame
<1>3. QueueOn(s.queue, e.queue, j, ~e.clash)
  <2>1. CASE e.queue = s.queue
    BY <2>1, QueueSame
  <2>2. ASSUME NEW m \in Updated \union Requested, m.id = id, e.queue = Append(s.queue, m)
        PROVE  QueueOn(s.queue, e.queue, j, ~e.clash)
    <3>1. s.queue \in Seq(Updated \union Requested) /\ m.id # j
      BY <2>2 DEF State
    <3> QED
      BY <2>2, <3>1, QueueAppend
  <2> QED
    BY <2>1, <2>2 DEF OthersSame
<1>4. View(s, e, j)
  BY <1>1, <1>2, <1>3 DEF View, OthersSame
<1> QED
  BY <1>4, ViewKeeps

Fresh(s, e, id) ==
  /\ e \in State /\ e.client = s.client /\ (s.clash => e.clash) /\ e.currentId = id
  /\ \A j \in Items : IdInv(e, j)

AskingFor(s, i) == [Asking(s) EXCEPT !.downloads = @ \union {i}]
AsksFor(s, i, auto) == PostRequest(AskingFor(s, i), i, auto, auto, TRUE)
(* A download starts, and its request is posted.                           *)
LEMMA StartsAsking ==
  ASSUME NEW s \in State, s.client, \A j \in Items : IdInv(s, j), NEW auto \in BOOLEAN,
         NEW i \in Items, i = Len(s.items) + 1,
         NEW e, e = AsksFor(s, i, auto)
  PROVE  Fresh(s, e, i) /\ Len(e.items) = Len(s.items) + 1 /\ e.saves = s.saves
<1> DEFINE f == Append(s.items, AskedItem)
           d == s.downloads \union {i}
           t == [s EXCEPT !.items = f, !.currentId = i, !.downloads = d]
           cb == TRUE
           m == RequestedOf(i, auto, auto, cb)
<1>0. s.items \in Seq(ItemSet) /\ Len(s.items) \in Nat /\ i \in Nat
  BY Lengths DEF State
<1>1. /\ f \in Seq(ItemSet) /\ Len(f) = i /\ f[i] = AskedItem
      /\ \A k \in 1 .. Len(s.items) : f[k] = s.items[k]
  BY <1>0, LinkItems
<1>2. d \in SUBSET Items
  BY DEF State
<1>3. AskingFor(s, i) = t
  BY DEF AskingFor, Asking, State
<1> HIDE DEF f, d
<1>4. /\ t \in State /\ t.client = s.client /\ t.items = f /\ t.currentId = i /\ t.downloads = d
      /\ t.saves = s.saves /\ t.queue = s.queue /\ t.requests = s.requests
      /\ t.ongoing = s.ongoing /\ t.given = s.given /\ t.clash = s.clash
  BY <1>0, <1>1, <1>2 DEF State
<1>b. cb \in BOOLEAN /\ (cb <=> TRUE)
  OBVIOUS
<1>m. m = RequestedOf(i, auto, auto, cb) /\ e = PostRequest(t, i, auto, auto, cb)
  BY <1>3 DEF AsksFor
<1> HIDE DEF t, m, cb
<1>p. Posts(t, i, auto, auto, cb, m, e)
  <2>1. t \in State /\ t.client
    BY <1>4
  <2>2. cb \in BOOLEAN
    BY <1>b
  <2> QED
    BY <2>1, <2>2, <1>m, PostsRequest, Zenon
<1>5. /\ m \in Requested /\ m.id = i /\ m.accepted = auto /\ m.save = auto /\ m.callback = cb
      /\ e \in State /\ e.client = s.client /\ e.items = f /\ e.currentId = i
      /\ e.downloads = d /\ e.saves = s.saves /\ e.queue = Append(s.queue, m)
      /\ e.requests = s.requests /\ e.ongoing = s.ongoing
      /\ e.given = s.given \union {i} /\ e.clash = (s.clash \/ i \in s.given)
  BY <1>4, <1>p DEF Posts
<1>6. ItemInv(e, i)
  <2>1. i \in 1 .. Len(e.items) /\ e.items[i] = AskedItem /\ i \in e.downloads /\ i <= e.currentId
    BY <1>0, <1>1, <1>4, <1>5 DEF d
  <2> QED
    BY <2>1, LinkItems DEF ItemInv
<1>7. IdInv(e, i)
  <2>1. /\ e.queue = Append(s.queue, m) /\ e.requests = s.requests /\ e.ongoing = s.ongoing
        /\ e.given = s.given \union {i} /\ e.clash = (s.clash \/ i \in s.given)
    BY <1>4, <1>5
  <2>2. i <= e.currentId /\ Len(s.items) <= Len(e.items)
    BY <1>0, <1>1, <1>4, <1>5
  <2>3. WaitsFor(e, i, m.callback)
    BY <1>4, <1>5, <1>b DEF WaitsFor, d
  <2>4. m.accepted => m.save
    BY <1>5
  <2>5. i \in e.downloads => i \in s.downloads \/ m.callback
    BY <1>5, <1>b
  <2>6. i \in e.saves => i \in s.saves \/ (~m.callback /\ (~s.clash => Len(e.items) < i))
    BY <1>4, <1>5
  <2> QED
    BY <1>5, <1>6, <2>1, <2>2, <2>3, <2>4, <2>5, <2>6, RequestPosted
<1>8. ASSUME NEW j \in Items, j # i PROVE IdInv(e, j)
  <2>1. CurrentOn(s, e, j)
    <3>0. j \in Nat /\ s.currentId \in Nat
      BY Lengths, DownloadConstants DEF Items, DownloadConstants
    <3>1. Len(e.items) = i /\ e.currentId = i
      BY <1>1, <1>4, <1>5
    <3>2. ~e.clash => s.currentId < i
      <4> SUFFICES ASSUME ~e.clash, s.currentId >= i PROVE FALSE
        BY <1>0, <3>0
      <4>1. ~s.clash /\ i \notin s.given
        BY <1>4, <1>5 DEF State
      <4>2. FreeInv(s, i)
        BY <4>1 DEF IdInv
      <4> QED
        BY <1>0, <3>0, <4>1, <4>2 DEF FreeInv
    <3>3. j <= s.currentId /\ ~e.clash => j <= i
      BY <1>0, <3>0, <3>2
    <3> QED
      BY <1>0, <3>0, <3>1, <3>3 DEF CurrentOn
  <2>2. /\ Len(s.items) <= Len(e.items) /\ \A k \in 1 .. Len(s.items) : e.items[k] = s.items[k]
        /\ \A k \in 1 .. Len(e.items) : k \notin 1 .. Len(s.items) => k = i
    BY <1>0, <1>1, <1>4, <1>5
  <2>3. \A k \in Items : k # i => /\ k \in e.downloads <=> k \in s.downloads
                                  /\ k \in e.saves <=> k \in s.saves
                                  /\ k \in e.given <=> k \in s.given
    BY <1>4, <1>5 DEF d
  <2>4. /\ e.requests = s.requests /\ e.ongoing = s.ongoing /\ (s.clash => e.clash)
        /\ m \in Updated \union Requested /\ m.id = i /\ e.queue = Append(s.queue, m)
    BY <1>4, <1>5
  <2>5. OthersSame(s, e, i)
    BY <2>2, <2>3, <2>4 DEF OthersSame
  <2>6. IdInv(s, j) /\ e \in State
    BY <1>5
  <2> QED
    BY <1>8, <2>1, <2>5, <2>6, OthersKeep
<1>9. Fresh(s, e, i)
  BY <1>4, <1>5, <1>7, <1>8 DEF Fresh
<1> QED
  BY <1>1, <1>4, <1>5, <1>9

(* A profile that nobody has opened asks nobody.                           *)
Idle(s) == /\ Len(s.queue) = 0 /\ Len(s.requests) = 0
           /\ s.given = {} /\ s.downloads = {} /\ s.saves = {}

(* Without a client nothing is posted.                                     *)
LEMMA NotifiesNobody ==
  ASSUME NEW s, ~s.client, NEW i
  PROVE  Notify(s, i) = s
BY DEF Notify, Post

(* A download starts, and is cancelled as there is nobody to ask.          *)
LEMMA StartsRefused ==
  ASSUME NEW s \in State, ~s.client, Idle(s), \A j \in Items : IdInv(s, j),
         NEW i \in Items, i = Len(s.items) + 1,
         NEW e, e = CancelTarget(Asking(s), i)
  PROVE  Fresh(s, e, i) /\ Len(e.items) = Len(s.items) + 1 /\ e.saves = s.saves /\ Idle(e)
<1> DEFINE f == Append(s.items, AskedItem)
           a == [s EXCEPT !.items = f, !.currentId = i]
<1>0. s.items \in Seq(ItemSet) /\ Len(s.items) \in Nat /\ i \in Nat
  BY Lengths DEF State
<1>1. /\ f \in Seq(ItemSet) /\ Len(f) = i /\ f[i] = AskedItem
      /\ \A k \in 1 .. Len(s.items) : f[k] = s.items[k]
  BY <1>0, LinkItems
<1>2. Asking(s) = a
  BY DEF Asking, State
<1> HIDE DEF f
<1>3. /\ a \in State /\ a.client = s.client /\ a.items = f /\ a.currentId = i
      /\ a.downloads = s.downloads /\ a.saves = s.saves /\ a.queue = s.queue
      /\ a.requests = s.requests /\ a.ongoing = s.ongoing /\ a.given = s.given /\ a.clash = s.clash
  BY <1>0, <1>1 DEF State
<1>4. e = CancelItem(a, i)
  BY <1>2 DEF CancelTarget
<1> HIDE DEF a
<1>5. i \in 1 .. Len(a.items) /\ a.items[i] = AskedItem /\ Watched(a, i)
  BY <1>0, <1>1, <1>3, LinkItems DEF Watched
<1>6. /\ Effect(a, e, i) /\ SameAsks(a, e) /\ SameSets(a, e) /\ Len(e.items) = Len(a.items)
      /\ e.items[i] = [a.items[i] EXCEPT !.state = "cancelled", !.target = "none"]
  <2> DEFINE c == CancelItem(a, i)
  <2>1. /\ Effect(a, c, i) /\ SameAsks(a, c) /\ SameSets(a, c) /\ Len(c.items) = Len(a.items)
        /\ \/ /\ a.items[i].state \notin {"in_progress", "interrupted"} /\ c = a
           \/ /\ a.items[i].state \in {"in_progress", "interrupted"}
              /\ c.items[i] = [a.items[i] EXCEPT !.state = "cancelled", !.target = "none"]
              /\ a.client => UpToDate(c.queue, i, "cancelled")
    BY <1>3, <1>5, Cancelled
  <2>2. c = e
    BY <1>4
  <2> HIDE DEF c
  <2>3. a.items[i].state = "in_progress"
    BY <1>5, LinkItems
  <2> QED
    BY <2>1, <2>2, <2>3
<1>7. e.items[i] = RefusedItem
  BY <1>5, <1>6 DEF RefusedItem
<1>8. /\ e \in State /\ e.client = s.client /\ e.currentId = i /\ e.downloads = s.downloads
      /\ e.saves = s.saves /\ e.queue = s.queue /\ e.requests = s.requests
      /\ e.ongoing = s.ongoing /\ e.given = s.given /\ e.clash = s.clash /\ Len(e.items) = i
  BY <1>1, <1>3, <1>6 DEF Effect, SameAsks, SameSets
<1>9. Idle(e)
  BY <1>8 DEF Idle
<1>i. IdInv(e, i)
  <2>1. \A k \in 1 .. Len(e.queue) : FALSE
    BY <1>9 DEF Idle
  <2>2. \A n \in 1 .. Len(e.requests) : FALSE
    BY <1>9 DEF Idle
  <2>3. i \notin e.downloads /\ i \notin e.saves /\ i \notin e.given
    BY <1>9 DEF Idle
  <2>4. ItemInv(e, i)
    BY <1>0, <1>7, <1>8, <2>3, LinkItems DEF ItemInv
  <2>5. ComesInv(e, i)
    BY <2>3 DEF ComesInv
  <2>6. AskedInv(e, i)
    BY <1>8, <2>1, <2>2 DEF IdInv, AskedInv
  <2>7. FreeInv(e, i)
    BY <1>0, <1>8, <2>1, <2>2, <2>3 DEF FreeInv
  <2>8. OwnInv(e, i)
    BY <2>1, <2>2 DEF OwnInv
  <2> QED
    BY <2>4, <2>5, <2>6, <2>7, <2>8 DEF IdInv
<1>j. ASSUME NEW j \in Items, j # i PROVE IdInv(e, j)
  <2>0. j \in Nat /\ s.currentId \in Nat /\ IdInv(s, j)
    BY Lengths, DownloadConstants DEF Items, DownloadConstants
  <2>1. CurrentOn(s, e, j)
    <3>1. j <= s.currentId /\ ~e.clash => j <= i
      <4> SUFFICES ASSUME j <= s.currentId, ~e.clash, ~(j <= i) PROVE FALSE
        OBVIOUS
      <4>1. ~s.clash
        BY <1>8
      <4>2. FreeInv(s, j)
        BY <2>0, <4>1 DEF IdInv
      <4>3. Len(s.items) < j
        BY <1>0, <2>0
      <4>4. j \in s.given
        BY <4>2, <4>3 DEF FreeInv
      <4> QED
        BY <4>4 DEF Idle
    <3> QED
      BY <1>0, <1>8, <2>0, <3>1 DEF CurrentOn
  <2>2. \A k \in 1 .. Len(s.items) : e.items[k] = s.items[k]
    <3> SUFFICES ASSUME NEW k \in 1 .. Len(s.items) PROVE e.items[k] = s.items[k]
      OBVIOUS
    <3>1. k \in Items /\ k # i /\ k \in 1 .. Len(a.items)
      BY <1>0, <1>1, <1>3, DownloadConstants DEF Items, DownloadConstants
    <3>2. ItemsOn(a, e, k)
      BY <1>6, <3>1 DEF Effect, View
    <3> QED
      BY <1>1, <1>3, <3>1, <3>2 DEF ItemsOn
  <2>3. /\ Len(s.items) <= Len(e.items)
        /\ \A k \in 1 .. Len(e.items) : k \notin 1 .. Len(s.items) => k = i
    BY <1>0, <1>8
  <2>4. OthersSame(s, e, i)
    BY <1>8, <2>2, <2>3 DEF OthersSame
  <2> QED
    BY <1>8, <1>j, <2>0, <2>1, <2>4, OthersKeep
<1>f. Fresh(s, e, i)
  BY <1>8, <1>i, <1>j DEF Fresh
<1> QED
  BY <1>8, <1>9, <1>f

(* A page is saved: the delegate guesses its number.                       *)
Saving(s, id) == [s EXCEPT !.currentId = id, !.saves = @ \union {id}]
AsksSave(s, id, auto) == PostRequest(Saving(s, id), id, auto, TRUE, FALSE)
(* savePage(): the request for a path is posted.                           *)
LEMMA SavesAsking ==
  ASSUME NEW s \in State, s.client, \A j \in Items : IdInv(s, j), NEW auto \in BOOLEAN,
         ~s.clash => Len(s.items) <= s.currentId,
         NEW id \in Items, id = s.currentId + 1, NEW e, e = AsksSave(s, id, auto)
  PROVE  /\ Fresh(s, e, id) /\ Len(e.items) = Len(s.items) /\ e.saves = s.saves \union {id}
<1> DEFINE d == s.saves \union {id}
           t == [s EXCEPT !.currentId = id, !.saves = d]
           yes == TRUE
           no == FALSE
           m == RequestedOf(id, auto, yes, no)
<1>0. Len(s.items) \in Nat /\ id \in Nat /\ s.currentId \in Nat
  BY Lengths DEF State
<1>1. d \in SUBSET Items
  BY DEF State
<1>2. Saving(s, id) = t
  BY DEF Saving, State
<1> HIDE DEF d
<1>3. /\ t \in State /\ t.client = s.client /\ t.items = s.items /\ t.currentId = id
      /\ t.downloads = s.downloads /\ t.saves = d /\ t.queue = s.queue /\ t.requests = s.requests
      /\ t.ongoing = s.ongoing /\ t.given = s.given /\ t.clash = s.clash
  BY <1>0, <1>1 DEF State
<1>b. /\ yes \in BOOLEAN /\ no \in BOOLEAN
      /\ yes <=> TRUE
      /\ no <=> FALSE
  OBVIOUS
<1>m. m = RequestedOf(id, auto, yes, no) /\ e = PostRequest(t, id, auto, yes, no)
  BY <1>2 DEF AsksSave
<1> HIDE DEF t, m, yes, no
<1>p. Posts(t, id, auto, yes, no, m, e)
  <2>1. t \in State /\ t.client
    BY <1>3
  <2>2. yes \in BOOLEAN /\ no \in BOOLEAN
    BY <1>b
  <2> QED
    BY <2>1, <2>2, <1>m, PostsRequest, Zenon
<1>4. /\ m \in Requested /\ m.id = id /\ m.save = yes /\ m.callback = no
      /\ e \in State /\ e.client = s.client /\ e.items = s.items /\ e.currentId = id
      /\ e.downloads = s.downloads /\ e.saves = d /\ e.queue = Append(s.queue, m)
      /\ e.requests = s.requests /\ e.ongoing = s.ongoing
      /\ e.given = s.given \union {id} /\ e.clash = (s.clash \/ id \in s.given)
  BY <1>3, <1>p DEF Posts
<1>5. IdInv(e, id)
  <2>0. IdInv(s, id)
    OBVIOUS
  <2>1. /\ e.queue = Append(s.queue, m) /\ e.requests = s.requests /\ e.ongoing = s.ongoing
        /\ e.given = s.given \union {id} /\ e.clash = (s.clash \/ id \in s.given)
    BY <1>4
  <2>2. id <= e.currentId /\ Len(s.items) <= Len(e.items)
    BY <1>0, <1>4
  <2>3. WaitsFor(e, id, m.callback)
    BY <1>4, <1>b DEF WaitsFor, d
  <2>4. m.accepted => m.save
    BY <1>4, <1>b
  <2>5. id \in e.downloads => id \in s.downloads \/ m.callback
    BY <1>4
  <2>6. id \in e.saves => id \in s.saves \/ (~m.callback /\ (~s.clash => Len(e.items) < id))
    BY <1>0, <1>4, <1>b
  <2>7. ItemInv(e, id)
    BY <1>0, <1>4, <2>0 DEF IdInv, ItemInv
  <2> QED
    BY <1>4, <2>0, <2>1, <2>2, <2>3, <2>4, <2>5, <2>6, <2>7, RequestPosted
<1>6. ASSUME NEW j \in Items, j # id PROVE IdInv(e, j)
  <2>1. CurrentOn(s, e, j)
    <3>1. j \in Nat
      BY DownloadConstants DEF Items, DownloadConstants
    <3> QED
      BY <1>0, <1>4, <1>6, <3>1 DEF CurrentOn
  <2>2. /\ Len(s.items) <= Len(e.items) /\ \A k \in 1 .. Len(s.items) : e.items[k] = s.items[k]
        /\ \A k \in 1 .. Len(e.items) : k \notin 1 .. Len(s.items) => k = id
    BY <1>0, <1>4
  <2>3. \A k \in Items : k # id => /\ k \in e.downloads <=> k \in s.downloads
                                   /\ k \in e.saves <=> k \in s.saves
                                   /\ k \in e.given <=> k \in s.given
    BY <1>4 DEF d
  <2>4. /\ e.requests = s.requests /\ e.ongoing = s.ongoing /\ (s.clash => e.clash)
        /\ m \in Updated \union Requested /\ m.id = id /\ e.queue = Append(s.queue, m)
    BY <1>4
  <2>5. OthersSame(s, e, id)
    BY <2>2, <2>3, <2>4 DEF OthersSame
  <2>6. IdInv(s, j) /\ e \in State
    BY <1>4
  <2> QED
    BY <1>6, <2>1, <2>5, <2>6, OthersKeep
<1>7. Fresh(s, e, id)
  BY <1>4, <1>5, <1>6 DEF Fresh
<1> QED
  BY <1>4, <1>7 DEF d
-----------------------------------------------------------------------------
(***************************************************************************)
(* What holds of every state, with its numbers of links and of pages: an   *)
(* item or a callback of a page for each, so that no number is past Items. *)
(***************************************************************************)
Sound(s, l, p) ==
  /\ s \in State /\ \A id \in Items : IdInv(s, id)
  /\ ~s.client => Idle(s)
  /\ ~s.clash => Len(s.items) <= s.currentId
  /\ l \in 0 .. MaxLinks /\ p \in 0 .. MaxSaves
  /\ Len(s.items) + Cardinality(s.saves) <= l + p /\ s.currentId <= l + p

(* The callbacks of pages, counted.                                        *)
LEMMA SavesCounted ==
  ASSUME NEW s \in State
  PROVE  /\ Cardinality(s.saves) \in Nat /\ Len(s.items) \in Nat /\ s.currentId \in Nat
         /\ \A t : t \subseteq s.saves => Cardinality(t) \in Nat /\ Cardinality(t) <= Cardinality(s.saves)
         /\ \A x \in s.saves : \A t : t \subseteq s.saves \ {x} =>
              Cardinality(t) \in Nat /\ Cardinality(t) + 1 <= Cardinality(s.saves)
         /\ \A x : /\ Cardinality(s.saves \union {x}) \in Nat
                   /\ Cardinality(s.saves \union {x}) <= Cardinality(s.saves) + 1
<1>1. IsFiniteSet(s.saves)
  <2>1. IsFiniteSet(Items)
    BY DownloadConstants, FS_Interval DEF Items, DownloadConstants
  <2>2. s.saves \subseteq Items
    BY DEF State
  <2> QED
    BY <2>1, <2>2, FS_Subset
<1>2. Cardinality(s.saves) \in Nat
  BY <1>1, FS_CardinalityType
<1>3. \A t : t \subseteq s.saves => Cardinality(t) \in Nat /\ Cardinality(t) <= Cardinality(s.saves)
  BY <1>1, FS_Subset, FS_CardinalityType
<1>4. ASSUME NEW x \in s.saves, NEW t, t \subseteq s.saves \ {x}
      PROVE  Cardinality(t) \in Nat /\ Cardinality(t) + 1 <= Cardinality(s.saves)
  <2> DEFINE u == s.saves \ {x}
  <2>1. IsFiniteSet(u) /\ Cardinality(u) = Cardinality(s.saves) - 1
    BY <1>1, FS_RemoveElement
  <2>2. t \subseteq u
    BY <1>4
  <2> HIDE DEF u
  <2>3. IsFiniteSet(t) /\ Cardinality(t) <= Cardinality(u)
    BY <2>1, <2>2, FS_Subset
  <2>4. Cardinality(t) \in Nat /\ Cardinality(u) \in Nat
    BY <2>1, <2>3, FS_CardinalityType
  <2> QED
    BY <1>2, <2>1, <2>3, <2>4
<1>5. ASSUME NEW x
      PROVE  /\ Cardinality(s.saves \union {x}) \in Nat
             /\ Cardinality(s.saves \union {x}) <= Cardinality(s.saves) + 1
  BY <1>1, <1>2, FS_AddElement
<1> QED
  BY <1>2, <1>3, <1>4, <1>5, Lengths

(* The item of a page that is accepted has a number in Items.              *)
LEMMA SavesAreOK ==
  ASSUME NEW s, NEW l, NEW p, Sound(s, l, p), NEW id \in Items
  PROVE  SavesOK(s, id)
<1>0. /\ s \in State /\ IdInv(s, id) /\ l \in 0 .. MaxLinks /\ p \in 0 .. MaxSaves
      /\ Len(s.items) + Cardinality(s.saves) <= l + p
  BY DEF Sound
<1>1. ASSUME id \in s.saves PROVE Len(s.items) + 1 \in Items
  <2>1. Cardinality({}) + 1 <= Cardinality(s.saves) /\ Cardinality({}) \in Nat
    BY <1>0, <1>1, SavesCounted
  <2>2. Cardinality(s.saves) \in Nat /\ Len(s.items) \in Nat
    BY <1>0, SavesCounted
  <2> QED
    BY <1>0, <2>1, <2>2, DownloadConstants DEF Items, DownloadConstants
<1>2. ASSUME id \in s.saves, ~s.clash PROVE Len(s.items) < id /\ id <= s.currentId
  <2>1. FreeInv(s, id) /\ ComesInv(s, id)
    BY <1>0, <1>2 DEF IdInv
  <2>2. Comes(s, id, FALSE)
    BY <1>2, <2>1 DEF ComesInv
  <2>3. id \in s.given
    BY <2>1, <2>2 DEF Comes, FreeInv, Waits
  <2> QED
    BY <1>2, <2>1, <2>3 DEF FreeInv
<1> QED
  BY <1>1, <1>2 DEF SavesOK

(* A step on one number keeps the invariant of every number.               *)
LEMMA StepSound ==
  ASSUME NEW s, NEW l, NEW p, Sound(s, l, p), NEW id \in Items, NEW e, Step(s, e, id),
         ~e.client => Idle(e)
  PROVE  Sound(e, l, p)
<1>0. /\ s \in State /\ e \in State /\ e.currentId = s.currentId /\ (s.clash => e.clash)
      /\ Grows(s, e)
  BY DEF Sound, Step
<1>1. ASSUME NEW j \in Items PROVE IdInv(e, j)
  <2>1. CASE j = id
    BY <2>1 DEF Step
  <2>2. CASE j # id
    <3>1. View(s, e, j) /\ IdInv(s, j)
      BY <2>2 DEF Step, Sound
    <3>2. CurrentOn(s, e, j)
      BY <1>0 DEF CurrentOn
    <3> QED
      BY <1>0, <3>1, <3>2, ViewKeeps
  <2> QED
    BY <2>1, <2>2
<1>2. /\ Cardinality(s.saves) \in Nat /\ Len(s.items) \in Nat /\ s.currentId \in Nat
      /\ Cardinality(e.saves) \in Nat /\ Len(e.items) \in Nat
  BY <1>0, SavesCounted
<1>3. CASE Len(e.items) = Len(s.items) /\ e.saves \subseteq s.saves
  <2>1. Cardinality(e.saves) <= Cardinality(s.saves)
    BY <1>0, <1>3, SavesCounted
  <2>2. /\ l \in 0 .. MaxLinks /\ p \in 0 .. MaxSaves /\ MaxLinks \in Nat /\ MaxSaves \in Nat
        /\ Len(s.items) + Cardinality(s.saves) <= l + p /\ s.currentId <= l + p
        /\ (~s.clash => Len(s.items) <= s.currentId)
    BY DownloadConstants DEF Sound, DownloadConstants
  <2>3. Len(e.items) + Cardinality(e.saves) <= l + p
    BY <1>2, <1>3, <2>1, <2>2
  <2> QED
    BY <1>0, <1>1, <1>3, <2>2, <2>3 DEF Sound
<1>4. ASSUME NEW x \in s.saves, Len(e.items) = Len(s.items) + 1, e.saves \subseteq s.saves \ {x},
             ~e.clash => Len(e.items) <= s.currentId
      PROVE  Sound(e, l, p)
  <2>1. Cardinality(e.saves) + 1 <= Cardinality(s.saves)
    BY <1>0, <1>4, SavesCounted
  <2>2. /\ l \in 0 .. MaxLinks /\ p \in 0 .. MaxSaves /\ MaxLinks \in Nat /\ MaxSaves \in Nat
        /\ Len(s.items) + Cardinality(s.saves) <= l + p /\ s.currentId <= l + p
    BY DownloadConstants DEF Sound, DownloadConstants
  <2>3. Len(e.items) + Cardinality(e.saves) <= l + p
    BY <1>2, <1>4, <2>1, <2>2
  <2> QED
    BY <1>0, <1>1, <1>4, <2>2, <2>3 DEF Sound
<1> QED
  BY <1>0, <1>3, <1>4 DEF Grows

(* So does a download that starts.                                         *)
LEMMA StartSound ==
  ASSUME NEW s, NEW l, NEW p, Sound(s, l, p), l < MaxLinks, NEW auto \in BOOLEAN,
         NEW i, i = Len(s.items) + 1, NEW e, e = DetermineDownloadTarget(WithItem(s), i, auto)
  PROVE  Sound(e, l + 1, p) /\ e.client = s.client
<1>0. /\ s \in State /\ l \in 0 .. MaxLinks /\ p \in 0 .. MaxSaves
      /\ MaxLinks \in Nat /\ MaxSaves \in Nat
      /\ Len(s.items) + Cardinality(s.saves) <= l + p /\ s.currentId <= l + p
      /\ \A j \in Items : IdInv(s, j)
  BY DownloadConstants DEF Sound, DownloadConstants
<1>1. Cardinality(s.saves) \in Nat /\ Len(s.items) \in Nat
  BY <1>0, SavesCounted
<1>2. i \in Items
  BY <1>0, <1>1 DEF Items
<1>3. /\ Fresh(s, e, i) /\ Len(e.items) = Len(s.items) + 1 /\ e.saves = s.saves
      /\ (~s.client => Idle(e))
  <2>1. CASE s.client
    <3>1. e = PostRequest(AskingFor(s, i), i, auto, auto, TRUE)
      BY <1>0, <2>1, DownloadStarts DEF AskingFor
    <3>2. e = AsksFor(s, i, auto)
      BY <3>1, Zenon DEF AsksFor
    <3> HIDE <3>1
    <3>3. Fresh(s, e, i) /\ Len(e.items) = Len(s.items) + 1 /\ e.saves = s.saves
      BY <1>0, <1>2, <2>1, <3>2, StartsAsking
    <3> QED
      BY <2>1, <3>3
  <2>2. CASE ~s.client
    <3>1. e = CancelTarget(Asking(s), i)
      BY <1>0, <2>2, DownloadStarts
    <3>2. Idle(s)
      BY <2>2 DEF Sound
    <3> QED
      BY <1>0, <1>2, <2>2, <3>1, <3>2, StartsRefused
  <2> QED
    BY <2>1, <2>2
<1>4. /\ e \in State /\ e.client = s.client /\ e.currentId = i /\ \A j \in Items : IdInv(e, j)
  BY <1>3 DEF Fresh
<1>5. l + 1 \in 0 .. MaxLinks
  BY <1>0
<1>6. Len(e.items) + Cardinality(e.saves) <= (l + 1) + p /\ e.currentId <= (l + 1) + p
      /\ Len(e.items) <= e.currentId
  BY <1>0, <1>1, <1>3, <1>4
<1> QED
  BY <1>0, <1>3, <1>4, <1>5, <1>6 DEF Sound

(* So does a page to be saved.                                             *)
LEMMA SaveSound ==
  ASSUME NEW s, NEW l, NEW p, Sound(s, l, p), p < MaxSaves, NEW auto \in BOOLEAN, s.client,
         NEW id, id = s.currentId + 1, NEW e, e = AsksSave(s, id, auto)
  PROVE  Sound(e, l, p + 1) /\ e.client = s.client
<1>0. /\ s \in State /\ l \in 0 .. MaxLinks /\ p \in 0 .. MaxSaves
      /\ MaxLinks \in Nat /\ MaxSaves \in Nat
      /\ Len(s.items) + Cardinality(s.saves) <= l + p /\ s.currentId <= l + p
      /\ \A j \in Items : IdInv(s, j)
      /\ ~s.clash => Len(s.items) <= s.currentId
  BY DownloadConstants DEF Sound, DownloadConstants
<1>1. Cardinality(s.saves) \in Nat /\ Len(s.items) \in Nat /\ s.currentId \in Nat
  BY <1>0, SavesCounted
<1>2. id \in Items
  BY <1>0, <1>1 DEF Items
<1>3. Fresh(s, e, id) /\ Len(e.items) = Len(s.items) /\ e.saves = s.saves \union {id}
  BY <1>0, <1>2, SavesAsking
<1>4. /\ e \in State /\ e.client = s.client /\ e.currentId = id /\ (s.clash => e.clash)
      /\ \A j \in Items : IdInv(e, j)
  BY <1>3 DEF Fresh
<1>5. p + 1 \in 0 .. MaxSaves
  BY <1>0
<1>6. Cardinality(e.saves) \in Nat /\ Cardinality(e.saves) <= Cardinality(s.saves) + 1
  BY <1>0, <1>3, SavesCounted
<1>7. /\ Len(e.items) + Cardinality(e.saves) <= l + (p + 1) /\ e.currentId <= l + (p + 1)
      /\ ~e.clash => Len(e.items) <= e.currentId
  <2>1. /\ l \in Nat /\ p \in Nat /\ e.currentId = s.currentId + 1 /\ s.currentId <= l + p
        /\ Len(s.items) + Cardinality(s.saves) <= l + p /\ Len(e.items) = Len(s.items)
    BY <1>0, <1>3, <1>4
  <2>2. e.currentId <= l + (p + 1)
    BY <1>1, <2>1
  <2>3. Len(e.items) + Cardinality(e.saves) <= l + (p + 1)
    BY <1>1, <1>6, <2>1
  <2>4. ~e.clash => Len(e.items) <= e.currentId
    BY <1>0, <1>1, <1>4, <2>1
  <2> QED
    BY <2>2, <2>3, <2>4
<1> QED
  BY <1>0, <1>4, <1>5, <1>7 DEF Sound
-----------------------------------------------------------------------------
(***************************************************************************)
(* The invariant, and that every action keeps it.                          *)
(***************************************************************************)
Here == Now(TRUE)
There(dir) == Now(dir)
DownloadsInv == Sound(Here, links, pages)

(* The same but for the directory.                                         *)
SameBut(s, t) ==
  /\ t \in State /\ t.client = s.client /\ t.items = s.items /\ t.currentId = s.currentId
  /\ t.downloads = s.downloads /\ t.saves = s.saves /\ t.queue = s.queue
  /\ t.requests = s.requests /\ t.ongoing = s.ongoing /\ t.given = s.given /\ t.clash = s.clash

(* The directory of the target is nothing the invariant reads.             *)
LEMMA Moved ==
  ASSUME NEW s, NEW l, NEW p, Sound(s, l, p), NEW t, SameBut(s, t)
  PROVE  Sound(t, l, p)
<1>1. s \in State /\ Len(s.items) \in Nat /\ s.currentId \in Nat
  BY Lengths DEF Sound
<1>2. ASSUME NEW j \in Items PROVE IdInv(t, j)
  <2>1. View(s, t, j)
    BY <1>1, QueueSame DEF SameBut, View, ItemsOn, RequestsOn, SetsOn
  <2>2. CurrentOn(s, t, j)
    BY DEF CurrentOn, SameBut
  <2>3. t \in State /\ IdInv(s, j)
    BY DEF SameBut, Sound
  <2> QED
    BY <1>1, <2>1, <2>2, <2>3, ViewKeeps
<1> QED
  BY <1>2 DEF Sound, SameBut, Idle

(* The state of the variables.                                             *)
LEMMA HereIs ==
  /\ Here.client = client /\ Here.items = items /\ Here.currentId = currentId
  /\ Here.downloads = downloads /\ Here.saves = saves /\ Here.queue = queue
  /\ Here.requests = requests /\ Here.ongoing = ongoing /\ Here.given = given
  /\ Here.clash = clash
BY DEF Here, Now

(* The state in which the directory cannot be made is the same else.       *)
LEMMA ThereIs ==
  ASSUME NEW dir \in BOOLEAN, Here \in State
  PROVE  SameBut(Here, There(dir))
<1> DEFINE t == There(dir)
<1>1. /\ t.client = client /\ t.items = items /\ t.currentId = currentId
      /\ t.downloads = downloads /\ t.saves = saves /\ t.queue = queue
      /\ t.requests = requests /\ t.ongoing = ongoing /\ t.given = given
      /\ t.clash = clash
  BY DEF There, Now
<1>2. t = [Here EXCEPT !.dir = dir]
  BY DEF Here, There, Now
<1>3. t \in State
  BY <1>2 DEF State
<1> QED
  BY <1>1, <1>3, HereIs DEF SameBut

(* What a step of the delegate or of a request becomes.                    *)
LEMMA Becoming ==
  ASSUME NEW e \in State, Becomes(e), client' = e.client
  PROVE  SameBut(e, Here')
<1>1. /\ items' = e.items /\ currentId' = e.currentId /\ downloads' = e.downloads
      /\ saves' = e.saves /\ queue' = e.queue /\ requests' = e.requests
      /\ ongoing' = e.ongoing /\ given' = e.given /\ clash' = e.clash
  BY DEF Becomes
<1>2. Here' = [client |-> client', items |-> items', currentId |-> currentId',
               downloads |-> downloads', saves |-> saves', queue |-> queue',
               requests |-> requests', ongoing |-> ongoing', given |-> given',
               clash |-> clash', dir |-> TRUE]
  BY DEF Here, Now
<1>3. Here' \in State
  BY <1>1, <1>2 DEF State
<1>4. /\ (Here').client = e.client /\ (Here').items = e.items
      /\ (Here').currentId = e.currentId /\ (Here').downloads = e.downloads
      /\ (Here').saves = e.saves /\ (Here').queue = e.queue /\ (Here').requests = e.requests
      /\ (Here').ongoing = e.ongoing /\ (Here').given = e.given /\ (Here').clash = e.clash
  BY <1>1, <1>2
<1> QED
  BY <1>3, <1>4 DEF SameBut

(* Nothing has started yet.                                                *)
LEMMA InitInv ==
  ASSUME Init
  PROVE  DownloadsInv
<1>1. /\ Here.client = FALSE /\ Here.items = <<>> /\ Here.currentId = 0
      /\ Here.downloads = {} /\ Here.saves = {} /\ Here.queue = <<>>
      /\ Here.requests = <<>> /\ Here.ongoing = [i \in Items |-> 0] /\ Here.given = {}
      /\ Here.clash = FALSE
  BY HereIs DEF Init
<1>2. Here \in State
  <2>1. Here = [client |-> FALSE, items |-> <<>>, currentId |-> 0, downloads |-> {}, saves |-> {},
                queue |-> <<>>, requests |-> <<>>, ongoing |-> [i \in Items |-> 0], given |-> {},
                clash |-> FALSE, dir |-> TRUE]
    BY DEF Here, Now, Init
  <2>2. [i \in Items |-> 0] \in [Items -> Nat]
    OBVIOUS
  <2> QED
    BY <2>1, <2>2 DEF State
<1>3. Len(Here.items) = 0 /\ Len(Here.queue) = 0 /\ Len(Here.requests) = 0
  BY <1>1
<1>4. ASSUME NEW id \in Items PROVE IdInv(Here, id)
  <2>1. ItemInv(Here, id)
    BY <1>1, <1>3 DEF ItemInv
  <2>2. ComesInv(Here, id)
    BY <1>1 DEF ComesInv
  <2>3. AskedInv(Here, id)
    BY <1>1, <1>3 DEF AskedInv
  <2>4. FreeInv(Here, id)
    BY <1>1, <1>3, DownloadConstants DEF FreeInv, Items, DownloadConstants
  <2>5. OwnInv(Here, id)
    BY <1>3 DEF OwnInv
  <2> QED
    BY <2>1, <2>2, <2>3, <2>4, <2>5 DEF IdInv
<1>5. Idle(Here)
  BY <1>1, <1>3 DEF Idle
<1>6. Cardinality(Here.saves) = 0
  BY <1>1, FS_EmptySet
<1>7. links = 0 /\ pages = 0
  BY DEF Init
<1> QED
  BY <1>1, <1>2, <1>3, <1>4, <1>5, <1>6, <1>7, DownloadConstants
  DEF DownloadsInv, Sound, DownloadConstants

(* An action that becomes a state with the invariant.                      *)
LEMMA SoundTaken ==
  ASSUME NEW e, Sound(e, links', pages'), Becomes(e), client' = e.client
  PROVE  DownloadsInv'
<1>1. e \in State
  BY DEF Sound
<1>2. SameBut(e, Here')
  BY <1>1, Becoming
<1>3. Sound(Here', links', pages')
  BY <1>2, Moved
<1> QED
  BY <1>3 DEF DownloadsInv

(* An action that is a step on one number.                                 *)
LEMMA StepTaken ==
  ASSUME NEW s, Sound(s, links, pages), s.client = client, NEW id \in Items, NEW e, Step(s, e, id),
         ~e.client => Idle(e), Becomes(e), UNCHANGED <<client, links, pages>>
  PROVE  DownloadsInv'
<1>1. Sound(e, links, pages)
  BY StepSound
<1>2. Sound(e, links', pages') /\ client' = e.client
  BY <1>1 DEF Step
<1> QED
  BY <1>2, SoundTaken

(* The actions, one by one.                                                *)
LEMMA OpenKeeps ==
  ASSUME DownloadsInv, OpenProfile
  PROVE  DownloadsInv'
<1> DEFINE s == Here
           e == [s EXCEPT !.client = TRUE]
<1>1. Sound(s, links, pages) /\ s \in State /\ ~s.client
  BY HereIs DEF DownloadsInv, Sound, OpenProfile
<1>2. Becomes(s)
  BY DEF OpenProfile, Here
<1>3. Becomes(e)
  <2>1. /\ e.items = s.items /\ e.currentId = s.currentId /\ e.downloads = s.downloads
        /\ e.saves = s.saves /\ e.queue = s.queue /\ e.requests = s.requests
        /\ e.ongoing = s.ongoing /\ e.given = s.given /\ e.clash = s.clash
    BY <1>1 DEF State
  <2> QED
    BY <1>2, <2>1 DEF Becomes
<1> HIDE DEF s
<1>4. /\ e \in State /\ e.client = TRUE /\ e.items = s.items /\ e.currentId = s.currentId
      /\ e.downloads = s.downloads /\ e.saves = s.saves /\ e.queue = s.queue
      /\ e.requests = s.requests /\ e.ongoing = s.ongoing /\ e.given = s.given /\ e.clash = s.clash
  BY <1>1 DEF State
<1> HIDE DEF e
<1>5. Sound(e, links, pages)
  <2>1. ASSUME NEW j \in Items PROVE IdInv(e, j)
    <3>1. View(s, e, j)
      BY <1>1, <1>4, Lengths, QueueSame DEF View, ItemsOn, RequestsOn, SetsOn
    <3>2. CurrentOn(s, e, j)
      BY <1>4 DEF CurrentOn
    <3>3. IdInv(s, j)
      BY <1>1 DEF Sound
    <3> QED
      BY <1>1, <1>4, <3>1, <3>2, <3>3, ViewKeeps
  <2> QED
    BY <1>1, <1>4, <2>1 DEF Sound
<1>6. Sound(e, links', pages') /\ client' = e.client
  BY <1>4, <1>5 DEF OpenProfile
<1> QED
  BY <1>3, <1>6, SoundTaken

(* The next timer.                                                         *)
LEMMA DeliverKeeps ==
  ASSUME DownloadsInv, Deliver
  PROVE  DownloadsInv'
<1>1. PICK does \in {"none", "nothing", "accept", "cancel"}, dir \in BOOLEAN :
        LET m == Head(queue)
            s == [Now(dir) EXCEPT !.queue = Tail(@)]
        IN \/ m.type = "requested" /\ Becomes(downloadRequested(s, m, does))
           \/ m.type = "updated" /\ does = "none" /\ dir /\ Becomes(downloadUpdated(s, m))
  BY DEF Deliver
<1> DEFINE s == There(dir)
           m == s.queue[1]
           id == m.id
           t == Shifted(s)
<1>s. s = There(dir)
  OBVIOUS
<1>2. Here \in State /\ Sound(Here, links, pages)
  BY DEF DownloadsInv, Sound
<1>3. SameBut(Here, s)
  BY <1>2, ThereIs
<1>4. Sound(s, links, pages)
  BY <1>2, <1>3, Moved
<1>5. s.queue = queue /\ s.client = client /\ s \in State /\ s.queue # <<>>
  BY <1>3, HereIs DEF SameBut, Deliver
<1>6. Head(queue) = m /\ [Now(dir) EXCEPT !.queue = Tail(@)] = t
  <2>1. Head(queue) = m
    BY <1>5, QueueTail DEF State
  <2>2. [Now(dir) EXCEPT !.queue = Tail(@)] = t
    BY <1>5 DEF Shifted, There
  <2> QED
    BY <2>1, <2>2
<1>7. \/ m.type = "requested" /\ Becomes(downloadRequested(t, m, does))
      \/ m.type = "updated" /\ Becomes(downloadUpdated(t, m))
  BY <1>1, <1>6
<1>t. t = Shifted(s) /\ m = s.queue[1] /\ id = m.id
  OBVIOUS
<1> HIDE DEF s, t, m, id
<1>8. id \in Items
  BY <1>5, <1>t, Shift
<1>9. IdInv(s, id) /\ SavesOK(s, id)
  BY <1>4, <1>8, SavesAreOK DEF Sound
<1>10. s.client
  <2> SUFFICES ASSUME ~s.client PROVE FALSE
    OBVIOUS
  <2>1. Len(s.queue) = 0
    BY <1>4 DEF Sound, Idle
  <2>2. Len(s.queue) > 0
    BY <1>5, <1>t, Shift
  <2> QED
    BY <2>1, <2>2
<1>11. UNCHANGED <<client, links, pages>>
  BY DEF Deliver
<1>12. CASE m.type = "requested" /\ Becomes(downloadRequested(t, m, does))
  <2> DEFINE e == downloadRequested(t, m, does)
  <2>1. Step(s, e, id)
    <3>1. CASE does = "none"
      BY <1>5, <1>9, <1>10, <1>12, <1>t, <3>1, DeliversNothing
    <3>2. CASE does \in {"nothing", "accept", "cancel"}
      BY <1>5, <1>9, <1>10, <1>12, <1>t, <3>2, DeliversSignal
    <3> QED
      BY <3>1, <3>2
  <2>2. Becomes(e)
    BY <1>12
  <2> HIDE DEF e
  <2>3. ~e.client => Idle(e)
    BY <1>10, <2>1 DEF Step
  <2> QED
    BY <1>4, <1>5, <1>8, <1>11, <2>1, <2>2, <2>3, StepTaken
<1>13. CASE m.type = "updated" /\ Becomes(downloadUpdated(t, m))
  <2> DEFINE e == downloadUpdated(t, m)
  <2>1. Step(s, e, id)
    BY <1>5, <1>9, <1>13, <1>t, DeliversUpdate
  <2>2. Becomes(e)
    BY <1>13
  <2> HIDE DEF e
  <2>3. ~e.client => Idle(e)
    BY <1>10, <2>1 DEF Step
  <2> QED
    BY <1>4, <1>5, <1>8, <1>11, <2>1, <2>2, <2>3, StepTaken
<1> QED
  BY <1>7, <1>12, <1>13

(* Chromium starts a download.                                             *)
LEMMA StartKeeps ==
  ASSUME DownloadsInv, NEW auto \in BOOLEAN, StartDownload(auto)
  PROVE  DownloadsInv'
<1> DEFINE s == Here
           i == Len(items) + 1
           e == DetermineDownloadTarget(WithItem(s), i, auto)
<1>1. Becomes(e)
  BY DEF StartDownload, Here, WithItem
<1>2. Sound(s, links, pages) /\ i = Len(s.items) + 1 /\ s.client = client
  BY HereIs DEF DownloadsInv
<1>e. e = DetermineDownloadTarget(WithItem(s), i, auto)
  OBVIOUS
<1> HIDE DEF s, i, e
<1>3. links < MaxLinks /\ links' = links + 1 /\ UNCHANGED <<client, pages>>
  BY DEF StartDownload
<1>4. Sound(e, links + 1, pages) /\ e.client = s.client
  BY <1>2, <1>3, <1>e, StartSound
<1> QED
  BY <1>1, <1>2, <1>3, <1>4, SoundTaken

(* The application saves a page.                                           *)
LEMMA SaveKeeps ==
  ASSUME DownloadsInv, NEW auto \in BOOLEAN, ChooseSavePath(auto)
  PROVE  DownloadsInv'
<1> DEFINE s == Here
           id == currentId + 1
           e == AsksSave(s, id, auto)
<1>1. Becomes(IF client THEN e ELSE s)
  BY DEF ChooseSavePath, Here, AsksSave, Saving
<1>2. Sound(s, links, pages) /\ id = s.currentId + 1 /\ s.client = client
  BY HereIs DEF DownloadsInv
<1>e. e = AsksSave(s, id, auto)
  OBVIOUS
<1> HIDE DEF s, id, e
<1>3. pages < MaxSaves /\ pages' = pages + 1 /\ UNCHANGED <<client, links>>
  BY DEF ChooseSavePath
<1>4. CASE client
  <2>1. Sound(e, links, pages + 1) /\ e.client = s.client
    BY <1>2, <1>3, <1>4, <1>e, SaveSound
  <2>2. Becomes(e)
    BY <1>1, <1>4
  <2> QED
    BY <1>2, <1>3, <2>1, <2>2, SoundTaken
<1>5. CASE ~client
  <2>1. Sound(s, links, pages + 1)
    BY <1>2, <1>3, DownloadConstants, SavesCounted DEF Sound, DownloadConstants
  <2>2. Becomes(s)
    BY <1>1, <1>5
  <2> QED
    BY <1>2, <1>3, <2>1, <2>2, SoundTaken
<1> QED
  BY <1>4, <1>5

(* Nobody has a request of a profile that is not open.                     *)
LEMMA IdleQuiet ==
  ASSUME NEW s \in State, ~s.client => Idle(s)
  PROVE  Quiet(s)
<1>1. s.queue \in Seq(Updated \union Requested) /\ s.requests \in Seq(RequestSet)
  BY DEF State
<1>2. /\ Len(s.queue) = 0 => s.queue = <<>>
      /\ Len(s.requests) = 0 => s.requests = <<>>
  BY <1>1
<1> QED
  BY <1>2 DEF Quiet, Idle

(* An item makes progress.                                                 *)
LEMMA ProgressKeeps ==
  ASSUME DownloadsInv, NEW i \in Items, Progress(i)
  PROVE  DownloadsInv'
<1> DEFINE s == Here
           e == Notify(s, i)
<1>1. Becomes(e) /\ UNCHANGED <<client, links, pages>>
  BY DEF Progress, Here
<1>2. Sound(s, links, pages) /\ s.client = client /\ s.items = items
  BY HereIs DEF DownloadsInv
<1>e. e = Notify(s, i)
  OBVIOUS
<1> HIDE DEF s, e
<1>3. s \in State /\ IdInv(s, i) /\ (~s.client => Idle(s))
  BY <1>2 DEF Sound
<1>4. i \in 1 .. Len(s.items) /\ s.items[i].state = "in_progress"
  BY <1>2, <1>3, Lengths DEF Progress, Active
<1>5. Step(s, e, i)
  BY <1>3, <1>4, <1>e, IdleQuiet, Progresses
<1>6. ~e.client => Idle(e)
  <2> SUFFICES ASSUME ~e.client PROVE Idle(e)
    OBVIOUS
  <2>1. ~s.client
    BY <1>5 DEF Step
  <2>2. e = s
    BY <1>e, <2>1, NotifiesNobody
  <2> QED
    BY <1>3, <2>1, <2>2
<1> QED
  BY <1>1, <1>2, <1>5, <1>6, StepTaken

(* An item stops.                                                          *)
LEMMA StopKeeps ==
  ASSUME DownloadsInv, NEW i \in Items, Stop(i)
  PROVE  DownloadsInv'
<1>1. PICK st \in {"complete", "interrupted"}, lost \in BOOLEAN :
        /\ lost => st = "interrupted"
        /\ items[i].kind = "page" /\ st = "interrupted" => lost
        /\ Becomes(Notify([Now(TRUE) EXCEPT !.items[i].state = st,
                             !.items[i].target = IF lost THEN "lost" ELSE @], i))
  BY DEF Stop
<1> DEFINE s == Here
           to == IF lost THEN "lost" ELSE "set"
           t == Stopped(s, i, st, to)
           e == Notify(t, i)
<1>2. Sound(s, links, pages) /\ s.client = client /\ s.items = items
  BY HereIs DEF DownloadsInv
<1>3. s \in State /\ IdInv(s, i) /\ (~s.client => Idle(s))
  BY <1>2 DEF Sound
<1>4. /\ i \in 1 .. Len(s.items) /\ s.items[i].state = "in_progress" /\ s.items[i].target = "set"
  BY <1>2, <1>3, Lengths DEF Stop, Active
<1>5. [Now(TRUE) EXCEPT !.items[i].state = st, !.items[i].target = IF lost THEN "lost" ELSE @] = t
  <2> DEFINE f == s.items
             it == f[i]
             u == [it EXCEPT !.state = st]
             v == [u EXCEPT !.target = IF lost THEN "lost" ELSE @]
             w == [u EXCEPT !.target = to]
  <2>1. it \in ItemSet /\ f \in Seq(ItemSet)
    BY <1>3, <1>4, Lengths DEF State
  <2>2. u.target = "set"
    BY <1>4, <2>1 DEF ItemSet
  <2>3. v = w
    BY <2>2
  <2>4. [s EXCEPT !.items[i].state = st, !.items[i].target = IF lost THEN "lost" ELSE @]
          = [s EXCEPT !.items[i] = v]
    <3> DEFINE g == [f EXCEPT ![i] = u]
               h == [f EXCEPT ![i] = v]
               x == [s EXCEPT !.items = g]
               y == [s EXCEPT !.items = h]
               z == [x EXCEPT !.items[i].target = IF lost THEN "lost" ELSE @]
    <3>1. [s EXCEPT !.items[i].state = st, !.items[i].target = IF lost THEN "lost" ELSE @] = z
      OBVIOUS
    <3>2. g[i] = u /\ [g EXCEPT ![i] = v] = h
      BY <1>4, <2>1
    <3>3. y = [s EXCEPT !.items[i] = v]
      OBVIOUS
    <3> HIDE DEF f, g, h, v
    <3>4. x.items = g
      BY <1>3 DEF State
    <3>5. z = [x EXCEPT !.items = [x.items EXCEPT ![i] = v]]
      BY <3>2, <3>4 DEF v
    <3>6. [x EXCEPT !.items = h] = y
      BY <1>3 DEF State
    <3> HIDE DEF x, y, z
    <3> QED
      BY <3>1, <3>2, <3>3, <3>4, <3>5, <3>6
  <2>5. t = [s EXCEPT !.items[i] = w]
    BY <1>3, <1>4, <2>1 DEF State, Stopped
  <2> HIDE DEF v, w, t
  <2> QED
    BY <2>3, <2>4, <2>5 DEF Here
<1>6. Becomes(e) /\ UNCHANGED <<client, links, pages>>
  BY <1>1, <1>5 DEF Stop
<1>7. /\ to \in {"set", "lost"}
      /\ s.items[i].kind = "page" /\ st = "interrupted" => to = "lost"
  BY <1>1, <1>2
<1>8. t = Stopped(s, i, st, to) /\ e = Notify(t, i)
  OBVIOUS
<1>9. t.client = s.client /\ (Idle(s) => Idle(t))
  BY <1>3 DEF Stopped, State, Idle
<1> HIDE DEF s, to, t, e
<1>10. Step(s, e, i)
  BY <1>3, <1>4, <1>7, <1>8, IdleQuiet, Stops
<1>11. ~e.client => Idle(e)
  <2> SUFFICES ASSUME ~e.client PROVE Idle(e)
    OBVIOUS
  <2>1. ~s.client
    BY <1>10 DEF Step
  <2>2. e = t
    BY <1>8, <1>9, <2>1, NotifiesNobody
  <2> QED
    BY <1>3, <1>9, <2>1, <2>2
<1> QED
  BY <1>2, <1>6, <1>10, <1>11, StepTaken

(* A request of the application: there is somebody to have it.             *)
LEMMA HasRequest ==
  ASSUME NEW s, NEW l, NEW p, Sound(s, l, p), NEW n \in 1 .. Len(s.requests), s.requests[n].alive,
         NEW id, id = s.requests[n].id
  PROVE  /\ id \in Items /\ s.client /\ s \in State /\ IdInv(s, id) /\ SavesOK(s, id) /\ Quiet(s)
         /\ Ready(s, id, n) /\ Settled(s.requests[n])
<1>1. s \in State
  BY DEF Sound
<1>2. id \in Items
  BY <1>1, Lengths DEF RequestSet
<1>3. s.client
  <2> SUFFICES ASSUME ~s.client PROVE FALSE
    OBVIOUS
  <2>1. Len(s.requests) = 0
    BY DEF Sound, Idle
  <2> QED
    BY <2>1
<1>4. IdInv(s, id) /\ SavesOK(s, id)
  BY <1>2, SavesAreOK DEF Sound
<1>5. Quiet(s)
  BY <1>3 DEF Quiet
<1> QED
  BY <1>1, <1>2, <1>3, <1>4, <1>5, ReadyIfInv

(* An answered request is a step on its number.                            *)
LEMMA StepIfDone ==
  ASSUME NEW s \in State, NEW e, NEW id, NEW n, Done(s, e, id, n), s.client
  PROVE  Step(s, e, id) /\ e.client
<1>1. Effect(s, e, id) /\ Grows(s, e) /\ IdInv(e, id)
  BY DEF Done
<1>2. Step(s, e, id)
  BY <1>1, StepIfEffect
<1> QED
  BY <1>2 DEF Step

(* The application answers, cancels, deletes or resumes.                   *)
LEMMA ApplicationKeeps ==
  ASSUME DownloadsInv, Application
  PROVE  DownloadsInv'
<1>1. PICK n \in DOMAIN requests :
        /\ requests[n].alive
        /\ Accept(n) \/ Cancel(n) \/ DeleteRequest(n) \/ Resume(n)
  BY DEF Application
<1>2. UNCHANGED <<client, links, pages>>
  BY DEF Application
<1> DEFINE s == Here
           id == requests[n].id
<1>3. Sound(s, links, pages) /\ s.client = client /\ s.requests = requests /\ s.items = items
  BY HereIs DEF DownloadsInv
<1>4. s \in State /\ n \in 1 .. Len(s.requests) /\ id = s.requests[n].id /\ s.requests[n].alive
  BY <1>1, <1>3, Lengths DEF Sound
<1>s. s = Here
  OBVIOUS
<1>id. id = requests[n].id
  OBVIOUS
<1> HIDE DEF s, id
<1>5. /\ id \in Items /\ s.client /\ IdInv(s, id) /\ SavesOK(s, id) /\ Quiet(s)
      /\ Ready(s, id, n) /\ Settled(s.requests[n])
  BY <1>3, <1>4, HasRequest
<1>6. CASE Accept(n)
  <2>1. PICK dir \in BOOLEAN : Undecided(requests[n]) /\ Becomes(accept(Now(dir), n))
    BY <1>6 DEF Accept
  <2> DEFINE t == There(dir)
             e == accept(t, n)
  <2>2. Becomes(e)
    BY <2>1 DEF There
  <2>3. SameBut(s, t)
    BY <1>4, <1>s, ThereIs
  <2> HIDE DEF t
  <2>4. /\ Sound(t, links, pages) /\ t.client = client /\ t.requests = s.requests
    BY <1>3, <2>3, Moved DEF SameBut
  <2>5. /\ t.client /\ t \in State /\ SavesOK(t, id) /\ Ready(t, id, n)
    BY <1>4, <2>4, HasRequest
  <2>6. t.requests[n].state = "requested" /\ ~t.requests[n].answered
    BY <1>3, <2>1, <2>4 DEF Undecided
  <2>7. Done(t, e, id, n)
    BY <1>5, <2>5, <2>6, Accepts
  <2> HIDE DEF e
  <2>8. Step(t, e, id) /\ e.client
    BY <2>5, <2>7, StepIfDone
  <2> QED
    BY <1>2, <1>5, <2>2, <2>4, <2>8, StepTaken
<1>7. CASE Cancel(n)
  <2> DEFINE e == cancel(s, n)
  <2>1. Becomes(e)
    BY <1>7, <1>s DEF Cancel, Here
  <2>2. CancelOK(s.requests[n])
    BY <1>5 DEF CancelOK, Settled
  <2>3. Done(s, e, id, n)
    BY <1>4, <1>5, <2>2, Cancels
  <2> HIDE DEF e
  <2>4. Step(s, e, id) /\ e.client
    BY <1>4, <1>5, <2>3, StepIfDone
  <2> QED
    BY <1>2, <1>3, <1>5, <2>1, <2>4, StepTaken
<1>8. CASE DeleteRequest(n)
  <2> DEFINE e == Delete(s, n)
  <2>1. Becomes(e)
    BY <1>8, <1>s DEF DeleteRequest, Here
  <2>2. Effect(s, e, id) /\ Grows(s, e) /\ IdInv(e, id)
    BY <1>4, <1>5, Deletes
  <2> HIDE DEF e
  <2>3. Step(s, e, id)
    BY <1>4, <2>2, StepIfEffect
  <2>4. e.client
    BY <1>5, <2>3 DEF Step
  <2> QED
    BY <1>2, <1>3, <1>5, <2>1, <2>3, <2>4, StepTaken
<1>9. CASE Resume(n)
  <2> DEFINE t == Resumed(s, id)
             e == DetermineDownloadTarget(Notify(t, id), id, FALSE)
  <2>1. Becomes(e)
    BY <1>9, <1>s, <1>id DEF Resume, Here, Resumed
  <2>2. Found(s, id) /\ items[id].state = "interrupted" /\ items[id].target = "set"
    BY <1>9, <1>s, <1>id DEF Resume, Here
  <2>3. id \in 1 .. Len(s.items) /\ s.items[id].state = "interrupted" /\ s.items[id].target = "set"
    BY <1>3, <1>4, <2>2, FoundOn
  <2>t. t = Resumed(s, id)
    OBVIOUS
  <2> HIDE DEF t
  <2>4. Step(s, e, id)
    BY <1>4, <1>5, <2>3, <2>t, Resumes
  <2> HIDE DEF e
  <2>5. e.client
    BY <1>5, <2>4 DEF Step
  <2> QED
    BY <1>2, <1>3, <1>5, <2>1, <2>4, <2>5, StepTaken
<1> QED
  BY <1>1, <1>6, <1>7, <1>8, <1>9
-----------------------------------------------------------------------------
(***************************************************************************)
(* The theorems.                                                           *)
(***************************************************************************)
LEMMA NextInv ==
  ASSUME DownloadsInv, [Next]_vars
  PROVE  DownloadsInv'
<1>1. CASE OpenProfile
  BY <1>1, OpenKeeps
<1>2. CASE Deliver
  BY <1>2, DeliverKeeps
<1>3. CASE Application
  BY <1>3, ApplicationKeeps
<1>4. ASSUME NEW auto \in BOOLEAN, StartDownload(auto) \/ ChooseSavePath(auto)
      PROVE  DownloadsInv'
  BY <1>4, StartKeeps, SaveKeeps
<1>5. ASSUME NEW i \in Items, Progress(i) \/ Stop(i)
      PROVE  DownloadsInv'
  BY <1>5, ProgressKeeps, StopKeeps
<1>6. CASE UNCHANGED vars
  <2>1. Here' = Here /\ links' = links /\ pages' = pages
    BY <1>6 DEF vars, Here, Now
  <2> QED
    BY <2>1 DEF DownloadsInv
<1> QED
  BY <1>1, <1>2, <1>3, <1>4, <1>5, <1>6 DEF Next

(* Every number has the invariant of its item, its callbacks and its       *)
(* requests, and no number is past the bound.                              *)
THEOREM DownloadsInvariant == Spec => []DownloadsInv
<1>1. Init => DownloadsInv
  BY InitInv
<1>2. DownloadsInv /\ [Next]_vars => DownloadsInv'
  BY NextInv
<1> QED
  BY <1>1, <1>2, PTL DEF Spec

(* The invariant in terms of the variables.                                *)
LEMMA InvFacts ==
  ASSUME DownloadsInv
  PROVE  /\ Here \in State /\ Len(items) \in Nat /\ Len(items) <= links + pages
         /\ links \in 0 .. MaxLinks /\ pages \in 0 .. MaxSaves /\ MaxLinks \in Nat /\ MaxSaves \in Nat
         /\ currentId \in Nat /\ currentId <= links + pages
         /\ \A i \in DOMAIN items : i \in Items
         /\ \A id \in Items : IdInv(Here, id)
<1>1. /\ Here \in State /\ \A id \in Items : IdInv(Here, id)
      /\ links \in 0 .. MaxLinks /\ pages \in 0 .. MaxSaves /\ MaxLinks \in Nat /\ MaxSaves \in Nat
      /\ Len(items) + Cardinality(saves) <= links + pages /\ currentId <= links + pages
  BY HereIs, DownloadConstants DEF DownloadsInv, Sound, DownloadConstants
<1>2. /\ Len(items) \in Nat /\ Cardinality(saves) \in Nat /\ currentId \in Nat
      /\ DOMAIN items = 1 .. Len(items)
  <2>1. /\ Cardinality(Here.saves) \in Nat /\ Len(Here.items) \in Nat /\ Here.currentId \in Nat
        /\ DOMAIN Here.items = 1 .. Len(Here.items)
    BY <1>1, SavesCounted, Lengths
  <2> QED
    BY <2>1, HereIs
<1> QED
  BY <1>1, <1>2 DEF Items

(* The types of the state, and the bound of Chromium's numbers.            *)
THEOREM DownloadsTypes == Spec => []TypeOK
<1>1. ASSUME DownloadsInv PROVE TypeOK
  <2>0. /\ Here \in State /\ Len(items) \in Nat /\ Len(items) <= links + pages
        /\ links \in 0 .. MaxLinks /\ pages \in 0 .. MaxSaves /\ MaxLinks \in Nat /\ MaxSaves \in Nat
        /\ currentId \in Nat /\ currentId <= links + pages
        /\ \A id \in Items : IdInv(Here, id)
    BY <1>1, InvFacts
  <2>1. /\ client \in BOOLEAN /\ clash \in BOOLEAN /\ items \in Seq(ItemSet)
        /\ downloads \subseteq Items /\ saves \subseteq Items /\ given \subseteq Items
        /\ ongoing \in [Items -> Nat] /\ requests \in Seq(RequestSet)
        /\ queue \in Seq(Updated \union Requested)
    BY <2>0, HereIs DEF State
  <2>2. currentId \in 0 .. MaxLinks + MaxSaves
    BY <2>0
  <2>3. items \in Seq([kind : {"link", "page"}, state : States \union {"gone"},
                       target : {"none", "asking", "set", "lost"}, observers : Nat])
    <3> DEFINE T == [kind : {"link", "page"}, state : States \union {"gone"},
                     target : {"none", "asking", "set", "lost"}, observers : Nat]
    <3>1. ItemSet \subseteq T
      BY DEF ItemSet
    <3> HIDE DEF T
    <3>2. \A i \in 1 .. Len(items) : items[i] \in T
      BY <2>1, <3>1
    <3>3. items \in Seq(T)
      BY <2>1, <3>2
    <3> QED
      BY <3>3 DEF T
  <2>4. downloads \subseteq DOMAIN items /\ \A i \in downloads : items[i].target = "asking"
    <3> SUFFICES ASSUME NEW i \in downloads PROVE i \in DOMAIN items /\ items[i].target = "asking"
      OBVIOUS
    <3>1. ItemInv(Here, i)
      BY <2>0, <2>1 DEF IdInv
    <3> QED
      BY <2>1, <3>1, HereIs DEF ItemInv
  <2>5. ongoing \in [Items -> 0 .. Len(requests)]
    <3>1. ASSUME NEW id \in Items PROVE ongoing[id] \in 0 .. Len(requests)
      <4>1. AskedInv(Here, id)
        BY <2>0 DEF IdInv
      <4>2. ongoing[id] # 0 => ongoing[id] \in 1 .. Len(requests)
        BY <4>1, HereIs DEF AskedInv
      <4>3. Len(requests) \in Nat
        BY <2>1
      <4> QED
        BY <4>2, <4>3
    <3> QED
      BY <2>1, <3>1
  <2>6. \A k \in DOMAIN queue : queue[k].id \in Items /\ queue[k].type \in {"requested", "updated"}
    BY <2>1 DEF Updated, Requested
  <2> QED
    BY <2>0, <2>1, <2>2, <2>3, <2>4, <2>5, <2>6 DEF TypeOK, RequestSet
<1> QED
  BY <1>1, DownloadsInvariant, PTL

(* An item that waits for its target is in downloads, and whoever is kept  *)
(* there or in saves has a request that will answer for it.                *)
THEOREM CallbacksAnswered == Spec => []EveryCallbackAnswered
<1>1. ASSUME DownloadsInv PROVE EveryCallbackAnswered
  <2>0. /\ Here \in State /\ \A i \in DOMAIN items : i \in Items
        /\ \A id \in Items : IdInv(Here, id)
    BY <1>1, InvFacts
  <2>1. \A i \in DOMAIN items : items[i].observers <= 1
    BY <2>0, HereIs, Lengths DEF ItemSet
  <2>2. \A i \in DOMAIN items : Active(i) /\ items[i].target = "asking" => i \in downloads
    <3> SUFFICES ASSUME NEW i \in DOMAIN items, Active(i), items[i].target = "asking"
                 PROVE  i \in downloads
      OBVIOUS
    <3>1. ItemInv(Here, i)
      BY <2>0 DEF IdInv
    <3>2. i \in 1 .. Len(items)
      BY <2>0, HereIs, Lengths
    <3> QED
      BY <3>1, <3>2, HereIs DEF ItemInv, Active
  <2>3. ASSUME NEW id \in downloads \union saves PROVE AnswerComes(id)
    <3>1. id \in Items
      BY <2>0, HereIs DEF State
    <3>2. ComesInv(Here, id)
      BY <2>0, <3>1 DEF IdInv
    <3>3. \E cb \in BOOLEAN : Comes(Here, id, cb)
      BY <2>3, <3>2, HereIs DEF ComesInv
    <3>4. PICK cb \in BOOLEAN : Comes(Here, id, cb)
      BY <3>3
    <3>5. DOMAIN queue = 1 .. Len(queue) /\ DOMAIN requests = 1 .. Len(requests)
      BY <2>0, HereIs, Lengths
    <3> QED
      BY <3>4, <3>5, HereIs DEF Comes, Asks, Waits, AnswerComes
  <2> QED
    BY <2>1, <2>2, <2>3 DEF EveryCallbackAnswered
<1> QED
  BY <1>1, DownloadsInvariant, PTL

(* Where no number was given twice, a request shows its item once the      *)
(* timers have run, and a deleted one has left nothing behind.             *)
THEOREM RequestsAgree == Spec => []AgreeWhenQuiet
<1>1. ASSUME DownloadsInv PROVE AgreeWhenQuiet
  <2>0. /\ Here \in State /\ \A id \in Items : IdInv(Here, id)
    BY <1>1, InvFacts
  <2> SUFFICES ASSUME ~clash, NEW n \in DOMAIN requests
               PROVE  /\ requests[n].alive /\ requests[n].answered /\ queue = <<>> => Agree(n)
                      /\ ~requests[n].alive => LeftNothing(requests[n].id)
    BY DEF AgreeWhenQuiet
  <2> DEFINE r == requests[n]
             id == r.id
  <2>1. n \in 1 .. Len(Here.requests) /\ id \in Items /\ Here.requests[n] = r
    BY <2>0, HereIs, Lengths DEF RequestSet
  <2>2. OwnRequest(Here, n)
    BY <2>0, <2>1, HereIs DEF IdInv, OwnInv
  <2>3. Found(Here, id) <=> Found(Now(TRUE), id)
    BY DEF Here
  <2>4. ASSUME r.alive, r.answered, queue = <<>> PROVE Agree(n)
    <3>1. Shows(Here, r)
      BY <2>1, <2>2, <2>4 DEF OwnRequest
    <3>2. ~UpToDate(Here.queue, id, Here.items[id].state)
      <4>1. Len(Here.queue) = 0
        BY <2>4, HereIs
      <4> QED
        BY <4>1 DEF UpToDate
    <3>3. Found(Here, id) => \/ r.state = Here.items[id].state
                             \/ r.state = "cancelled" /\ Here.items[id].state = "interrupted"
      BY <3>1, <3>2 DEF Shows
    <3>4. Found(Here, id) => \/ r.state = items[id].state
                             \/ r.state = "cancelled" /\ items[id].state = "interrupted"
      BY <3>3, HereIs
    <3> QED
      BY <2>3, <3>4 DEF Agree
  <2>5. ASSUME ~r.alive PROVE LeftNothing(id)
    <3>1. ~Found(Here, id) /\ id \notin downloads \union saves
      BY <2>1, <2>2, <2>5, HereIs DEF OwnRequest
    <3> QED
      BY <2>3, <3>1 DEF LeftNothing
  <2> QED
    BY <2>4, <2>5
<1> QED
  BY <1>1, DownloadsInvariant, PTL
=============================================================================

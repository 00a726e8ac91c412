--------------------------- MODULE PageSignalsProofs ---------------------------
(***************************************************************************)
(* Proofs about what a page tells its application of a search and of a     *)
(* load.                                                                   *)
(***************************************************************************)
EXTENDS FindText, LoadSignals, TLAPS

(***************************************************************************)
(* Find in page: a search is reported at most once, whatever the slots and *)
(* callbacks do, and, as long as they do not call the helper in the middle *)
(* of it, replies match the current request, no callback is lost and       *)
(* "find next" continues the session that the renderer has; for any texts, *)
(* any number of searches and any depth of nesting.                        *)
(***************************************************************************)
Owing   == {"empty", "supersede", "issue"}   \* frames of a search not reported yet
Opening == {"supersede", "issue"}            \* frames of a search not numbered yet
Places  == 1 .. Len(stack)
Owes(i) == stack[i].at \in Owing

(* A search waits in one frame or under one id, and is not reported yet.   *)
OwedOnce ==
  /\ \A i, j \in Places : Owes(i) /\ Owes(j) /\ stack[i].ask = stack[j].ask => i = j
  /\ \A i \in Places : Owes(i) =>
       /\ stack[i].ask <= asked /\ calls[stack[i].ask] = 0
       /\ \A id \in DOMAIN callbacks : callbacks[id] # stack[i].ask
  /\ \A id \in DOMAIN callbacks : callbacks[id] <= asked /\ calls[callbacks[id]] = 0
  /\ \A id, jd \in DOMAIN callbacks : callbacks[id] = callbacks[jd] => id = jd
  /\ \A a \in Asks : calls[a] <= 1 /\ (a > asked => calls[a] = 0)

(* Until application code calls the helper in a call, one call of it is in *)
(* progress, which rests in the last frame.                                *)
Calm == alive /\ ~nested
Work == stack[Len(stack)]
At(kinds) == stack # <<>> /\ Work.at \in kinds

OneCall == Len(stack) <= 2 /\ (Len(stack) = 2 => stack[1].at = "user" /\ Work.at # "user")

RepliesAreCurrent ==
  /\ \A id \in inFlight : id > lastCompleted => id = current
  /\ At(Opening) => lastCompleted = current

SessionIsContinued ==
  /\ ~At(Opening) /\ prevText # NoText => session = prevText
  /\ At(Opening) /\ Work.next => session = Work.text

(* The id under which a search that is not reported yet is going to be.    *)
Expects(id) ==
  \/ id \in stopped
  \/ IsFindTextInProgress /\ id = current
  \/ At({"supersede"}) /\ id = current
  \/ At({"reply"}) /\ id = Work.id
Waits(a) ==
  \/ At(Owing) /\ Work.ask = a
  \/ \E id \in DOMAIN callbacks : callbacks[id] = a /\ Expects(id)
NoneForgotten == \A a \in 1 .. asked : calls[a] = 0 => Waits(a)

CalmInv == Calm => OneCall /\ RepliesAreCurrent /\ SessionIsContinued /\ NoneForgotten
FindInv == TypeOK /\ OwedOnce /\ CalmInv
-----------------------------------------------------------------------------
(* Sequences and frames.                                                   *)
LEMMA Pushed ==
  ASSUME NEW S, NEW q \in Seq(S), NEW f \in S
  PROVE  /\ <<f>> \o q \in Seq(S) /\ Len(<<f>> \o q) = Len(q) + 1 /\ (<<f>> \o q)[1] = f
         /\ \A i \in 1 .. Len(q) + 1 : i # 1 => i - 1 \in 1 .. Len(q) /\ (<<f>> \o q)[i] = q[i - 1]
  OBVIOUS

\* Two frames pushed on the stack.
LEMMA PushedTwo ==
  ASSUME NEW S, NEW q \in Seq(S), NEW e \in S, NEW f \in S
  PROVE  /\ <<e, f>> \o q \in Seq(S) /\ Len(<<e, f>> \o q) = Len(q) + 2
         /\ (<<e, f>> \o q)[1] = e /\ (<<e, f>> \o q)[2] = f
         /\ \A i \in 1 .. Len(q) + 2 : i \notin {1, 2} =>
              i - 2 \in 1 .. Len(q) /\ (<<e, f>> \o q)[i] = q[i - 2]
  OBVIOUS

\* The frame on top returns.
LEMMA Popped ==
  ASSUME NEW S, NEW q \in Seq(S), q # <<>>
  PROVE  /\ Tail(q) \in Seq(S) /\ Len(Tail(q)) = Len(q) - 1 /\ Head(q) \in S /\ Head(q) = q[1]
         /\ 1 \in 1 .. Len(q)
         /\ \A i \in 1 .. Len(Tail(q)) : i + 1 \in 1 .. Len(q) /\ Tail(q)[i] = q[i + 1]
  OBVIOUS

\* A stack without frames.
LEMMA Drained == ASSUME NEW S, NEW q \in Seq(S), Len(q) = 0 PROVE q = <<>>
  OBVIOUS

\* What a frame of each kind carries.
LEMMA FrameKinds ==
  ASSUME NEW f \in Frames
  PROVE  /\ f.at \in {"user", "reply", "empty", "supersede", "issue"}
         /\ f.at \in Owing => f.ask \in Asks
         /\ f.at \in Opening => f.text \in Texts
         /\ f.at \in Opening =>
              /\ [f EXCEPT !.at = "issue"] \in Frames /\ [f EXCEPT !.at = "issue"].at = "issue"
              /\ [f EXCEPT !.at = "issue"].ask = f.ask /\ [f EXCEPT !.at = "issue"].text = f.text
              /\ [f EXCEPT !.at = "issue"].next = f.next
         /\ User \in Frames /\ User.at = "user"
<1>1. CASE f = User
  BY <1>1 DEF User, Frames, Owing, Opening
<1>2. CASE f \in [at : {"reply"}, id : Ids]
  BY <1>2 DEF User, Frames, Owing, Opening
<1>3. CASE f \in [at : {"empty"}, ask : Asks]
  BY <1>3 DEF User, Frames, Owing, Opening
<1>4. CASE f \in [at : {"supersede", "issue"}, text : Texts, next : BOOLEAN, ask : Asks]
  <2>1. [f EXCEPT !.at = "issue"] \in [at : {"supersede", "issue"}, text : Texts, next : BOOLEAN, ask : Asks]
    BY <1>4
  <2>2. /\ [f EXCEPT !.at = "issue"].at = "issue"
        /\ [f EXCEPT !.at = "issue"].ask = f.ask /\ [f EXCEPT !.at = "issue"].text = f.text
        /\ [f EXCEPT !.at = "issue"].next = f.next
    BY <1>4
  <2>3. f.at \in {"supersede", "issue"} /\ f.ask \in Asks /\ f.text \in Texts
    BY <1>4
  <2>4. User \in Frames /\ User.at = "user" /\ [f EXCEPT !.at = "issue"] \in Frames
    BY <2>1 DEF Frames, User
  <2> QED
    BY <2>2, <2>3, <2>4
<1> QED
  BY <1>1, <1>2, <1>3, <1>4 DEF Frames

(* What is owed stays owed once when frames move and a report is made.     *)
LEMMA OwedMoves ==
  ASSUME TypeOK, OwedOnce, asked' = asked, NEW d \in Int,
         stack' \in Seq(Frames),
         \A i \in 1 .. Len(stack') : stack'[i].at \in Owing =>
           i + d \in Places /\ Owes(i + d) /\ stack'[i].ask = stack[i + d].ask,
         \A id \in DOMAIN callbacks' : id \in DOMAIN callbacks /\ callbacks'[id] = callbacks[id],
         \A a \in Asks :
           \/ calls'[a] = calls[a]
           \/ /\ calls'[a] = 1 /\ a <= asked
              /\ \A i \in 1 .. Len(stack') : stack'[i].at \in Owing => stack'[i].ask # a
              /\ \A id \in DOMAIN callbacks' : callbacks'[id] # a
  PROVE  OwedOnce'
<1> USE DEF OwedOnce, Owes, Places
<1>1. ASSUME NEW i \in 1 .. Len(stack'), stack'[i].at \in Owing PROVE stack'[i].ask \in Asks
  <2>1. stack'[i] \in Frames
    OBVIOUS
  <2> QED
    BY <1>1, <2>1, FrameKinds
<1>2. ASSUME NEW id \in DOMAIN callbacks' PROVE callbacks'[id] \in Asks
  BY <1>2 DEF TypeOK
<1>3. \A i, j \in 1 .. Len(stack') :
        stack'[i].at \in Owing /\ stack'[j].at \in Owing /\ stack'[i].ask = stack'[j].ask => i = j
  <2> SUFFICES ASSUME NEW i \in 1 .. Len(stack'), NEW j \in 1 .. Len(stack'),
                      stack'[i].at \in Owing, stack'[j].at \in Owing, stack'[i].ask = stack'[j].ask
               PROVE  i = j
    OBVIOUS
  <2>1. /\ i + d \in Places /\ Owes(i + d) /\ stack'[i].ask = stack[i + d].ask
        /\ j + d \in Places /\ Owes(j + d) /\ stack'[j].ask = stack[j + d].ask
    OBVIOUS
  <2>2. i + d = j + d
    BY <2>1
  <2>3. i \in Int /\ j \in Int
    OBVIOUS
  <2> HIDE DEF OwedOnce, Owes, Places
  <2> QED
    BY <2>2, <2>3, SMT
<1>4. \A i \in 1 .. Len(stack') : stack'[i].at \in Owing =>
        /\ stack'[i].ask <= asked' /\ calls'[stack'[i].ask] = 0
        /\ \A id \in DOMAIN callbacks' : callbacks'[id] # stack'[i].ask
  BY <1>1
<1>5. \A id \in DOMAIN callbacks' : callbacks'[id] <= asked' /\ calls'[callbacks'[id]] = 0
  BY <1>2
<1>6. \A id, jd \in DOMAIN callbacks' : callbacks'[id] = callbacks'[jd] => id = jd
  OBVIOUS
<1>7. \A a \in Asks : calls'[a] <= 1 /\ (a > asked' => calls'[a] = 0)
  BY DEF TypeOK, Asks
<1> QED
  BY <1>3, <1>4, <1>5, <1>6, <1>7

(* The callback of an id is run and forgotten, once.                       *)
LEMMA Invoked ==
  ASSUME TypeOK, OwedOnce, NEW id \in Int, NEW then \in Seq(Frames), InvokeResultCallback(id, then)
  PROVE  /\ callbacks' \in [DOMAIN callbacks' -> Asks] /\ DOMAIN callbacks' \subseteq DOMAIN callbacks
         /\ \A jd \in DOMAIN callbacks' : callbacks'[jd] = callbacks[jd]
         /\ \A jd \in DOMAIN callbacks : jd # id => jd \in DOMAIN callbacks'
         /\ calls' \in [Asks -> Nat]
         /\ \/ /\ id \in DOMAIN callbacks /\ callbacks[id] \in Asks /\ stack' = <<User>> \o then
               /\ id \notin DOMAIN callbacks' /\ calls'[callbacks[id]] = 1
               /\ \A a \in Asks : a # callbacks[id] => calls'[a] = calls[a]
            \/ id \notin DOMAIN callbacks /\ stack' = then /\ calls' = calls
<1>1. calls \in [Asks -> Nat] /\ callbacks \in [DOMAIN callbacks -> Asks]
  BY DEF TypeOK
<1>2. CASE id \in DOMAIN callbacks
  <2>1. calls[callbacks[id]] = 0 /\ callbacks[id] \in Asks
    BY <1>1, <1>2 DEF OwedOnce
  <2>2. /\ calls' = [calls EXCEPT ![callbacks[id]] = calls[callbacks[id]] + 1]
        /\ callbacks' = [jd \in DOMAIN callbacks \ {id} |-> callbacks[jd]]
        /\ stack' = <<User>> \o then
    BY <1>2 DEF InvokeResultCallback, Restrict
  <2> QED
    BY <1>1, <1>2, <2>1, <2>2
<1>3. CASE id \notin DOMAIN callbacks
  BY <1>1, <1>3 DEF InvokeResultCallback
<1> QED
  BY <1>2, <1>3

(* In a call that is alone, what does not run application code is the only *)
(* frame.                                                                  *)
LEMMA Alone ==
  ASSUME TypeOK, OneCall, stack # <<>>, Head(stack).at # "user"
  PROVE  Len(stack) = 1 /\ Tail(stack) = <<>> /\ Work = Head(stack)
<1> DEFINE n == Len(stack)
<1>1. stack \in Seq(Frames) /\ Head(stack) = stack[1] /\ n \in Nat /\ n # 0
  BY DEF TypeOK
<1>2. n <= 2 /\ n # 2
  BY <1>1 DEF OneCall
<1>3. n = 1
  <2> HIDE DEF n
  <2> QED
    BY <1>1, <1>2
<1>4. Len(Tail(stack)) = 0 /\ Tail(stack) \in Seq(Frames)
  BY <1>1, <1>3, Popped
<1>5. Tail(stack) = <<>>
  BY <1>4, Drained
<1> QED
  BY <1>1, <1>3, <1>5 DEF Work

-----------------------------------------------------------------------------
(* The steps, one by one.                                                  *)
LEMMA KeptByUserReturns == ASSUME FindInv, UserReturns PROVE FindInv'
<1> USE DEF FindInv
<1>1. /\ stack # <<>> /\ Head(stack).at = "user" /\ stack' = Tail(stack)
      /\ UNCHANGED <<counter, current, lastCompleted, prevText, callbacks, session, inFlight,
                     asked, calls, nested, stopped, alive>>
  BY DEF UserReturns, Running, helper, world
<1>2. /\ stack \in Seq(Frames) /\ stack' \in Seq(Frames) /\ Len(stack') = Len(stack) - 1
      /\ Head(stack) = stack[1]
      /\ \A i \in 1 .. Len(stack') : i + 1 \in 1 .. Len(stack) /\ stack'[i] = stack[i + 1]
  BY <1>1, Popped DEF TypeOK
<1>3. TypeOK'
  BY <1>1, <1>2 DEF TypeOK
<1>4. OwedOnce'
  <2>1. \A i \in 1 .. Len(stack') : stack'[i].at \in Owing =>
          i + 1 \in Places /\ Owes(i + 1) /\ stack'[i].ask = stack[i + 1].ask
    BY <1>2 DEF Places, Owes
  <2>2. TypeOK /\ OwedOnce /\ 1 \in Int /\ stack' \in Seq(Frames)
    BY <1>2
  <2>3. asked' = asked /\ callbacks' = callbacks /\ calls' = calls
    BY <1>1
  <2> HIDE DEF FindInv
  <2> QED
    BY <2>1, <2>2, <2>3, OwedMoves
<1>5. CalmInv'
  <2> SUFFICES ASSUME Calm'
               PROVE  OneCall' /\ RepliesAreCurrent' /\ SessionIsContinued' /\ NoneForgotten'
    BY DEF CalmInv
  <2>1. OneCall /\ RepliesAreCurrent /\ SessionIsContinued /\ NoneForgotten
    BY <1>1 DEF Calm, CalmInv
  <2>2. CASE Len(stack) = 1
    <3>1. stack' = <<>> /\ Work.at = "user"
      BY <1>1, <1>2, <2>2, Drained DEF Work
    <3>2. ~At(Opening) /\ ~At(Owing) /\ ~At({"supersede"}) /\ ~At({"reply"})
      BY <3>1 DEF At, Opening, Owing
    <3>3. ~At(Opening)' /\ ~At(Owing)' /\ ~At({"supersede"})' /\ ~At({"reply"})'
      BY <3>1 DEF At
    <3>4. OneCall'
      BY <3>1 DEF OneCall
    <3>5. RepliesAreCurrent' /\ SessionIsContinued'
      BY <1>1, <2>1, <3>2, <3>3 DEF RepliesAreCurrent, SessionIsContinued
    <3>6. NoneForgotten'
      BY <1>1, <2>1, <3>2, <3>3 DEF NoneForgotten, Waits, Expects, IsFindTextInProgress
    <3> QED
      BY <3>4, <3>5, <3>6
  <2>3. CASE Len(stack) = 2
    <3>1. Len(stack') = 1 /\ stack' # <<>> /\ Work' = Work
      BY <1>2, <2>3 DEF Work
    <3>2. /\ At(Opening)' = At(Opening) /\ At(Owing)' = At(Owing)
          /\ At({"supersede"})' = At({"supersede"}) /\ At({"reply"})' = At({"reply"})
      BY <1>1, <3>1 DEF At
    <3>4. OneCall'
      BY <3>1 DEF OneCall
    <3>5. RepliesAreCurrent' /\ SessionIsContinued'
      BY <1>1, <2>1, <3>1, <3>2 DEF RepliesAreCurrent, SessionIsContinued
    <3>6. NoneForgotten'
      BY <1>1, <2>1, <3>1, <3>2 DEF NoneForgotten, Waits, Expects, IsFindTextInProgress
    <3> QED
      BY <3>4, <3>5, <3>6
  <2>4. Len(stack) = 1 \/ Len(stack) = 2
    BY <1>1, <1>2, <2>1, Drained DEF OneCall
  <2> QED
    BY <2>2, <2>3, <2>4
<1> QED
  BY <1>3, <1>4, <1>5

(* A new search is owed by its frame alone.                                *)
LEMMA OwedAsks ==
  ASSUME TypeOK, OwedOnce, asked' = asked + 1, UNCHANGED <<calls, callbacks>>, NEW k \in {1, 2},
         stack' \in Seq(Frames), k \in 1 .. Len(stack'),
         stack'[k].at \in Owing, stack'[k].ask = asked + 1,
         \A i \in 1 .. Len(stack') : i # k /\ stack'[i].at \in Owing =>
           i - k \in Places /\ Owes(i - k) /\ stack'[i].ask = stack[i - k].ask
  PROVE  OwedOnce'
<1> USE DEF OwedOnce, Owes, Places
<1>0. asked \in Nat
  BY DEF TypeOK
<1>1. ASSUME NEW i \in 1 .. Len(stack'), stack'[i].at \in Owing PROVE stack'[i].ask \in Asks
  <2>1. stack'[i] \in Frames
    OBVIOUS
  <2> QED
    BY <1>1, <2>1, FrameKinds
<1>2. ASSUME NEW id \in DOMAIN callbacks PROVE callbacks[id] \in Asks /\ callbacks[id] <= asked
  BY <1>2 DEF TypeOK
<1>3. ASSUME NEW i \in 1 .. Len(stack'), i # k, stack'[i].at \in Owing
      PROVE  /\ i - k \in Places /\ Owes(i - k) /\ stack'[i].ask = stack[i - k].ask
             /\ stack'[i].ask <= asked /\ calls[stack'[i].ask] = 0 /\ stack'[i].ask # asked + 1
             /\ \A id \in DOMAIN callbacks : callbacks[id] # stack'[i].ask
  <2>1. i - k \in Places /\ Owes(i - k) /\ stack'[i].ask = stack[i - k].ask
    BY <1>3
  <2>2. stack'[i].ask <= asked /\ calls[stack'[i].ask] = 0
        /\ \A id \in DOMAIN callbacks : callbacks[id] # stack'[i].ask
    BY <2>1
  <2> QED
    BY <1>0, <1>1, <1>3, <2>1, <2>2 DEF Asks
<1>4. \A i, j \in 1 .. Len(stack') :
        stack'[i].at \in Owing /\ stack'[j].at \in Owing /\ stack'[i].ask = stack'[j].ask => i = j
  <2> SUFFICES ASSUME NEW i \in 1 .. Len(stack'), NEW j \in 1 .. Len(stack'), i # j,
                      stack'[i].at \in Owing, stack'[j].at \in Owing, stack'[i].ask = stack'[j].ask
               PROVE  FALSE
    OBVIOUS
  <2>1. i # k /\ j # k
    BY <1>3
  <2>2. /\ i - k \in Places /\ Owes(i - k) /\ stack'[i].ask = stack[i - k].ask
        /\ j - k \in Places /\ Owes(j - k) /\ stack'[j].ask = stack[j - k].ask
    BY <1>3, <2>1
  <2>3. i - k = j - k
    BY <2>2
  <2>4. i \in Int /\ j \in Int
    OBVIOUS
  <2> HIDE DEF OwedOnce, Owes, Places
  <2> QED
    BY <2>3, <2>4, SMT
<1>5. \A i \in 1 .. Len(stack') : stack'[i].at \in Owing =>
        /\ stack'[i].ask <= asked' /\ calls'[stack'[i].ask] = 0
        /\ \A id \in DOMAIN callbacks' : callbacks'[id] # stack'[i].ask
  <2> SUFFICES ASSUME NEW i \in 1 .. Len(stack'), stack'[i].at \in Owing
               PROVE  /\ stack'[i].ask <= asked' /\ calls[stack'[i].ask] = 0
                      /\ \A id \in DOMAIN callbacks : callbacks[id] # stack'[i].ask
    OBVIOUS
  <2>1. CASE i = k
    <3>1. stack'[i].ask \in Asks /\ stack'[i].ask > asked
      BY <1>0, <1>1, <2>1
    <3> QED
      BY <1>0, <1>2, <2>1, <3>1 DEF Asks
  <2>2. CASE i # k
    BY <1>0, <1>1, <1>3, <2>2 DEF Asks
  <2> QED
    BY <2>1, <2>2
<1>6. \A id \in DOMAIN callbacks' : callbacks'[id] <= asked' /\ calls'[callbacks'[id]] = 0
  BY <1>0, <1>2 DEF Asks
<1>7. \A a \in Asks : calls'[a] <= 1 /\ (a > asked' => calls'[a] = 0)
  BY <1>0 DEF Asks
<1> QED
  BY <1>4, <1>5, <1>6, <1>7

(* Between events, without nested calls.                                   *)
LEMMA BetweenEvents ==
  ASSUME FindInv, Calm, stack = <<>>
  PROVE  /\ \A id \in inFlight : id > lastCompleted => id = current
         /\ prevText # NoText => session = prevText
         /\ \A a \in 1 .. asked : calls[a] = 0 =>
              \E id \in DOMAIN callbacks :
                callbacks[id] = a /\ (id \in stopped \/ (IsFindTextInProgress /\ id = current))
<1>1. RepliesAreCurrent /\ SessionIsContinued /\ NoneForgotten
  BY DEF FindInv, CalmInv
<1>2. ~At(Opening) /\ ~At(Owing) /\ ~At({"supersede"}) /\ ~At({"reply"})
  BY DEF At
<1> QED
  BY <1>1, <1>2 DEF RepliesAreCurrent, SessionIsContinued, NoneForgotten, Waits, Expects

(* The other way round.                                                    *)
LEMMA QuietAgain ==
  ASSUME stack' = <<>>,
         \A id \in inFlight' : id > lastCompleted' => id = current',
         prevText' # NoText => session' = prevText',
         \A a \in 1 .. asked' : calls'[a] = 0 =>
           \E id \in DOMAIN callbacks' :
             callbacks'[id] = a /\ (id \in stopped' \/ (IsFindTextInProgress' /\ id = current'))
  PROVE  CalmInv'
<1>1. ~At(Opening)' /\ ~At(Owing)' /\ ~At({"supersede"})' /\ ~At({"reply"})'
  BY DEF At
<1>2. OneCall'
  BY DEF OneCall
<1> QED
  BY <1>1, <1>2 DEF CalmInv, RepliesAreCurrent, SessionIsContinued, NoneForgotten, Waits, Expects

\* A call in the middle of another is remembered as such.
LEMMA NestedLater == ASSUME nested' = (nested \/ ~Idle), alive' = alive, Calm' PROVE Calm /\ stack = <<>>
  BY Zenon DEF Calm, Idle

\* StopFinding keeps the invariant.
LEMMA KeptByStopFinding == ASSUME FindInv, StopFinding PROVE FindInv'
<1> USE DEF FindInv
<1>1. /\ lastCompleted' = current /\ prevText' = NoText /\ session' = NoText /\ inFlight' = {}
      /\ nested' = (nested \/ ~Idle)
      /\ UNCHANGED <<counter, current, callbacks, stack, alive, asked, calls>>
      /\ stopped' = IF IsFindTextInProgress THEN stopped \cup {current} ELSE stopped
  BY DEF StopFinding, StopSession, CompleteCurrent, ForgetText
<1>2. TypeOK'
  <2>1. nested' \in BOOLEAN
    BY <1>1, Zenon
  <2> QED
    BY <1>1, <2>1 DEF TypeOK
<1>3. OwedOnce'
  BY <1>1 DEF OwedOnce, Owes, Places
<1>4. CalmInv'
  <2> SUFFICES ASSUME Calm' PROVE CalmInv'
    BY DEF CalmInv
  <2>1. Calm /\ stack = <<>>
    BY <1>1, NestedLater
  <2> QED
    BY <1>1, <2>1, BetweenEvents, QuietAgain
<1> QED
  BY <1>2, <1>3, <1>4

\* One call is in progress.
LEMMA OneCallAt ==
  ASSUME Len(stack') = 1 \/ (Len(stack') = 2 /\ stack'[1].at = "user" /\ Work'.at # "user")
  PROVE  OneCall'
<1> DEFINE n == Len(stack')
           u == stack'[1].at
           w == Work'.at
<1>1. n = 1 \/ (n = 2 /\ u = "user" /\ w # "user")
  OBVIOUS
<1>2. n <= 2 /\ (n = 2 => u = "user" /\ w # "user")
  <2> HIDE DEF n, u, w
  <2> QED
    BY <1>1
<1> QED
  BY <1>2 DEF OneCall

(* A search begins: either it supersedes one, or it is numbered next, or   *)
(* its text is empty.                                                      *)
LEMMA KeptByFindText == ASSUME FindConstants, FindInv, FindText PROVE FindInv'
<1> USE DEF FindInv
<1>1. /\ asked < MaxAsks /\ asked' = asked + 1 /\ nested' = (nested \/ ~Idle)
      /\ UNCHANGED <<counter, current, callbacks, alive, calls>>
      /\ asked \in Nat /\ asked + 1 \in Asks /\ asked' \in 0 .. MaxAsks
  BY DEF FindText, TypeOK, Asks, FindConstants
<1>2. nested' \in BOOLEAN /\ stack \in Seq(Frames)
  BY <1>1, Zenon DEF TypeOK
<1>3. User \in Frames /\ User.at = "user"
  BY DEF Frames, User
<1>4. CASE FindEmpty
  <2> DEFINE f == [at |-> "empty", ask |-> asked + 1]
  <2>1. /\ lastCompleted' = current /\ prevText' = NoText /\ session' = NoText /\ inFlight' = {}
        /\ stack' = <<User, f>> \o stack
        /\ stopped' = IF IsFindTextInProgress THEN stopped \cup {current} ELSE stopped
    BY <1>4 DEF FindEmpty, StopSession, CompleteCurrent, ForgetText
  <2>2. f \in Frames /\ f.at = "empty" /\ f.ask = asked + 1
    BY <1>1 DEF Frames
  <2> HIDE DEF f
  <2>3. /\ stack' \in Seq(Frames) /\ Len(stack') = Len(stack) + 2 /\ stack'[1] = User /\ stack'[2] = f
        /\ \A i \in 1 .. Len(stack') : i \notin {1, 2} =>
              i - 2 \in 1 .. Len(stack) /\ stack'[i] = stack[i - 2]
    BY <1>2, <1>3, <2>1, <2>2, PushedTwo
  <2>4. TypeOK'
    BY <1>1, <1>2, <2>1, <2>3 DEF TypeOK
  <2>5. OwedOnce'
    <3>1. \A i \in 1 .. Len(stack') : i # 2 /\ stack'[i].at \in Owing =>
            i - 2 \in Places /\ Owes(i - 2) /\ stack'[i].ask = stack[i - 2].ask
      BY <1>3, <2>3 DEF Places, Owes, Owing
    <3>2. 2 \in 1 .. Len(stack') /\ stack'[2].at \in Owing /\ stack'[2].ask = asked + 1
      BY <2>2, <2>3, Len(stack) \in Nat, <1>2 DEF Owing
    <3> QED
      BY <1>1, <2>3, <3>1, <3>2, OwedAsks
  <2>6. CalmInv'
    <3> SUFFICES ASSUME Calm'
                 PROVE  OneCall' /\ RepliesAreCurrent' /\ SessionIsContinued' /\ NoneForgotten'
      BY DEF CalmInv
    <3>1. Calm /\ stack = <<>>
      BY <1>1, NestedLater
    <3>2. Len(stack') = 2 /\ stack' # <<>> /\ Work' = f
      BY <2>3, <3>1 DEF Work
    <3>3. /\ ~At(Opening)' /\ ~At({"supersede"})' /\ ~At({"reply"})' /\ At(Owing)' /\ Work'.ask = asked + 1
      BY <2>2, <3>2 DEF At, Opening, Owing
    <3>4. OneCall'
      <4>1. Len(stack') = 2
        BY <3>2
      <4>2. stack'[1].at = "user"
        BY <1>3, <2>3
      <4>3. Work'.at # "user"
        BY <2>2, <3>2
      <4> QED
        BY <4>1, <4>2, <4>3, OneCallAt
    <3>5. RepliesAreCurrent' /\ SessionIsContinued'
      BY <2>1, <3>3 DEF RepliesAreCurrent, SessionIsContinued
    <3>6. NoneForgotten'
      <4> SUFFICES ASSUME NEW a \in 1 .. asked', calls'[a] = 0 PROVE Waits(a)'
        BY DEF NoneForgotten
      <4>1. CASE a = asked + 1
        BY <3>3, <4>1 DEF Waits
      <4>2. CASE a # asked + 1
        <5>1. a \in 1 .. asked /\ calls[a] = 0
          BY <1>1, <4>2
        <5>2. PICK id \in DOMAIN callbacks :
                callbacks[id] = a /\ (id \in stopped \/ (IsFindTextInProgress /\ id = current))
          BY <3>1, <5>1, BetweenEvents
        <5>3. id \in stopped'
          BY <2>1, <5>2
        <5> QED
          BY <1>1, <5>2, <5>3 DEF Waits, Expects
      <4> QED
        BY <4>1, <4>2
    <3> QED
      BY <3>4, <3>5, <3>6
  <2> QED
    BY <2>4, <2>5, <2>6
<1>5. ASSUME NEW text \in Texts, StartFinding(text) PROVE FindInv'
  <2> DEFINE f(at) == [at |-> at, text |-> text, next |-> (prevText = text), ask |-> asked + 1]
  <2>1. /\ \/ /\ IsFindTextInProgress /\ lastCompleted' = current
              /\ IF prevText = text THEN UNCHANGED <<session, inFlight>>
                 ELSE session' = NoText /\ inFlight' = {}
              /\ stack' = <<User, f("supersede")>> \o stack
           \/ /\ ~IsFindTextInProgress /\ stack' = <<f("issue")>> \o stack
              /\ UNCHANGED <<lastCompleted, session, inFlight>>
        /\ UNCHANGED <<prevText, stopped>>
    BY <1>5 DEF StartFinding, CompleteCurrent
  <2>2. \A at \in Opening :
          /\ f(at) \in Frames /\ f(at).at = at /\ f(at).ask = asked + 1 /\ f(at).text = text
          /\ f(at).next = (prevText = text)
    BY <1>1 DEF Frames, Opening
  <2> HIDE DEF f
  <2>3. "supersede" \in Opening /\ "issue" \in Opening /\ Opening \subseteq Owing /\ "user" \notin Owing
        /\ "reply" \notin Opening
    BY DEF Opening, Owing
  <2>4. PICK at \in Opening :
          /\ stack' \in Seq(Frames) /\ Len(stack') \in Len(stack) + 1 .. Len(stack) + 2
          /\ stack'[Len(stack') - Len(stack)] = f(at)
          /\ at = "supersede" => Len(stack') = Len(stack) + 2 /\ stack'[1] = User
          /\ at = "supersede" <=> IsFindTextInProgress
          /\ at = "issue" => Len(stack') = Len(stack) + 1
          /\ \A i \in 1 .. Len(stack') : i # Len(stack') - Len(stack) =>
               \/ stack'[i] = User
               \/ /\ i - (Len(stack') - Len(stack)) \in 1 .. Len(stack)
                  /\ stack'[i] = stack[i - (Len(stack') - Len(stack))]
    <3>0. Len(stack) \in Nat
      BY <1>2
    <3>1. CASE IsFindTextInProgress
      <4>1. /\ stack' = <<User, f("supersede")>> \o stack /\ f("supersede") \in Frames
        BY <2>1, <2>2, <2>3, <3>1
      <4>2. /\ stack' \in Seq(Frames) /\ Len(stack') = Len(stack) + 2
            /\ stack'[1] = User /\ stack'[2] = f("supersede")
            /\ \A i \in 1 .. Len(stack) + 2 : i \notin {1, 2} =>
                 i - 2 \in 1 .. Len(stack) /\ stack'[i] = stack[i - 2]
        BY <1>2, <1>3, <4>1, PushedTwo
      <4>3. Len(stack') - Len(stack) = 2
        BY <3>0, <4>2
      <4> QED
        BY <2>3, <3>0, <3>1, <4>2, <4>3
    <3>2. CASE ~IsFindTextInProgress
      <4>1. /\ stack' = <<f("issue")>> \o stack /\ f("issue") \in Frames
        BY <2>1, <2>2, <2>3, <3>2
      <4>2. /\ stack' \in Seq(Frames) /\ Len(stack') = Len(stack) + 1 /\ stack'[1] = f("issue")
            /\ \A i \in 1 .. Len(stack) + 1 : i # 1 =>
                 i - 1 \in 1 .. Len(stack) /\ stack'[i] = stack[i - 1]
        BY <1>2, <4>1, Pushed
      <4>3. Len(stack') - Len(stack) = 1
        BY <3>0, <4>2
      <4> QED
        BY <2>3, <3>0, <3>2, <4>2, <4>3
    <3> QED
      BY <3>1, <3>2
  <2>5. TypeOK'
    <3>1. /\ lastCompleted' \in -1 .. current' /\ session' \in Texts \cup {NoText}
          /\ inFlight' \subseteq 0 .. current' /\ prevText' = prevText
      BY <1>1, <2>1 DEF TypeOK
    <3> QED
      BY <1>1, <1>2, <2>4, <3>1 DEF TypeOK
  <2>6. OwedOnce'
    <3> DEFINE k == Len(stack') - Len(stack)
    <3>0. Len(stack) \in Nat /\ k \in {1, 2} /\ k \in 1 .. Len(stack')
      BY <1>2, <2>4
    <3>1. \A i \in 1 .. Len(stack') : i # k /\ stack'[i].at \in Owing =>
            i - k \in Places /\ Owes(i - k) /\ stack'[i].ask = stack[i - k].ask
      BY <1>3, <2>3, <2>4 DEF Places, Owes
    <3>2. stack'[k].at \in Owing /\ stack'[k].ask = asked + 1 /\ stack' \in Seq(Frames)
      BY <2>2, <2>3, <2>4
    <3> HIDE DEF k
    <3> QED
      BY <1>1, <3>0, <3>1, <3>2, OwedAsks
  <2>7. CalmInv'
    <3> SUFFICES ASSUME Calm'
                 PROVE  OneCall' /\ RepliesAreCurrent' /\ SessionIsContinued' /\ NoneForgotten'
      BY DEF CalmInv
    <3>1. Calm /\ stack = <<>>
      BY <1>1, NestedLater
    <3>2. Len(stack) = 0 /\ stack' # <<>> /\ Work' = f(at)
      BY <2>4, <3>1 DEF Work
    <3>3. /\ At(Opening)' /\ At(Owing)' /\ ~At({"reply"})' /\ (At({"supersede"})' <=> IsFindTextInProgress)
          /\ Work'.ask = asked + 1 /\ Work'.text = text /\ Work'.next = (prevText = text)
      BY <2>2, <2>3, <2>4, <3>2 DEF At
    <3>4. OneCall'
      <4>1. Len(stack') \in 1 .. 2 /\ Work'.at = at /\ at \in {"supersede", "issue"}
        BY <2>2, <2>4, <3>2 DEF Opening
      <4>2. at = "supersede" => stack'[1].at = "user"
        BY <1>3, <2>4
      <4>3. at = "issue" => Len(stack') = 1
        BY <2>4, <3>2
      <4>4. Len(stack') = 1 \/ Len(stack') = 2
        BY <4>1
      <4>5. Work'.at # "user"
        BY <4>1
      <4> QED
        BY <4>1, <4>2, <4>3, <4>4, <4>5, OneCallAt
    <3>5. RepliesAreCurrent'
      <4>1. lastCompleted' = current' /\ inFlight' \subseteq inFlight
        BY <1>1, <2>1 DEF IsFindTextInProgress
      <4>2. \A id \in inFlight' : id <= current /\ id \in Int
        BY <4>1 DEF TypeOK
      <4> QED
        BY <1>1, <4>1, <4>2 DEF RepliesAreCurrent, TypeOK
    <3>6. SessionIsContinued'
      <4>1. ASSUME prevText = text PROVE session' = text
        <5>1. prevText # NoText
          BY <4>1 DEF FindConstants
        <5> QED
          BY <2>1, <3>1, <4>1, <5>1, BetweenEvents
      <4> QED
        BY <3>3, <4>1 DEF SessionIsContinued
    <3>7. NoneForgotten'
      <4> SUFFICES ASSUME NEW a \in 1 .. asked', calls'[a] = 0 PROVE Waits(a)'
        BY DEF NoneForgotten
      <4>1. CASE a = asked + 1
        BY <3>3, <4>1 DEF Waits
      <4>2. CASE a # asked + 1
        <5>1. a \in 1 .. asked /\ calls[a] = 0
          BY <1>1, <4>2
        <5>2. PICK id \in DOMAIN callbacks :
                callbacks[id] = a /\ (id \in stopped \/ (IsFindTextInProgress /\ id = current))
          BY <3>1, <5>1, BetweenEvents
        <5>3. id \in stopped' \/ (At({"supersede"})' /\ id = current')
          BY <1>1, <2>1, <3>3, <5>2
        <5> QED
          BY <1>1, <5>2, <5>3 DEF Waits, Expects
      <4> QED
        BY <4>1, <4>2
    <3> QED
      BY <3>4, <3>5, <3>6, <3>7
  <2> QED
    BY <2>5, <2>6, <2>7
<1> QED
  BY <1>4, <1>5 DEF FindText

(* The frame in front is replaced.                                         *)
LEMMA HeadReplaced ==
  ASSUME NEW S, NEW q \in Seq(S), q # <<>>, NEW f \in S
  PROVE  /\ <<f>> \o Tail(q) \in Seq(S) /\ Len(<<f>> \o Tail(q)) = Len(q)
         /\ (<<f>> \o Tail(q))[1] = f
         /\ \A i \in 1 .. Len(q) : i # 1 => (<<f>> \o Tail(q))[i] = q[i]
<1>1. /\ Tail(q) \in Seq(S) /\ Len(Tail(q)) = Len(q) - 1 /\ 1 \in 1 .. Len(q)
      /\ \A i \in 1 .. Len(Tail(q)) : i + 1 \in 1 .. Len(q) /\ Tail(q)[i] = q[i + 1]
  BY Popped
<1> DEFINE p == Tail(q)
           r == <<f>> \o p
<1>2. /\ r \in Seq(S) /\ Len(r) = Len(p) + 1 /\ r[1] = f
      /\ \A i \in 1 .. Len(p) + 1 : i # 1 => i - 1 \in 1 .. Len(p) /\ r[i] = p[i - 1]
  BY <1>1, Pushed
<1>3. Len(q) \in Nat
  OBVIOUS
<1> HIDE DEF p, r
<1>4. Len(r) = Len(q) /\ \A i \in 1 .. Len(q) : i # 1 => r[i] = q[i]
  BY <1>1, <1>2, <1>3 DEF p
<1> QED
  BY <1>2, <1>4 DEF r, p

\* The searches asked for so far.
LEMMA AskedAreAsks == ASSUME FindConstants, TypeOK PROVE 1 .. asked \subseteq Asks
  BY DEF FindConstants, TypeOK, Asks

\* ReportEmpty keeps the invariant.
LEMMA KeptByReportEmpty == ASSUME FindConstants, FindInv, ReportEmpty PROVE FindInv'
<1> USE DEF FindInv
<1> DEFINE f == Head(stack)
<1>1. /\ stack # <<>> /\ f.at = "empty"
      /\ calls' = [calls EXCEPT ![f.ask] = @ + 1] /\ stack' = <<User>> \o Tail(stack)
      /\ UNCHANGED <<counter, current, lastCompleted, prevText, callbacks, session, inFlight,
                     asked, nested, stopped, alive>>
  BY DEF ReportEmpty, Running, helper
<1>2. stack \in Seq(Frames) /\ f \in Frames /\ f = stack[1] /\ 1 \in 1 .. Len(stack)
  BY <1>1, Popped DEF TypeOK
<1>3. f.ask \in Asks /\ User \in Frames /\ User.at = "user"
  BY <1>1, <1>2, FrameKinds DEF Owing
<1>4. /\ stack' \in Seq(Frames) /\ Len(stack') = Len(stack) /\ stack'[1] = User
      /\ \A i \in 1 .. Len(stack) : i # 1 => stack'[i] = stack[i]
  BY <1>1, <1>2, <1>3, HeadReplaced
<1>5. /\ f.ask <= asked /\ calls[f.ask] = 0 /\ \A id \in DOMAIN callbacks : callbacks[id] # f.ask
      /\ \A i \in 1 .. Len(stack) : Owes(i) /\ stack[i].ask = f.ask => i = 1
  BY <1>1, <1>2 DEF OwedOnce, Owes, Owing, Places
<1>6. calls' \in [Asks -> Nat] /\ calls'[f.ask] = 1 /\ \A a \in Asks : a # f.ask => calls'[a] = calls[a]
  BY <1>1, <1>3, <1>5 DEF TypeOK
<1> HIDE DEF f
<1>7. TypeOK'
  BY <1>1, <1>4, <1>6 DEF TypeOK
<1>8. OwedOnce'
  <2>1. \A i \in 1 .. Len(stack') : stack'[i].at \in Owing =>
          i + 0 \in Places /\ Owes(i + 0) /\ stack'[i].ask = stack[i + 0].ask /\ stack'[i].ask # f.ask
    BY <1>3, <1>4, <1>5 DEF Places, Owes, Owing
  <2>2. \A id \in DOMAIN callbacks' : id \in DOMAIN callbacks /\ callbacks'[id] = callbacks[id]
    BY <1>1
  <2>3. asked' = asked /\ stack' \in Seq(Frames)
    BY <1>1, <1>4
  <2>4. \A a \in Asks :
          \/ calls'[a] = calls[a]
          \/ /\ calls'[a] = 1 /\ a <= asked
             /\ \A i \in 1 .. Len(stack') : stack'[i].at \in Owing => stack'[i].ask # a
             /\ \A id \in DOMAIN callbacks' : callbacks'[id] # a
    BY <1>1, <1>5, <1>6, <2>1
  <2>5. \A i \in 1 .. Len(stack') : stack'[i].at \in Owing =>
          i + 0 \in Places /\ Owes(i + 0) /\ stack'[i].ask = stack[i + 0].ask
    BY <2>1
  <2> QED
    BY <2>2, <2>3, <2>4, <2>5, 0 \in Int, OwedMoves
<1>9. CalmInv'
  <2> SUFFICES ASSUME Calm'
               PROVE  OneCall' /\ RepliesAreCurrent' /\ SessionIsContinued' /\ NoneForgotten'
    BY DEF CalmInv
  <2>1. OneCall /\ RepliesAreCurrent /\ SessionIsContinued /\ NoneForgotten
    BY <1>1 DEF Calm, CalmInv
  <2>2. Len(stack) = 1 /\ Work = f
    BY <1>1, <2>1, Alone DEF f
  <2>3. Len(stack') = 1 /\ stack' # <<>> /\ Work' = User
    BY <1>4, <2>2 DEF Work
  <2>4. /\ ~At(Opening) /\ ~At({"supersede"}) /\ ~At({"reply"}) /\ (At(Owing) => Work.ask = f.ask)
        /\ ~At(Opening)' /\ ~At({"supersede"})' /\ ~At({"reply"})' /\ ~At(Owing)'
    BY <1>1, <1>3, <2>2, <2>3 DEF At, Opening, Owing
  <2>5. OneCall'
    BY <2>3, OneCallAt
  <2>6. RepliesAreCurrent' /\ SessionIsContinued'
    BY <1>1, <2>1, <2>4 DEF RepliesAreCurrent, SessionIsContinued
  <2>7. NoneForgotten'
    <3> SUFFICES ASSUME NEW a \in 1 .. asked', calls'[a] = 0 PROVE Waits(a)'
      BY DEF NoneForgotten
    <3>0. a \in 1 .. asked
      BY <1>1
    <3>1. a # f.ask /\ a \in Asks /\ a \in 1 .. asked
      <4>1. a # f.ask
        BY <1>6
      <4>2. a \in Asks
        BY <3>0, AskedAreAsks
      <4> QED
        BY <3>0, <4>1, <4>2
    <3>2. PICK id \in DOMAIN callbacks : callbacks[id] = a /\ Expects(id)
      BY <1>6, <2>1, <2>4, <3>1 DEF NoneForgotten, Waits
    <3>3. Expects(id)'
      BY <1>1, <2>4, <3>2 DEF Expects, IsFindTextInProgress
    <3> QED
      BY <1>1, <3>2, <3>3 DEF Waits
  <2> QED
    BY <2>5, <2>6, <2>7
<1> QED
  BY <1>7, <1>8, <1>9

\* A frame that reports a reply knows its id.
LEMMA ReplyFrame == ASSUME FindConstants, NEW f \in Frames, f.at = "reply" PROVE f.id \in Int
  BY DEF Frames, User, Ids, FindConstants

(* The superseded search is reported, its successor goes on.               *)
LEMMA KeptBySupersede == ASSUME FindConstants, FindInv, Supersede PROVE FindInv'
<1> USE DEF FindInv
<1> DEFINE f == Head(stack)
           g == [f EXCEPT !.at = "issue"]
           then == <<g>> \o Tail(stack)
<1>1. /\ stack # <<>> /\ f.at = "supersede" /\ InvokeResultCallback(current, then)
      /\ UNCHANGED <<counter, current, lastCompleted, prevText, session, inFlight,
                     asked, nested, stopped, alive>>
  BY DEF Supersede, Running
<1>2. stack \in Seq(Frames) /\ f \in Frames /\ f = stack[1] /\ 1 \in 1 .. Len(stack)
  BY <1>1, Popped DEF TypeOK
<1>3. /\ g \in Frames /\ g.at = "issue" /\ g.ask = f.ask /\ g.text = f.text /\ g.next = f.next
      /\ User \in Frames /\ User.at = "user"
  BY <1>1, <1>2, FrameKinds DEF Opening
<1> HIDE DEF g
<1>4. /\ then \in Seq(Frames) /\ Len(then) = Len(stack) /\ then[1] = g
      /\ \A i \in 1 .. Len(stack) : i # 1 => then[i] = stack[i]
  BY <1>1, <1>2, <1>3, HeadReplaced
<1> HIDE DEF then
<1>5. current \in Int
  BY DEF TypeOK
<1>6. /\ callbacks' \in [DOMAIN callbacks' -> Asks] /\ DOMAIN callbacks' \subseteq DOMAIN callbacks
      /\ \A jd \in DOMAIN callbacks' : callbacks'[jd] = callbacks[jd]
      /\ \A jd \in DOMAIN callbacks : jd # current => jd \in DOMAIN callbacks'
      /\ calls' \in [Asks -> Nat]
      /\ \/ /\ current \in DOMAIN callbacks /\ callbacks[current] \in Asks /\ stack' = <<User>> \o then
            /\ current \notin DOMAIN callbacks' /\ calls'[callbacks[current]] = 1
            /\ \A a \in Asks : a # callbacks[current] => calls'[a] = calls[a]
         \/ current \notin DOMAIN callbacks /\ stack' = then /\ calls' = calls
  BY <1>1, <1>4, <1>5, Invoked
<1> HIDE DEF f
<1>7. PICK d \in {-1, 0} :
        /\ stack' \in Seq(Frames) /\ Len(stack') = Len(stack) - d
        /\ d = -1 => stack'[1] = User /\ current \in DOMAIN callbacks
        /\ d = 0 => current \notin DOMAIN callbacks
        /\ stack'[1 - d] = g
        /\ \A i \in 1 .. Len(stack') : i > 1 - d => i + d \in 1 .. Len(stack) /\ stack'[i] = stack[i + d]
  <2>0. Len(stack) \in Nat
    BY <1>2
  <2>1. CASE current \in DOMAIN callbacks
    <3>1. stack' = <<User>> \o then
      BY <1>6, <2>1
    <3>2. /\ stack' \in Seq(Frames) /\ Len(stack') = Len(then) + 1 /\ stack'[1] = User
          /\ \A i \in 1 .. Len(then) + 1 : i # 1 => i - 1 \in 1 .. Len(then) /\ stack'[i] = then[i - 1]
      BY <1>3, <1>4, <3>1, Pushed
    <3>3. stack'[2] = g
      <4>1. 2 \in 1 .. Len(then) + 1
        BY <1>2, <1>4, <2>0
      <4>2. stack'[2] = then[1]
        BY <3>2, <4>1
      <4> QED
        BY <1>4, <4>2
    <3>4. ASSUME NEW i \in 1 .. Len(stack'), i > 2
          PROVE  i - 1 \in 1 .. Len(stack) /\ stack'[i] = stack[i - 1]
      <4>1. i - 1 \in 1 .. Len(then) /\ stack'[i] = then[i - 1]
        BY <2>0, <3>2, <3>4
      <4>2. i - 1 \in 1 .. Len(stack) /\ i - 1 # 1
        BY <1>4, <2>0, <3>4, <4>1
      <4> QED
        BY <1>4, <4>1, <4>2
    <3>5. Len(stack') = Len(stack) - (-1) /\ 1 - (-1) = 2
      BY <1>4, <2>0, <3>2
    <3>6. \A i \in 1 .. Len(stack') : i > 1 - (-1) =>
            i + (-1) \in 1 .. Len(stack) /\ stack'[i] = stack[i + (-1)]
      <4>1. \A i \in Int : i + (-1) = i - 1
        OBVIOUS
      <4> QED
        BY <3>4, <3>5, <4>1
    <3> WITNESS -1 \in {-1, 0}
    <3>7. stack'[1 - (-1)] = g
      BY <3>3, <3>5
    <3> QED
      BY <2>1, <3>2, <3>5, <3>6, <3>7
  <2>2. CASE current \notin DOMAIN callbacks
    <3>1. stack' = then
      BY <1>6, <2>2
    <3> WITNESS 0 \in {-1, 0}
    <3> QED
      BY <1>4, <2>0, <2>2, <3>1
  <2> QED
    BY <2>1, <2>2
<1>8. TypeOK'
  BY <1>1, <1>6, <1>7 DEF TypeOK
<1>9. OwedOnce'
  <2>0. Len(stack) \in Nat /\ Owes(1) /\ 1 \in Places /\ f = stack[1]
    BY <1>1, <1>2 DEF Owes, Owing, Places
  <2>1. \A i \in 1 .. Len(stack') : stack'[i].at \in Owing =>
          i + d \in Places /\ Owes(i + d) /\ stack'[i].ask = stack[i + d].ask
    <3> SUFFICES ASSUME NEW i \in 1 .. Len(stack'), stack'[i].at \in Owing
                 PROVE  i + d \in Places /\ Owes(i + d) /\ stack'[i].ask = stack[i + d].ask
      OBVIOUS
    <3>1. CASE i = 1 - d
      BY <1>3, <1>7, <2>0, <3>1
    <3>2. CASE i > 1 - d
      BY <1>7, <3>2 DEF Places, Owes
    <3>3. ~(i < 1 - d)
      BY <1>3, <1>7 DEF Owing
    <3> QED
      BY <3>1, <3>2, <3>3
  <2>2. \A id \in DOMAIN callbacks' : id \in DOMAIN callbacks /\ callbacks'[id] = callbacks[id]
    BY <1>6
  <2>3. asked' = asked /\ stack' \in Seq(Frames) /\ d \in Int
    BY <1>1, <1>7
  <2>4. \A a \in Asks :
          \/ calls'[a] = calls[a]
          \/ /\ calls'[a] = 1 /\ a <= asked
             /\ \A i \in 1 .. Len(stack') : stack'[i].at \in Owing => stack'[i].ask # a
             /\ \A id \in DOMAIN callbacks' : callbacks'[id] # a
    <3> SUFFICES ASSUME NEW a \in Asks, calls'[a] # calls[a]
                 PROVE  /\ calls'[a] = 1 /\ a <= asked
                        /\ \A i \in 1 .. Len(stack') : stack'[i].at \in Owing => stack'[i].ask # a
                        /\ \A id \in DOMAIN callbacks' : callbacks'[id] # a
      OBVIOUS
    <3>1. current \in DOMAIN callbacks /\ a = callbacks[current] /\ calls'[a] = 1
          /\ current \notin DOMAIN callbacks'
      BY <1>6
    <3>2. a <= asked
      BY <3>1 DEF OwedOnce
    <3>3. ASSUME NEW i \in 1 .. Len(stack'), stack'[i].at \in Owing PROVE stack'[i].ask # a
      BY <2>1, <3>1, <3>3 DEF OwedOnce
    <3>4. ASSUME NEW id \in DOMAIN callbacks' PROVE callbacks'[id] # a
      BY <2>2, <3>1, <3>4 DEF OwedOnce
    <3> QED
      BY <3>1, <3>2, <3>3, <3>4
  <2> QED
    BY <2>1, <2>2, <2>3, <2>4, OwedMoves
<1>10. CalmInv'
  <2> SUFFICES ASSUME Calm'
               PROVE  OneCall' /\ RepliesAreCurrent' /\ SessionIsContinued' /\ NoneForgotten'
    BY DEF CalmInv
  <2>1. OneCall /\ RepliesAreCurrent /\ SessionIsContinued /\ NoneForgotten
    BY <1>1 DEF Calm, CalmInv
  <2>2. Len(stack) = 1 /\ Work = f
    BY <1>1, <2>1, Alone DEF f
  <2>3. Len(stack') = 1 - d /\ stack' # <<>> /\ Work' = g
    BY <1>7, <2>2 DEF Work
  <2>4. /\ At(Opening) /\ At({"supersede"}) /\ ~At({"reply"}) /\ At(Owing)
        /\ At(Opening)' /\ ~At({"supersede"})' /\ ~At({"reply"})' /\ At(Owing)'
    BY <1>1, <1>3, <2>2, <2>3 DEF At, Opening, Owing
  <2>5. Work'.ask = Work.ask /\ Work'.text = Work.text /\ Work'.next = Work.next
    BY <1>3, <2>2, <2>3
  <2>6. OneCall'
    <3>1. Work'.at # "user"
      BY <1>3, <2>3
    <3>2. CASE d = 0
      <4>1. Len(stack') = 1
        BY <2>3, <3>2
      <4> QED
        BY <4>1, OneCallAt
    <3>3. CASE d = -1
      <4>1. Len(stack') = 2
        BY <2>3, <3>3
      <4>2. stack'[1].at = "user"
        BY <1>3, <1>7, <3>3
      <4> QED
        BY <3>1, <4>1, <4>2, OneCallAt
    <3> QED
      BY <3>2, <3>3
  <2>7. RepliesAreCurrent'
    BY <1>1, <2>1, <2>4 DEF RepliesAreCurrent
  <2>8. SessionIsContinued'
    BY <1>1, <2>1, <2>4, <2>5 DEF SessionIsContinued
  <2>9. NoneForgotten'
    <3> SUFFICES ASSUME NEW a \in 1 .. asked', calls'[a] = 0 PROVE Waits(a)'
      BY DEF NoneForgotten
    <3>0. a \in 1 .. asked
      BY <1>1
    <3>1. a \in Asks
      BY <3>0, AskedAreAsks
    <3>2. calls[a] = 0 /\ (current \in DOMAIN callbacks => a # callbacks[current])
      BY <1>6, <3>1
    <3>3. CASE Work.ask = a
      BY <2>4, <2>5, <3>3 DEF Waits
    <3>4. CASE Work.ask # a
      <4>1. PICK id \in DOMAIN callbacks : callbacks[id] = a /\ Expects(id)
        BY <2>1, <3>0, <3>2, <3>4 DEF NoneForgotten, Waits
      <4>2. id # current
        BY <3>2, <4>1
      <4>3. id \in stopped
        BY <2>4, <4>1, <4>2 DEF Expects
      <4>4. id \in DOMAIN callbacks' /\ callbacks'[id] = a
        BY <1>6, <4>1, <4>2
      <4> QED
        BY <1>1, <4>3, <4>4 DEF Waits, Expects
    <3> QED
      BY <3>3, <3>4
  <2> QED
    BY <2>6, <2>7, <2>8, <2>9
<1> QED
  BY <1>8, <1>9, <1>10

(* A search gets its number.                                               *)
LEMMA KeptByIssue == ASSUME FindConstants, FindInv, Issue PROVE FindInv'
<1> USE DEF FindInv
<1> DEFINE f == Head(stack)
<1>1. /\ stack # <<>> /\ f.at = "issue" /\ stack' = Tail(stack)
      /\ current' = counter /\ counter' = counter + 1 /\ prevText' = f.text
      /\ session' = (IF f.next THEN session ELSE f.text)
      /\ inFlight' = inFlight \cup {counter}
      /\ callbacks' = [i \in DOMAIN callbacks \cup {counter} |->
                         IF i = counter THEN f.ask ELSE callbacks[i]]
      /\ UNCHANGED <<lastCompleted, asked, calls, nested, stopped, alive>>
  BY DEF Issue, Running
<1>2. /\ stack \in Seq(Frames) /\ f \in Frames /\ f = stack[1] /\ 1 \in 1 .. Len(stack)
      /\ stack' \in Seq(Frames)
      /\ \A i \in 1 .. Len(stack') : i + 1 \in 1 .. Len(stack) /\ stack'[i] = stack[i + 1]
  BY <1>1, Popped DEF TypeOK
<1>3. f.ask \in Asks /\ f.text \in Texts /\ f.text # NoText
  BY <1>1, <1>2, FrameKinds DEF Owing, Opening, FindConstants
<1> HIDE DEF f
<1>4. /\ counter \in Nat /\ current \in Int /\ current < counter /\ lastCompleted \in Int
      /\ lastCompleted <= current /\ counter \notin DOMAIN callbacks
      /\ DOMAIN callbacks \subseteq 0 .. current /\ inFlight \subseteq 0 .. current
      /\ callbacks \in [DOMAIN callbacks -> Asks]
  BY DEF TypeOK
<1>5. /\ DOMAIN callbacks' = DOMAIN callbacks \cup {counter}
      /\ callbacks'[counter] = f.ask
      /\ \A id \in DOMAIN callbacks : callbacks'[id] = callbacks[id]
      /\ callbacks' \in [DOMAIN callbacks' -> Asks]
  <2> DEFINE D == DOMAIN callbacks
  <2>1. callbacks \in [D -> Asks] /\ counter \notin D
    BY <1>4
  <2> HIDE DEF D
  <2>2. callbacks' = [i \in D \cup {counter} |-> IF i = counter THEN f.ask ELSE callbacks[i]]
    BY <1>1 DEF D
  <2>3. /\ DOMAIN callbacks' = D \cup {counter} /\ callbacks'[counter] = f.ask
        /\ \A id \in D : callbacks'[id] = callbacks[id]
        /\ callbacks' \in [D \cup {counter} -> Asks]
    BY <1>3, <2>1, <2>2
  <2> QED
    BY <2>3 DEF D
<1>6. TypeOK'
  <2>1. counter' \in Nat /\ current' \in -1 .. counter' - 1 /\ lastCompleted' \in -1 .. current'
        /\ inFlight' \subseteq 0 .. current' /\ DOMAIN callbacks' \subseteq 0 .. current'
    <3>1. counter' \in Nat /\ current' = counter /\ current' \in -1 .. counter' - 1
      BY <1>1, <1>4
    <3>2. lastCompleted' \in -1 .. current'
      BY <1>1, <1>4 DEF TypeOK
    <3>3. inFlight' \subseteq 0 .. current' /\ DOMAIN callbacks' \subseteq 0 .. current'
      BY <1>1, <1>4, <1>5
    <3> QED
      BY <3>1, <3>2, <3>3
  <2>2. prevText' \in Texts \cup {NoText} /\ session' \in Texts \cup {NoText}
    BY <1>1, <1>3 DEF TypeOK
  <2> QED
    BY <1>1, <1>2, <1>5, <2>1, <2>2 DEF TypeOK
<1>7. OwedOnce'
  <2> USE DEF OwedOnce, Owes, Places
  <2>1. /\ Owes(1) /\ f.ask <= asked /\ calls[f.ask] = 0
        /\ \A id \in DOMAIN callbacks : callbacks[id] # f.ask
    BY <1>1, <1>2 DEF Owing
  <2>2. \A i \in 1 .. Len(stack') : stack'[i].at \in Owing =>
          i + 1 \in Places /\ Owes(i + 1) /\ stack'[i].ask = stack[i + 1].ask /\ stack'[i].ask # f.ask
    <3> SUFFICES ASSUME NEW i \in 1 .. Len(stack'), stack'[i].at \in Owing
                 PROVE  i + 1 \in Places /\ Owes(i + 1) /\ stack'[i].ask = stack[i + 1].ask /\ stack'[i].ask # f.ask
      OBVIOUS
    <3>1. i + 1 \in Places /\ Owes(i + 1) /\ stack'[i].ask = stack[i + 1].ask /\ i + 1 # 1
      BY <1>2
    <3>2. stack[i + 1].ask # stack[1].ask
      BY <2>1, <3>1, <1>2
    <3> QED
      BY <1>2, <3>1, <3>2
  <2>3. \A i, j \in 1 .. Len(stack') :
          stack'[i].at \in Owing /\ stack'[j].at \in Owing /\ stack'[i].ask = stack'[j].ask => i = j
    <3> SUFFICES ASSUME NEW i \in 1 .. Len(stack'), NEW j \in 1 .. Len(stack'),
                        stack'[i].at \in Owing, stack'[j].at \in Owing, stack'[i].ask = stack'[j].ask
                 PROVE  i = j
      OBVIOUS
    <3>1. i + 1 \in Places /\ Owes(i + 1) /\ j + 1 \in Places /\ Owes(j + 1)
          /\ stack[i + 1].ask = stack[j + 1].ask
      BY <2>2
    <3>2. i + 1 = j + 1
      BY <3>1
    <3> QED
      BY <3>2
  <2>4. \A i \in 1 .. Len(stack') : stack'[i].at \in Owing =>
          /\ stack'[i].ask <= asked' /\ calls'[stack'[i].ask] = 0
          /\ \A id \in DOMAIN callbacks' : callbacks'[id] # stack'[i].ask
    BY <1>1, <1>5, <2>2
  <2>5. \A id \in DOMAIN callbacks' : callbacks'[id] <= asked' /\ calls'[callbacks'[id]] = 0
    BY <1>1, <1>5, <2>1
  <2>6. \A id, jd \in DOMAIN callbacks' : callbacks'[id] = callbacks'[jd] => id = jd
    BY <1>5, <2>1
  <2>7. \A a \in Asks : calls'[a] <= 1 /\ (a > asked' => calls'[a] = 0)
    BY <1>1
  <2> QED
    BY <2>3, <2>4, <2>5, <2>6, <2>7
<1>8. CalmInv'
  <2> SUFFICES ASSUME Calm' PROVE CalmInv'
    BY DEF CalmInv
  <2>1. OneCall /\ RepliesAreCurrent /\ SessionIsContinued /\ NoneForgotten
    BY <1>1 DEF Calm, CalmInv
  <2>2. Len(stack) = 1 /\ Work = f /\ stack' = <<>>
    BY <1>1, <2>1, Alone DEF f
  <2>3. At(Opening) /\ ~At({"supersede"}) /\ ~At({"reply"}) /\ At(Owing)
    BY <1>1, <2>2 DEF At, Opening, Owing
  <2>4. lastCompleted = current
    BY <2>1, <2>3 DEF RepliesAreCurrent
  <2>5. \A id \in inFlight' : id > lastCompleted' => id = current'
    BY <1>1, <1>4, <2>4
  <2>6. session' = prevText'
    BY <1>1, <2>1, <2>2, <2>3 DEF SessionIsContinued
  <2>7. ASSUME NEW a \in 1 .. asked', calls'[a] = 0
        PROVE  \E id \in DOMAIN callbacks' :
                 callbacks'[id] = a /\ (id \in stopped' \/ (IsFindTextInProgress' /\ id = current'))
    <3>1. CASE f.ask = a
      <4>1. counter \in DOMAIN callbacks' /\ callbacks'[counter] = a /\ counter = current'
        BY <1>1, <1>5, <3>1
      <4>2. IsFindTextInProgress'
        BY <1>1, <1>4 DEF IsFindTextInProgress
      <4> QED
        BY <4>1, <4>2
    <3>2. CASE f.ask # a
      <4>1. PICK id \in DOMAIN callbacks : callbacks[id] = a /\ Expects(id)
        BY <1>1, <2>1, <2>2, <2>7, <3>2 DEF NoneForgotten, Waits
      <4>2. id \in stopped
        BY <2>3, <2>4, <4>1 DEF Expects, IsFindTextInProgress
      <4> QED
        BY <1>1, <1>5, <4>1, <4>2
    <3> QED
      BY <3>1, <3>2
  <2> QED
    BY <2>2, <2>5, <2>6, <2>7, QuietAgain
<1> QED
  BY <1>6, <1>7, <1>8

(* A reply is taken for the current search, or ignored.                    *)
LEMMA KeptByHandleFindReply ==
  ASSUME FindInv, NEW id \in 0 .. MaxId, HandleFindReply(id) PROVE FindInv'
<1> USE DEF FindInv
<1>1. /\ alive /\ stack = <<>> /\ id \in inFlight /\ inFlight' = inFlight \ {id}
      /\ UNCHANGED <<counter, current, prevText, callbacks, session, asked, calls,
                     nested, stopped, alive>>
  BY DEF HandleFindReply, Idle
<1>2. /\ current \in Int /\ lastCompleted \in Int /\ inFlight \subseteq 0 .. current
  BY DEF TypeOK
<1>3. CASE CompletedAlready(id)
  <2>1. UNCHANGED <<lastCompleted, stack>>
    BY <1>3 DEF HandleFindReply
  <2>2. TypeOK'
    BY <1>1, <2>1 DEF TypeOK
  <2>3. OwedOnce'
    BY <1>1, <2>1 DEF OwedOnce, Owes, Places
  <2>4. CalmInv'
    <3> SUFFICES ASSUME Calm' PROVE CalmInv'
      BY DEF CalmInv
    <3>1. Calm
      BY <1>1 DEF Calm
    <3>2. IsFindTextInProgress' = IsFindTextInProgress
      BY <1>1, <2>1 DEF IsFindTextInProgress
    <3> QED
      BY <1>1, <2>1, <3>1, <3>2, BetweenEvents, QuietAgain
  <2> QED
    BY <2>2, <2>3, <2>4
<1>4. CASE ~CompletedAlready(id)
  <2> DEFINE f == [at |-> "reply", id |-> id]
  <2>1. lastCompleted' = id /\ stack' = <<User, f>> /\ id > lastCompleted
    BY <1>1, <1>2, <1>4 DEF HandleFindReply, CompletedAlready
  <2>2. f \in Frames /\ f.at = "reply" /\ f.id = id /\ User \in Frames /\ User.at = "user"
    <3>1. id \in Ids
      BY DEF Ids
    <3> QED
      BY <3>1 DEF Frames, User
  <2> HIDE DEF f
  <2>3. stack' \in Seq(Frames) /\ Len(stack') = 2 /\ stack'[1] = User /\ stack'[2] = f /\ stack' # <<>>
    BY <2>1, <2>2
  <2>4. TypeOK'
    <3>1. lastCompleted' \in -1 .. current' /\ inFlight' \subseteq 0 .. current'
      BY <1>1, <1>2, <2>1
    <3> QED
      BY <1>1, <2>3, <3>1 DEF TypeOK
  <2>5. OwedOnce'
    <3>1. \A i \in 1 .. Len(stack') : stack'[i].at \notin Owing
      BY <2>2, <2>3 DEF Owing
    <3> QED
      BY <1>1, <3>1 DEF OwedOnce, Owes, Places
  <2>6. CalmInv'
    <3> SUFFICES ASSUME Calm'
                 PROVE  OneCall' /\ RepliesAreCurrent' /\ SessionIsContinued' /\ NoneForgotten'
      BY DEF CalmInv
    <3>1. Calm
      BY <1>1 DEF Calm
    <3>2. id = current
      BY <1>1, <2>1, <3>1, BetweenEvents
    <3>3. Work' = f
      BY <2>3 DEF Work
    <3>4. /\ ~At(Opening)' /\ ~At({"supersede"})' /\ At({"reply"})' /\ ~At(Owing)' /\ Work'.id = current
      BY <2>2, <2>3, <3>2, <3>3 DEF At, Opening, Owing
    <3>5. OneCall'
      <4>1. stack'[1].at = "user" /\ Work'.at # "user" /\ Len(stack') = 2
        BY <2>2, <2>3, <3>3
      <4> QED
        BY <4>1, OneCallAt
    <3>6. RepliesAreCurrent'
      BY <1>1, <1>2, <2>1, <3>2, <3>4 DEF RepliesAreCurrent
    <3>7. SessionIsContinued'
      BY <1>1, <3>1, <3>4, BetweenEvents DEF SessionIsContinued
    <3>8. NoneForgotten'
      <4> SUFFICES ASSUME NEW a \in 1 .. asked', calls'[a] = 0 PROVE Waits(a)'
        BY DEF NoneForgotten
      <4>1. PICK jd \in DOMAIN callbacks :
              callbacks[jd] = a /\ (jd \in stopped \/ (IsFindTextInProgress /\ jd = current))
        BY <1>1, <3>1, BetweenEvents
      <4>2. Expects(jd)'
        BY <1>1, <3>4, <4>1 DEF Expects
      <4> QED
        BY <1>1, <4>1, <4>2 DEF Waits
    <3> QED
      BY <3>5, <3>6, <3>7, <3>8
  <2> QED
    BY <2>4, <2>5, <2>6
<1> QED
  BY <1>3, <1>4

\* ReportReply keeps the invariant.
LEMMA KeptByReportReply == ASSUME FindConstants, FindInv, ReportReply PROVE FindInv'
<1> USE DEF FindInv
<1> DEFINE f == Head(stack)
           then == Tail(stack)
<1>1. /\ stack # <<>> /\ f.at = "reply" /\ InvokeResultCallback(f.id, then)
      /\ UNCHANGED <<counter, current, lastCompleted, prevText, session, inFlight,
                     asked, nested, stopped, alive>>
  BY DEF ReportReply, Running
<1>2. /\ stack \in Seq(Frames) /\ f \in Frames /\ f = stack[1] /\ then \in Seq(Frames)
      /\ Len(then) = Len(stack) - 1 /\ Len(stack) \in Nat
      /\ \A i \in 1 .. Len(then) : i + 1 \in 1 .. Len(stack) /\ then[i] = stack[i + 1]
  BY <1>1, Popped DEF TypeOK
<1>3. f.id \in Int /\ User \in Frames /\ User.at = "user"
  BY <1>1, <1>2, ReplyFrame, FrameKinds
<1> DEFINE id == f.id
<1>4. <<User>> \o then \in Seq(Frames) /\ Len(<<User>> \o then) = Len(stack)
      /\ (<<User>> \o then)[1] = User
      /\ \A i \in 1 .. Len(stack) : i # 1 => (<<User>> \o then)[i] = stack[i]
  BY <1>1, <1>2, <1>3, HeadReplaced
<1> HIDE DEF then
<1>5. /\ callbacks' \in [DOMAIN callbacks' -> Asks] /\ DOMAIN callbacks' \subseteq DOMAIN callbacks
      /\ \A jd \in DOMAIN callbacks' : callbacks'[jd] = callbacks[jd]
      /\ \A jd \in DOMAIN callbacks : jd # id => jd \in DOMAIN callbacks'
      /\ calls' \in [Asks -> Nat]
      /\ \/ /\ id \in DOMAIN callbacks /\ callbacks[id] \in Asks /\ stack' = <<User>> \o then
            /\ id \notin DOMAIN callbacks' /\ calls'[callbacks[id]] = 1
            /\ \A a \in Asks : a # callbacks[id] => calls'[a] = calls[a]
         \/ id \notin DOMAIN callbacks /\ stack' = then /\ calls' = calls
  BY <1>1, <1>2, <1>3, Invoked
<1> HIDE DEF f
<1>6. PICK d \in {0, 1} :
        /\ stack' \in Seq(Frames)
        /\ \A i \in 1 .. Len(stack') : stack'[i].at \in Owing =>
             i + d \in Places /\ Owes(i + d) /\ stack'[i].ask = stack[i + d].ask
  <2>1. CASE stack' = then
    <3> WITNESS 1 \in {0, 1}
    <3> QED
      BY <1>2, <2>1 DEF Places, Owes
  <2>2. CASE stack' = <<User>> \o then
    <3>1. stack' \in Seq(Frames) /\ Len(stack') = Len(stack) /\ stack'[1].at \notin Owing
          /\ \A i \in 1 .. Len(stack) : i # 1 => stack'[i] = stack[i]
      BY <1>3, <1>4, <2>2 DEF Owing
    <3> WITNESS 0 \in {0, 1}
    <3> QED
      BY <3>1 DEF Places, Owes
  <2> QED
    BY <1>5, <2>1, <2>2
<1> HIDE DEF id
<1>7. TypeOK'
  BY <1>1, <1>5, <1>6 DEF TypeOK
<1>8. OwedOnce'
  <2>1. \A jd \in DOMAIN callbacks' : jd \in DOMAIN callbacks /\ callbacks'[jd] = callbacks[jd]
    BY <1>5
  <2>2. asked' = asked /\ stack' \in Seq(Frames) /\ d \in Int
    BY <1>1, <1>6
  <2>3. \A a \in Asks :
          \/ calls'[a] = calls[a]
          \/ /\ calls'[a] = 1 /\ a <= asked
             /\ \A i \in 1 .. Len(stack') : stack'[i].at \in Owing => stack'[i].ask # a
             /\ \A jd \in DOMAIN callbacks' : callbacks'[jd] # a
    <3> SUFFICES ASSUME NEW a \in Asks, calls'[a] # calls[a]
                 PROVE  /\ calls'[a] = 1 /\ a <= asked
                        /\ \A i \in 1 .. Len(stack') : stack'[i].at \in Owing => stack'[i].ask # a
                        /\ \A jd \in DOMAIN callbacks' : callbacks'[jd] # a
      OBVIOUS
    <3>1. id \in DOMAIN callbacks /\ a = callbacks[id] /\ calls'[a] = 1 /\ id \notin DOMAIN callbacks'
      BY <1>5
    <3>2. a <= asked
      BY <3>1 DEF OwedOnce
    <3>3. ASSUME NEW i \in 1 .. Len(stack'), stack'[i].at \in Owing PROVE stack'[i].ask # a
      BY <1>6, <3>1, <3>3 DEF OwedOnce
    <3>4. ASSUME NEW jd \in DOMAIN callbacks' PROVE callbacks'[jd] # a
      BY <2>1, <3>1, <3>4 DEF OwedOnce
    <3> QED
      BY <3>1, <3>2, <3>3, <3>4
  <2> QED
    BY <1>6, <2>1, <2>2, <2>3, OwedMoves
<1>9. CalmInv'
  <2> SUFFICES ASSUME Calm'
               PROVE  OneCall' /\ RepliesAreCurrent' /\ SessionIsContinued' /\ NoneForgotten'
    BY DEF CalmInv
  <2>1. OneCall /\ RepliesAreCurrent /\ SessionIsContinued /\ NoneForgotten
    BY <1>1 DEF Calm, CalmInv
  <2>2. Len(stack) = 1 /\ Work = f /\ then = <<>>
    BY <1>1, <2>1, Alone DEF f, then
  <2>3. /\ ~At(Opening) /\ ~At({"supersede"}) /\ ~At(Owing) /\ Work.id = id
    BY <1>1, <2>2 DEF At, Opening, Owing, id
  <2>4. stack' = <<>> \/ stack' = <<User>>
    BY <1>5, <2>2
  <2>5. ~At(Opening)' /\ ~At({"supersede"})' /\ ~At({"reply"})' /\ ~At(Owing)'
    <3>1. CASE stack' = <<>>
      BY <3>1 DEF At
    <3>2. CASE stack' = <<User>>
      <4>1. Work' = User
        BY <3>2 DEF Work
      <4> QED
        BY <1>3, <4>1 DEF At, Opening, Owing
    <3> QED
      BY <2>4, <3>1, <3>2
  <2>6. OneCall'
    <3>1. Len(stack') = 0 \/ Len(stack') = 1
      BY <2>4
    <3>2. CASE Len(stack') = 1
      BY <3>2, OneCallAt
    <3>3. CASE Len(stack') = 0
      BY <3>3 DEF OneCall
    <3> QED
      BY <3>1, <3>2, <3>3
  <2>7. RepliesAreCurrent' /\ SessionIsContinued'
    BY <1>1, <2>1, <2>3, <2>5 DEF RepliesAreCurrent, SessionIsContinued
  <2>8. NoneForgotten'
    <3> SUFFICES ASSUME NEW a \in 1 .. asked', calls'[a] = 0 PROVE Waits(a)'
      BY DEF NoneForgotten
    <3>0. a \in 1 .. asked
      BY <1>1
    <3>1. a \in Asks
      BY <3>0, AskedAreAsks
    <3>2. calls[a] = 0 /\ (id \in DOMAIN callbacks => a # callbacks[id])
      BY <1>5, <3>1
    <3>3. PICK jd \in DOMAIN callbacks : callbacks[jd] = a /\ Expects(jd)
      BY <2>1, <2>3, <3>0, <3>2 DEF NoneForgotten, Waits
    <3>4. jd # id /\ jd \in DOMAIN callbacks' /\ callbacks'[jd] = a
      BY <1>5, <3>2, <3>3
    <3>5. jd \in stopped \/ (IsFindTextInProgress /\ jd = current)
      BY <2>3, <3>3, <3>4 DEF Expects
    <3> QED
      BY <1>1, <3>4, <3>5 DEF Waits, Expects, IsFindTextInProgress
  <2> QED
    BY <2>6, <2>7, <2>8
<1> QED
  BY <1>7, <1>8, <1>9

\* HandleLoadCommitted keeps the invariant.
LEMMA KeptByHandleLoadCommitted == ASSUME FindInv, HandleLoadCommitted PROVE FindInv'
<1> USE DEF FindInv
<1>1. /\ stack = <<>> /\ prevText' = NoText /\ session' = NoText
      /\ UNCHANGED <<counter, current, lastCompleted, callbacks, stack, alive,
                     inFlight, asked, calls, nested, stopped>>
  BY DEF HandleLoadCommitted, ForgetText, Idle
<1>2. TypeOK'
  BY <1>1 DEF TypeOK
<1>3. OwedOnce'
  BY <1>1 DEF OwedOnce, Owes, Places
<1>4. ASSUME Calm' PROVE CalmInv'
  <2>1. Calm
    BY <1>1, <1>4 DEF Calm
  <2> QED
    BY <1>1, <2>1, BetweenEvents, QuietAgain DEF IsFindTextInProgress
<1> QED
  BY <1>2, <1>3, <1>4 DEF CalmInv

\* OtherPageFinds keeps the invariant.
LEMMA KeptByOtherPageFinds == ASSUME FindInv, OtherPageFinds PROVE FindInv'
<1> USE DEF FindInv
<1>1. /\ stack = <<>> /\ counter' = counter + 1
      /\ UNCHANGED <<current, lastCompleted, prevText, callbacks, stack, alive,
                     session, inFlight, asked, calls, nested, stopped>>
  BY DEF OtherPageFinds, Idle, world
<1>2. TypeOK'
  BY <1>1 DEF TypeOK
<1>3. OwedOnce'
  BY <1>1 DEF OwedOnce, Owes, Places
<1>4. ASSUME Calm' PROVE CalmInv'
  <2>1. Calm
    BY <1>1, <1>4 DEF Calm
  <2> QED
    BY <1>1, <2>1, BetweenEvents, QuietAgain DEF IsFindTextInProgress
<1> QED
  BY <1>2, <1>3, <1>4 DEF CalmInv

\* Destroy keeps the invariant.
LEMMA KeptByDestroy == ASSUME FindInv, Destroy PROVE FindInv'
<1> USE DEF FindInv
<1>1. /\ alive' = FALSE /\ callbacks' = <<>> /\ UNCHANGED <<counter, current, stack, asked, calls, nested>>
  BY DEF Destroy
<1>2. /\ lastCompleted' \in {current, lastCompleted} /\ prevText' \in {NoText, prevText}
      /\ session' \in {NoText, session} /\ inFlight' \subseteq inFlight
  BY DEF Destroy, StopSession, CompleteCurrent, ForgetText
<1>3. DOMAIN callbacks' = {} /\ callbacks' \in [DOMAIN callbacks' -> Asks]
  BY <1>1
<1>4. TypeOK'
  <2>1. /\ counter' \in Nat /\ current' \in -1 .. counter' - 1
        /\ lastCompleted' \in -1 .. current' /\ inFlight' \subseteq 0 .. current'
    BY <1>1, <1>2 DEF TypeOK
  <2>2. prevText' \in Texts \cup {NoText} /\ session' \in Texts \cup {NoText}
    BY <1>2 DEF TypeOK
  <2>3. alive' \in BOOLEAN /\ nested' \in BOOLEAN
    BY <1>1, Zenon DEF TypeOK
  <2>4. stack' \in Seq(Frames) /\ asked' \in 0 .. MaxAsks /\ calls' \in [Asks -> Nat]
    BY <1>1 DEF TypeOK
  <2> QED
    BY <1>3, <2>1, <2>2, <2>3, <2>4 DEF TypeOK
<1>5. OwedOnce'
  BY <1>1, <1>3 DEF OwedOnce, Owes, Places
<1>6. CalmInv'
  BY <1>1 DEF CalmInv, Calm
<1> QED
  BY <1>4, <1>5, <1>6

\* A step that changes nothing.
LEMMA KeptByStutter == ASSUME FindInv, UNCHANGED vars PROVE FindInv'
<1> USE DEF FindInv
<1>1. UNCHANGED <<counter, current, lastCompleted, prevText, callbacks, stack, alive,
                  session, inFlight, asked, calls, nested, stopped>>
  BY DEF vars, helper, world
<1>2. TypeOK'
  BY <1>1 DEF TypeOK
<1>3. OwedOnce'
  BY <1>1 DEF OwedOnce, Owes, Places
<1>4. CalmInv'
  BY <1>1 DEF CalmInv, Calm, OneCall, RepliesAreCurrent, SessionIsContinued, NoneForgotten,
              Waits, Expects, At, Work, IsFindTextInProgress
<1> QED
  BY <1>2, <1>3, <1>4

\* Nothing has been searched for.
LEMMA StartsQuiet == ASSUME FindConstants, Init PROVE FindInv
<1>1. /\ counter = 0 /\ current = -1 /\ lastCompleted = -1 /\ prevText = NoText /\ session = NoText
      /\ callbacks = <<>> /\ stack = <<>> /\ alive = TRUE /\ inFlight = {} /\ stopped = {}
      /\ asked = 0 /\ calls = [a \in Asks |-> 0] /\ nested = FALSE
  BY DEF Init
<1>2. DOMAIN callbacks = {} /\ callbacks \in [DOMAIN callbacks -> Asks] /\ Len(stack) = 0
  BY <1>1
<1>3. TypeOK
  <2>1. /\ counter \in Nat /\ current \in -1 .. counter - 1 /\ lastCompleted \in -1 .. current
        /\ asked \in 0 .. MaxAsks /\ stack \in Seq(Frames)
    BY <1>1 DEF FindConstants
  <2>2. calls \in [Asks -> Nat] /\ inFlight \subseteq 0 .. current
    BY <1>1
  <2>3. alive \in BOOLEAN /\ nested \in BOOLEAN
    BY <1>1, Zenon
  <2> QED
    BY <1>1, <1>2, <2>1, <2>2, <2>3 DEF TypeOK
<1>4. OwedOnce
  BY <1>1, <1>2 DEF OwedOnce, Owes, Places
<1>5. ~At(Opening)
  BY <1>1 DEF At
<1>6. CalmInv
  BY <1>1, <1>2, <1>5 DEF CalmInv, OneCall, RepliesAreCurrent, SessionIsContinued, NoneForgotten
<1> QED
  BY <1>3, <1>4, <1>6 DEF FindInv

-----------------------------------------------------------------------------
(* The strengthening is inductive: a search is owed in one place, and the  *)
(* one call in progress fits the search the renderer works on.             *)
THEOREM FindInvariant == Spec => []FindInv
<1>1. Init => FindInv
  BY FindConstants, StartsQuiet
<1>2. ASSUME FindInv, [Next]_vars PROVE FindInv'
  <2>1. CASE FindText
    BY <1>2, <2>1, FindConstants, KeptByFindText
  <2>2. CASE StopFinding
    BY <1>2, <2>2, KeptByStopFinding
  <2>3. CASE HandleLoadCommitted
    BY <1>2, <2>3, KeptByHandleLoadCommitted
  <2>4. CASE OtherPageFinds
    BY <1>2, <2>4, KeptByOtherPageFinds
  <2>5. CASE Destroy
    BY <1>2, <2>5, KeptByDestroy
  <2>6. CASE UserReturns
    BY <1>2, <2>6, KeptByUserReturns
  <2>7. CASE ReportEmpty
    BY <1>2, <2>7, FindConstants, KeptByReportEmpty
  <2>8. CASE Supersede
    BY <1>2, <2>8, FindConstants, KeptBySupersede
  <2>9. CASE Issue
    BY <1>2, <2>9, FindConstants, KeptByIssue
  <2>10. CASE ReportReply
    BY <1>2, <2>10, FindConstants, KeptByReportReply
  <2>11. CASE \E id \in 0 .. MaxId : HandleFindReply(id)
    BY <1>2, <2>11, KeptByHandleFindReply
  <2>12. CASE UNCHANGED vars
    BY <1>2, <2>12, KeptByStutter
  <2> QED
    BY <1>2, <2>1, <2>2, <2>3, <2>4, <2>5, <2>6, <2>7, <2>8, <2>9, <2>10, <2>11, <2>12
       DEF Next, Resume
<1> QED
  BY <1>1, <1>2, PTL DEF Spec

(* Ids only grow, each belongs to one search, and no reply is expected for *)
(* a request that was not made.                                            *)
THEOREM FindTypes == Spec => []TypeOK
<1>1. FindInv => TypeOK
  BY DEF FindInv
<1> QED
  BY <1>1, FindInvariant, PTL

(* handleFindReply meets the current search, or one it may ignore.         *)
THEOREM RepliesMatch == Spec => []RepliesMatchUnlessNested
<1>1. FindInv => RepliesMatchUnlessNested
  BY BetweenEvents DEF RepliesMatchUnlessNested, RepliesMatchCurrent, Calm, Idle
<1> QED
  BY <1>1, FindInvariant, PTL

(* A search is reported at most once, and its callback is not lost while   *)
(* the page lives.                                                         *)
THEOREM ReportedOnce == Spec => []CallbackOnce
<1>1. FindInv => CallbackAtMostOnce
  BY DEF FindInv, OwedOnce, CallbackAtMostOnce
<1>2. FindInv => NoCallbackLost
  BY BetweenEvents DEF NoCallbackLost, Calm, Idle
<1> QED
  BY <1>1, <1>2, FindInvariant, PTL DEF CallbackOnce

(* A request never continues a session a load or a stop has ended.         *)
THEOREM SessionContinued == Spec => []FindNextContinuesSession
<1>1. FindInv => FindNextContinuesSession
  BY BetweenEvents DEF FindNextContinuesSession, Calm, Idle
<1> QED
  BY <1>1, FindInvariant, PTL

-----------------------------------------------------------------------------
(***************************************************************************)
(* Load signals: they implement the load stream, no load stays open, and   *)
(* the success and the error page reported are those of the document that  *)
(* is there, for any number of progress steps.                             *)
(***************************************************************************)
USE LoadConstants DEF loadVars, chromium, signals, isLoading

(* The invariant holds of a new page. *)
LEMMA InitInv == LoadInit => LoadInv
<1> SUFFICES ASSUME LoadInit PROVE LoadInv
  OBVIOUS
<1>1. LoadTypeOK
  <2>1. info = LoadingInfo /\ report = NoReport
    BY DEF LoadInit
  <2>2. /\ info \in [progress : -1 .. Full, success : BOOLEAN, isErrorPage : BOOLEAN,
                     error : Errors, triggersErrorPage : BOOLEAN, isDownload : BOOLEAN]
        /\ ~info.triggersErrorPage
    BY <2>1 DEF LoadingInfo, Errors
  <2>3. report \in [status : Statuses, isErrorPage : BOOLEAN, isDownload : BOOLEAN]
    BY <2>1 DEF NoReport, Statuses
  <2>4. /\ seen = -1 /\ ends = 0 /\ pending = "none" /\ document = "none"
        /\ {empty, errorPages, tab, rendering, httpOk, bypassed} \subseteq BOOLEAN
    BY DEF LoadInit
  <2> QED
    BY <2>2, <2>3, <2>4 DEF LoadTypeOK
<1>2. SeenIsProgress /\ IdleIsClear
  BY DEF LoadInit, LoadingInfo, SeenIsProgress, IdleIsClear
<1>3. SuccessOfDocument /\ ErrorPageRemembered
  BY DEF LoadInit, LoadingInfo, SuccessOfDocument, ErrorPageRemembered
<1> QED
  BY <1>1, <1>2, <1>3 DEF LoadInv

(* A failure keeps the progress and takes back the success. *)
LEMMA FailureInfo ==
  ASSUME LoadTypeOK, NEW error \in {"aborted", "failed"},
         NEW i \in {info, [info EXCEPT !.isDownload = TRUE]}
  PROVE  LET j == didFailNavigation(i, error)
         IN /\ j \in [progress : -1 .. Full, success : BOOLEAN, isErrorPage : BOOLEAN,
                      error : Errors, triggersErrorPage : BOOLEAN, isDownload : BOOLEAN]
            /\ j.triggersErrorPage => j.error \in {"failed", "http"}
            /\ j.progress = info.progress /\ ~j.success
            /\ j.isErrorPage = info.isErrorPage
BY DEF LoadTypeOK, didFailNavigation, didFailLoad, triggersErrorPage, Errors

(* A navigation starts a load when none runs. *)
LEMMA StartInv == LoadInv /\ DidStartNavigation => LoadInv'
<1> SUFFICES ASSUME LoadInv, DidStartNavigation PROVE LoadInv'
  OBVIOUS
<1> USE DEF LoadInv
<1> DEFINE i == IF pending = "none" THEN info ELSE didFailNavigation(info, "aborted")
<1>1. PICK entry \in BOOLEAN : emitLoadStarted(i, i.triggersErrorPage /\ ~entry)
  BY DEF DidStartNavigation
<1>2. /\ i \in [progress : -1 .. Full, success : BOOLEAN, isErrorPage : BOOLEAN,
                error : Errors, triggersErrorPage : BOOLEAN, isDownload : BOOLEAN]
      /\ i.triggersErrorPage => i.error \in {"failed", "http"}
      /\ i.progress = info.progress
      /\ i.isErrorPage = info.isErrorPage
      /\ i.success => info.success /\ pending = "none"
  BY FailureInfo DEF LoadTypeOK
<1>3. ~isLoading => i = LoadingInfo
  BY DEF IdleIsClear
<1>4. /\ info' = IF isLoading THEN i ELSE [i EXCEPT !.progress = 0]
      /\ seen' = IF isLoading THEN seen ELSE 0
      /\ empty' \in BOOLEAN
      /\ UNCHANGED <<ends, report, bypassed>>
  BY <1>1, <1>3 DEF emitLoadStarted, StartsLoad, LoadingInfo, LoadTypeOK
<1> HIDE DEF i
<1>5. /\ tab' = TRUE /\ pending' \in {"shows", "ignores"}
      /\ UNCHANGED <<errorPages, document, rendering, httpOk>>
  BY DEF DidStartNavigation
<1>6. LoadTypeOK'
  BY <1>2, <1>4, <1>5 DEF LoadTypeOK
<1>7. SeenIsProgress' /\ IdleIsClear'
  BY <1>2, <1>4, <1>5 DEF LoadTypeOK, SeenIsProgress, IdleIsClear
<1>8. SuccessOfDocument' /\ ErrorPageRemembered'
  <2>1. info'.success = i.success /\ info'.isErrorPage = i.isErrorPage
    BY <1>2, <1>4
  <2> QED
    BY <1>2, <1>5, <2>1 DEF SuccessOfDocument, ErrorPageRemembered
<1> QED
  BY <1>6, <1>7, <1>8

(* The end of a navigation, committed or not. *)
LEMMA NavigationInv ==
  LoadInv /\ (DocumentCommitted \/ ErrorPageCommitted \/ NotCommitted) => LoadInv'
<1> SUFFICES ASSUME LoadInv, DocumentCommitted \/ ErrorPageCommitted \/ NotCommitted
             PROVE  LoadInv'
  OBVIOUS
<1> USE DEF LoadInv, FinishNavigation
<1>1. isLoading
  BY DEF IdleIsClear, DocumentCommitted, ErrorPageCommitted, NotCommitted
<1>2. CASE DocumentCommitted
  <2>1. LoadTypeOK'
    BY <1>2 DEF DocumentCommitted, LoadTypeOK
  <2>2. SeenIsProgress' /\ IdleIsClear'
    BY <1>1, <1>2 DEF DocumentCommitted, SeenIsProgress, IdleIsClear
  <2>3. SuccessOfDocument' /\ ErrorPageRemembered'
    BY <1>2 DEF DocumentCommitted, SuccessOfDocument, ErrorPageRemembered
  <2> QED
    BY <2>1, <2>2, <2>3
<1>3. CASE ErrorPageCommitted \/ NotCommitted
  <2>1. PICK error \in {"aborted", "failed"}, i \in {info, [info EXCEPT !.isDownload = TRUE]} :
          info' = didFailNavigation(i, error)
    BY <1>3 DEF ErrorPageCommitted, NotCommitted
  <2>2. /\ info' \in [progress : -1 .. Full, success : BOOLEAN, isErrorPage : BOOLEAN,
                      error : Errors, triggersErrorPage : BOOLEAN, isDownload : BOOLEAN]
        /\ info'.triggersErrorPage => info'.error \in {"failed", "http"}
        /\ info'.progress = info.progress /\ ~info'.success
        /\ info'.isErrorPage = info.isErrorPage
    BY <2>1, FailureInfo
  <2>3. /\ pending' = "none" /\ UNCHANGED <<empty, errorPages, tab, httpOk, signals>>
        /\ \/ document' = "error" /\ rendering' = TRUE
           \/ UNCHANGED <<document, rendering>>
    BY <1>3 DEF ErrorPageCommitted, NotCommitted
  <2>4. LoadTypeOK'
    BY <2>2, <2>3 DEF LoadTypeOK
  <2>5. SeenIsProgress' /\ IdleIsClear'
    BY <1>1, <2>2, <2>3 DEF SeenIsProgress, IdleIsClear
  <2>6. SuccessOfDocument' /\ ErrorPageRemembered'
    BY <2>2, <2>3 DEF SuccessOfDocument, ErrorPageRemembered
  <2> QED
    BY <2>4, <2>5, <2>6
<1> QED
  BY <1>2, <1>3

(* A document or its error page finishes or fails. *)
LEMMA DocumentInv == LoadInv /\ (DidFinishLoad \/ DidFailLoad) => LoadInv'
<1> SUFFICES ASSUME LoadInv, DidFinishLoad \/ DidFailLoad PROVE LoadInv'
  OBVIOUS
<1> USE DEF LoadInv
<1>0. UNCHANGED <<empty, errorPages, tab, pending, rendering, httpOk, signals>>
  BY DEF DidFinishLoad, DidFailLoad
<1>1. isLoading
  BY DEF IdleIsClear, DidFinishLoad, DidFailLoad
<1>2. CASE document = "error"
  <2>1. document' = "errorPage" /\ info' = [info EXCEPT !.isErrorPage = TRUE]
    BY <1>1, <1>2 DEF DidFinishLoad, DidFailLoad, ErrorPageLoaded, LoadTypeOK
  <2>2. LoadTypeOK'
    BY <1>0, <2>1 DEF LoadTypeOK
  <2>3. SeenIsProgress' /\ IdleIsClear'
    BY <1>0, <1>1, <2>1 DEF LoadTypeOK, SeenIsProgress, IdleIsClear
  <2>4. SuccessOfDocument' /\ ErrorPageRemembered'
    BY <1>2, <2>1 DEF LoadTypeOK, SuccessOfDocument, ErrorPageRemembered
  <2> QED
    BY <2>2, <2>3, <2>4
<1>3. CASE document # "error"
  <2>1. CASE DidFinishLoad
    <3>1. PICK ok \in EntryOk :
            info' = [info EXCEPT !.success = ok, !.error = "http",
                                 !.triggersErrorPage = errorPages /\ ~ok /\ empty]
      BY <1>3, <2>1 DEF DidFinishLoad
    <3>2. document' = "loaded" /\ ok \in BOOLEAN /\ (ok => httpOk \/ pending # "none")
      BY <1>3, <2>1 DEF DidFinishLoad, EntryOk, LoadTypeOK
    <3>3. LoadTypeOK'
      BY <1>0, <3>1, <3>2 DEF LoadTypeOK, Errors
    <3>4. SeenIsProgress' /\ IdleIsClear'
      BY <1>0, <1>1, <3>1, <3>2 DEF LoadTypeOK, SeenIsProgress, IdleIsClear
    <3>5. SuccessOfDocument' /\ ErrorPageRemembered'
      BY <1>0, <3>1, <3>2 DEF LoadTypeOK, SuccessOfDocument, ErrorPageRemembered
    <3> QED
      BY <3>3, <3>4, <3>5
  <2>2. CASE DidFailLoad
    <3>1. document' = "stopped" /\ info' = didFailNavigation(info, "aborted")
      BY <1>3, <2>2 DEF DidFailLoad, didFailNavigation
    <3>2. /\ info' \in [progress : -1 .. Full, success : BOOLEAN, isErrorPage : BOOLEAN,
                        error : Errors, triggersErrorPage : BOOLEAN, isDownload : BOOLEAN]
          /\ info'.triggersErrorPage => info'.error \in {"failed", "http"}
          /\ info'.progress = info.progress /\ ~info'.success
      BY <3>1, FailureInfo
    <3>3. LoadTypeOK'
      BY <1>0, <3>1, <3>2 DEF LoadTypeOK
    <3>4. SeenIsProgress' /\ IdleIsClear'
      BY <1>0, <1>1, <3>1, <3>2 DEF SeenIsProgress, IdleIsClear
    <3>5. SuccessOfDocument' /\ ErrorPageRemembered'
      BY <3>1, <3>2 DEF SuccessOfDocument, ErrorPageRemembered
    <3> QED
      BY <3>3, <3>4, <3>5
  <2> QED
    BY <2>1, <2>2
<1> QED
  BY <1>2, <1>3

(* The progress that is reported is that of the load state. *)
LEMMA ProgressInv == LoadInv /\ LoadProgressChanged => LoadInv'
<1> SUFFICES ASSUME LoadInv, LoadProgressChanged PROVE LoadInv'
  OBVIOUS
<1> USE DEF LoadInv
<1>1. PICK p \in info.progress + 1 .. Full : info' = [info EXCEPT !.progress = p] /\ seen' = p
  BY DEF LoadProgressChanged
<1>2. isLoading /\ UNCHANGED <<empty, errorPages, chromium, ends, report, bypassed>>
  BY DEF LoadProgressChanged
<1>3. p \in 1 .. Full
  BY <1>2 DEF LoadTypeOK
<1>4. LoadTypeOK'
  BY <1>1, <1>2, <1>3 DEF LoadTypeOK
<1>5. SeenIsProgress' /\ IdleIsClear'
  BY <1>1, <1>2, <1>3 DEF LoadTypeOK, SeenIsProgress, IdleIsClear
<1>6. SuccessOfDocument' /\ ErrorPageRemembered'
  BY <1>1, <1>2 DEF LoadTypeOK, SuccessOfDocument, ErrorPageRemembered
<1> QED
  BY <1>4, <1>5, <1>6

(* The end of the load clears the load state. *)
LEMMA StopInv == LoadInv /\ DidStopLoading => LoadInv'
<1> SUFFICES ASSUME LoadInv, DidStopLoading PROVE LoadInv'
  OBVIOUS
<1> USE DEF LoadInv
<1>1. info' = LoadingInfo /\ tab' = FALSE /\ document' = "none"
  BY DEF DidStopLoading, emitLoadFinished
<1>2. /\ pending = "none" /\ ~rendering
      /\ UNCHANGED <<empty, errorPages, pending, rendering, httpOk, bypassed>>
  BY DEF DidStopLoading, emitLoadFinished, Stopped
<1>3. /\ info' \in [progress : -1 .. Full, success : BOOLEAN, isErrorPage : BOOLEAN,
                    error : Errors, triggersErrorPage : BOOLEAN, isDownload : BOOLEAN]
      /\ ~info'.triggersErrorPage /\ ~info'.success /\ info'.progress = -1
  BY <1>1 DEF LoadingInfo, Errors
<1>4. /\ seen' = -1 /\ ends' \in {0, 1}
      /\ report' \in [status : Statuses, isErrorPage : BOOLEAN, isDownload : BOOLEAN]
  <2>1. CASE isLoading
    <3>1. LoadStatus \in Statuses
      BY DEF LoadStatus, Statuses
    <3>2. /\ seen' = -1 /\ ends' = 1 - ends
          /\ report' = [status |-> LoadStatus, isErrorPage |-> info.isErrorPage,
                        isDownload |-> info.isDownload]
      BY <2>1 DEF DidStopLoading, emitLoadFinished, EndsLoad
    <3> QED
      BY <3>1, <3>2 DEF LoadTypeOK
  <2>2. CASE ~isLoading
    <3>1. seen' = seen /\ ends' = ends /\ report' = report
      BY <2>2 DEF DidStopLoading, emitLoadFinished, EndsLoad
    <3> QED
      BY <2>2, <3>1 DEF LoadTypeOK, SeenIsProgress
  <2> QED
    BY <2>1, <2>2
<1>5. LoadTypeOK'
  BY <1>1, <1>2, <1>3, <1>4 DEF LoadTypeOK
<1>6. SeenIsProgress' /\ IdleIsClear'
  BY <1>1, <1>2, <1>3, <1>4 DEF SeenIsProgress, IdleIsClear
<1>7. SuccessOfDocument' /\ ErrorPageRemembered'
  BY <1>1, <1>3 DEF SuccessOfDocument, ErrorPageRemembered
<1> QED
  BY <1>5, <1>6, <1>7

(* A job that replies without a device only touches the signals. *)
LEMMA BypassInv == LoadInv /\ emitLoadSucceeded => LoadInv'
<1> SUFFICES ASSUME LoadInv, emitLoadSucceeded PROVE LoadInv'
  OBVIOUS
<1> USE DEF LoadInv
<1>1. report' \in [status : Statuses, isErrorPage : BOOLEAN, isDownload : BOOLEAN]
  BY DEF emitLoadSucceeded, NoReport, Statuses
<1>2. LoadTypeOK'
  BY <1>1 DEF emitLoadSucceeded, LoadTypeOK
<1>3. SeenIsProgress' /\ IdleIsClear'
  BY DEF emitLoadSucceeded, SeenIsProgress, IdleIsClear
<1>4. SuccessOfDocument' /\ ErrorPageRemembered'
  BY DEF emitLoadSucceeded, SuccessOfDocument, ErrorPageRemembered
<1> QED
  BY <1>2, <1>3, <1>4

(* The other steps leave the load state and the signals alone. *)
LEMMA QuietInv ==
  ASSUME LoadInv,
         \/ SubframeLoads \/ ResourceLoadComplete \/ RendererStopped
         \/ RenderProcessGone \/ SetErrorPageEnabled \/ UNCHANGED loadVars
  PROVE  LoadInv'
<1> USE DEF LoadInv, SubframeLoads, ResourceLoadComplete, RendererStopped,
            RenderProcessGone, SetErrorPageEnabled
<1>1. LoadTypeOK'
  BY DEF LoadTypeOK
<1>2. SeenIsProgress'
  BY DEF SeenIsProgress
<1>3. IdleIsClear'
  BY DEF IdleIsClear
<1>4. SuccessOfDocument' /\ ErrorPageRemembered'
  BY DEF SuccessOfDocument, ErrorPageRemembered
<1> QED
  BY <1>1, <1>2, <1>3, <1>4

(* Every step keeps the invariant. *)
LEMMA StepInv == LoadInv /\ [LoadNext]_loadVars => LoadInv'
BY StartInv, NavigationInv, DocumentInv, ProgressInv, StopInv, BypassInv, QuietInv DEF LoadNext

(* What the load state remembers fits what the application has seen and     *)
(* what the tab shows.                                                      *)
THEOREM LoadInvariant == LoadSpec => []LoadInv
BY InitInv, StepInv, PTL DEF LoadSpec

(* Every variable has its type, and only a failure triggers an error page.  *)
THEOREM LoadTypes == LoadSpec => []LoadTypeOK
BY LoadInvariant, PTL DEF LoadInv

(* When the tab stops loading, no load of the application is open. *)
THEOREM NoLoadStaysOpen == LoadSpec => []EveryLoadFinishes
<1>1. LoadInv => EveryLoadFinishes
  BY DEF LoadInv, LoadTypeOK, SeenIsProgress, IdleIsClear, EveryLoadFinishes, LoadingInfo
<1> QED
  BY <1>1, LoadInvariant, PTL

(* Until a bypass, each step is a step of the load stream or a stutter:     *)
(* loads start once, progress grows while they run, and they finish once.   *)
THEOREM ImplementsLoadStream == LoadSpec => SignalsInOrder
<1> DEFINE Step == Stream!Next \/ bypassed'
<1>1. LoadInit => Stream!Init
  BY DEF LoadInit, Stream!Init
<1>2. LoadInv /\ [LoadNext]_loadVars => [Step]_<<seen, ends>>
  <2> SUFFICES ASSUME LoadInv, [LoadNext]_loadVars, ~bypassed', ~UNCHANGED <<seen, ends>>
               PROVE  Stream!Next
    OBVIOUS
  <2> USE DEF Stream!Next, Stream!Start, Stream!Progress, Stream!Finish
  <2>1. ~emitLoadSucceeded /\ ~bypassed
    <3>1. ~emitLoadSucceeded
      BY DEF emitLoadSucceeded
    <3>2. DidStopLoading => bypassed' = bypassed
      BY DEF DidStopLoading, emitLoadFinished
    <3>3. DidStartNavigation => bypassed' = bypassed
      BY DEF DidStartNavigation, emitLoadStarted
    <3>4. bypassed' = bypassed
      BY <3>1, <3>2, <3>3
      DEF LoadNext, DocumentCommitted, ErrorPageCommitted, NotCommitted, FinishNavigation,
          SubframeLoads, ResourceLoadComplete, DidFinishLoad, DidFailLoad, RendererStopped,
          RenderProcessGone, LoadProgressChanged, SetErrorPageEnabled
    <3> QED
      BY <3>1, <3>4
  <2>2. seen = info.progress /\ seen \in -1 .. Full
    BY <2>1 DEF LoadInv, SeenIsProgress, LoadTypeOK
  <2>3. CASE DidStartNavigation
    BY <2>2, <2>3 DEF DidStartNavigation, emitLoadStarted, StartsLoad
  <2>4. CASE LoadProgressChanged
    BY <2>2, <2>4 DEF LoadProgressChanged
  <2>5. CASE DidStopLoading
    BY <2>2, <2>5 DEF DidStopLoading, emitLoadFinished, EndsLoad
  <2> QED
    BY <2>1, <2>3, <2>4, <2>5
    DEF LoadNext, DocumentCommitted, ErrorPageCommitted, NotCommitted, FinishNavigation,
        SubframeLoads, ResourceLoadComplete, DidFinishLoad, DidFailLoad, RendererStopped,
        RenderProcessGone, SetErrorPageEnabled
<1> QED
  BY <1>1, <1>2, LoadInvariant, PTL DEF LoadSpec, SignalsInOrder

(* The only step that reports the end of a load of a stopped tab is         *)
(* DidStopLoading, or else a bypass, which needs a pending navigation.      *)
LEMMA FinishingStops ==
  ASSUME LoadInv, [LoadNext]_loadVars, Finishing
  PROVE  /\ DidStopLoading /\ isLoading /\ ~rendering /\ pending = "none"
         /\ report' = [status |-> LoadStatus, isErrorPage |-> info.isErrorPage,
                       isDownload |-> info.isDownload]
<1>1. pending = "none" /\ ~rendering /\ ends' # ends
  BY DEF Finishing, Stopped
<1>2. DidStopLoading
  BY <1>1 DEF emitLoadSucceeded, LoadNext, DidStartNavigation, emitLoadStarted, DocumentCommitted,
         ErrorPageCommitted, NotCommitted, FinishNavigation, SubframeLoads,
         ResourceLoadComplete, DidFinishLoad, DidFailLoad, RendererStopped,
         RenderProcessGone, LoadProgressChanged, SetErrorPageEnabled
<1> QED
  BY <1>1, <1>2 DEF DidStopLoading, emitLoadFinished, EndsLoad

(* Success is reported of a loaded document, or of one that crashed. *)
THEOREM SuccessOnlyIfLoaded == LoadSpec => SuccessIsALoadedDocument
<1>1. LoadInv /\ [LoadNext]_loadVars =>
        [Finishes("Succeeded") => document = "gone" \/ (document = "loaded" /\ httpOk)]_loadVars
  <2> SUFFICES ASSUME LoadInv, [LoadNext]_loadVars, Finishes("Succeeded")
               PROVE  document = "gone" \/ (document = "loaded" /\ httpOk)
    OBVIOUS
  <2>1. LoadStatus = "Succeeded" /\ ~rendering /\ pending = "none"
    BY FinishingStops DEF Finishes
  <2>2. info.success
    BY <2>1 DEF LoadStatus, LoadInv, LoadTypeOK
  <2> QED
    BY <2>1, <2>2 DEF LoadInv, SuccessOfDocument, IdleIsClear
<1> QED
  BY <1>1, LoadInvariant, PTL DEF LoadSpec, SuccessIsALoadedDocument

(* A load that ends in an error page is reported as one that did not        *)
(* succeed and shows an error page.                                         *)
THEOREM ErrorPagesFail == LoadSpec => ErrorPageIsAFailure
<1>1. LoadInv /\ [LoadNext]_loadVars =>
        [Finishing /\ document = "errorPage"
           => ~Finishes("Succeeded") /\ report'.isErrorPage]_loadVars
  <2> SUFFICES ASSUME LoadInv, [LoadNext]_loadVars, Finishing, document = "errorPage"
               PROVE  ~Finishes("Succeeded") /\ report'.isErrorPage
    OBVIOUS
  <2>1. report'.status = LoadStatus /\ report'.isErrorPage = info.isErrorPage
    BY FinishingStops
  <2>2. ~info.success /\ info.isErrorPage
    BY DEF LoadInv, ErrorPageRemembered
  <2> QED
    BY <2>1, <2>2 DEF LoadStatus, Finishes
<1> QED
  BY <1>1, LoadInvariant, PTL DEF LoadSpec, ErrorPageIsAFailure
=============================================================================

-------------------------- MODULE UrlSchemeJobProofs --------------------------
(***************************************************************************)
(* Proofs that the network stack hears of a custom scheme request what     *)
(* LoaderStream promises it, that late calls of the application reach no   *)
(* loader but the one they are for, that the device is used only while its *)
(* job exists, and that a success has handed over all that was announced;  *)
(* for any number of hops and data and any ranges.                         *)
(***************************************************************************)
EXTENDS UrlSchemeJob, TLAPS

IoTasks == [task : {"start", "reply", "redirect", "fail", "readyRead", "succeed"}, hop : Hops]
UiTasks == [task : {"initialize", "release"}, hop : Hops]
Once    == {"reply", "redirect"}
Heard   == [redirects : Nat, followed : Nat, responses : 0 .. 1, ends : 0 .. 1,
            result : {"none", "ok", "error", "cancelled"}]

(* What the network stack has seen: the loader lives until the completion, *)
(* and a job of which it has heard has started.                            *)
NetInv ==
  /\ seen \in Heard
  /\ loader \in {"alive", "deleted"}
  /\ seen.ends = 0 <=> Alive
  /\ seen.redirects = seen.followed \/ seen.redirects = seen.followed + 1
  /\ seen.responses = 1 => seen.redirects = seen.followed
  /\ Alive /\ seen.responses = 1 => hop \in started
  /\ Alive /\ seen.redirects # seen.followed => hop \in started

(* The loader has one proxy; what uses the device does so while its job is *)
(* there.                                                                  *)
LoaderInv ==
  /\ hop \in Hops /\ client \subseteq {hop}
  /\ client # {} => Alive
  /\ m_device => Alive /\ job[hop] = "live" /\ seen.responses = 1
  /\ reading => Alive /\ job[hop] = "live"
  /\ armed => m_device

(* Jobs are created and released in the order of the hops.                 *)
JobInv ==
  /\ job \in [Hops -> {"none", "live", "gone"}]
  /\ said \in [Hops -> SUBSET {"reply", "null", "redirect", "fail"}]
  /\ \A h \in Hops : job[h] # "none" => h <= hop
  /\ Alive => job[hop] # "gone"
  /\ \A h \in Hops : job[h] = "none" => said[h] = {}
  /\ \A h \in Hops : h \in started => said[h] # {}

(* No job that the loader needs is going to be released.                   *)
UiInv ==
  /\ ui \in Seq(UiTasks)
  /\ \A i \in 1 .. Len(ui) : ui[i].hop <= hop
  /\ Alive => \A i \in 1 .. Len(ui) : ui[i].task = "release" => ui[i].hop < hop

(* A request begins with its start alone; what an application says once is *)
(* posted once, and before the job has started.                            *)
IoInv ==
  /\ io \in Seq(IoTasks)
  /\ \A i \in 1 .. Len(io) : io[i].task = "start" =>
       io = <<Task("start", 1)>> /\ Alive /\ ui = <<>> /\ (\A h \in Hops : job[h] = "none")
  /\ \A i \in 1 .. Len(io) : io[i].task # "start" => job[io[i].hop] # "none"
  /\ \A i \in 1 .. Len(io) : io[i].task \in Once =>
       io[i].hop \notin started /\ said[io[i].hop] # {}
  /\ \A i, j \in 1 .. Len(io) :
       io[i].task \in Once /\ io[j].task \in Once /\ io[i].hop = io[j].hop => i = j

RequestInv == NetInv /\ LoaderInv /\ JobInv /\ UiInv /\ IoInv

-----------------------------------------------------------------------------
(* What taking the first task and posting one at the end do to a queue.    *)
LEMMA TailTask ==
  ASSUME NEW S, NEW q \in Seq(S), q # <<>>
  PROVE  /\ Tail(q) \in Seq(S) /\ Head(q) \in S /\ Head(q) = q[1]
         /\ 1 \in 1 .. Len(q)
         /\ \A i \in 1 .. Len(Tail(q)) : i + 1 \in 1 .. Len(q) /\ Tail(q)[i] = q[i + 1]
  OBVIOUS

\* A task posted to a thread comes last.
LEMMA AppendTask ==
  ASSUME NEW S, NEW q \in Seq(S), NEW t \in S
  PROVE  /\ Append(q, t) \in Seq(S) /\ Append(q, t) # <<>>
         /\ \A i \in 1 .. Len(Append(q, t)) :
              \/ i \in 1 .. Len(q) /\ Append(q, t)[i] = q[i]
              \/ i = Len(q) + 1 /\ Append(q, t)[i] = t
  OBVIOUS

(* The IO thread takes a task: one that is taken once may start its job.   *)
LEMMA IoPopped ==
  ASSUME IoInv, io # <<>>, io' = Tail(io), UNCHANGED <<job, said>>,
         started' = started \/ (started' = started \cup {Head(io).hop} /\ Head(io).task \in Once)
  PROVE  IoInv'
<1> USE DEF IoInv
<1>1. /\ io' \in Seq(IoTasks) /\ Head(io) = io[1] /\ 1 \in 1 .. Len(io)
      /\ \A i \in 1 .. Len(io') : i + 1 \in 1 .. Len(io) /\ io'[i] = io[i + 1]
  BY TailTask
<1>2. \A i \in 1 .. Len(io') : io'[i].task # "start"
  <2> SUFFICES ASSUME NEW i \in 1 .. Len(io'), io'[i].task = "start" PROVE FALSE
    OBVIOUS
  <2>1. io = <<Task("start", 1)>> /\ i + 1 \in 1 .. Len(io)
    BY <1>1
  <2> QED
    BY <2>1
<1>3. \A i \in 1 .. Len(io') : io'[i].task # "start" => job'[io'[i].hop] # "none"
  BY <1>1
<1>4. \A i \in 1 .. Len(io') : io'[i].task \in Once =>
        io'[i].hop \notin started' /\ said'[io'[i].hop] # {}
  <2> SUFFICES ASSUME NEW i \in 1 .. Len(io'), io'[i].task \in Once
               PROVE  io'[i].hop \notin started' /\ said'[io'[i].hop] # {}
    OBVIOUS
  <2>1. i + 1 \in 1 .. Len(io) /\ io'[i] = io[i + 1] /\ i + 1 # 1
    BY <1>1
  <2>2. io[i + 1].hop \notin started /\ said[io[i + 1].hop] # {}
    BY <2>1
  <2>3. io[1].task \in Once => io[1].hop # io[i + 1].hop
    BY <1>1, <2>1
  <2> QED
    BY <1>1, <2>1, <2>2, <2>3
<1>5. \A i, j \in 1 .. Len(io') :
        io'[i].task \in Once /\ io'[j].task \in Once /\ io'[i].hop = io'[j].hop => i = j
  <2> SUFFICES ASSUME NEW i \in 1 .. Len(io'), NEW j \in 1 .. Len(io'),
                      io'[i].task \in Once, io'[j].task \in Once, io'[i].hop = io'[j].hop
               PROVE  i = j
    OBVIOUS
  <2>1. i + 1 \in 1 .. Len(io) /\ j + 1 \in 1 .. Len(io) /\ io'[i] = io[i + 1] /\ io'[j] = io[j + 1]
    BY <1>1
  <2>2. i + 1 = j + 1
    BY <2>1
  <2> QED
    BY <2>2
<1> QED
  BY <1>1, <1>2, <1>3, <1>4, <1>5

(* The UI thread posts a task of a live job; one that the application posts *)
(* once is the first it posts for the job.                                  *)
LEMMA IoPushed ==
  ASSUME IoInv, JobInv, NEW h \in Hops, NEW t \in {"reply", "redirect", "fail", "readyRead", "succeed"},
         job[h] = "live", io' = Append(io, Task(t, h)), UNCHANGED <<job, started>>,
         said' \in [Hops -> SUBSET {"reply", "null", "redirect", "fail"}],
         \A g \in Hops : said[g] \subseteq said'[g],
         t \in Once => said[h] = {} /\ said'[h] # {}
  PROVE  IoInv'
<1> USE DEF IoInv
<1>1. /\ io' \in Seq(IoTasks)
      /\ \A i \in 1 .. Len(io') : \/ i \in 1 .. Len(io) /\ io'[i] = io[i]
                                  \/ i = Len(io) + 1 /\ io'[i] = Task(t, h)
  <2>1. Task(t, h) \in IoTasks
    BY DEF Task, IoTasks
  <2> QED
    BY <2>1, AppendTask
<1>2. \A i \in 1 .. Len(io) : io[i].task # "start" /\ io[i].hop \in Hops
  <2> SUFFICES ASSUME NEW i \in 1 .. Len(io) PROVE io[i].task # "start" /\ io[i].hop \in Hops
    OBVIOUS
  <2>1. io[i] \in IoTasks
    OBVIOUS
  <2>2. io[i].task # "start"
    BY job[h] = "live", h \in Hops
  <2> QED
    BY <2>1, <2>2 DEF IoTasks
<1>3. Task(t, h).task = t /\ Task(t, h).hop = h
  BY DEF Task
<1>4. \A i \in 1 .. Len(io') : io'[i].task # "start" /\ job'[io'[i].hop] # "none"
  BY <1>1, <1>2, <1>3
<1>5. \A i \in 1 .. Len(io') : io'[i].task \in Once =>
        io'[i].hop \notin started' /\ said'[io'[i].hop] # {}
  <2> SUFFICES ASSUME NEW i \in 1 .. Len(io'), io'[i].task \in Once
               PROVE  io'[i].hop \notin started' /\ said'[io'[i].hop] # {}
    OBVIOUS
  <2>1. CASE i \in 1 .. Len(io) /\ io'[i] = io[i]
    BY <1>2, <2>1
  <2>2. CASE i = Len(io) + 1 /\ io'[i] = Task(t, h)
    BY <1>3, <2>2 DEF JobInv
  <2> QED
    BY <1>1, <2>1, <2>2
<1>6. \A i, j \in 1 .. Len(io') :
        io'[i].task \in Once /\ io'[j].task \in Once /\ io'[i].hop = io'[j].hop => i = j
  <2>1. \A i \in 1 .. Len(io) : io[i].task \in Once /\ t \in Once => io[i].hop # h
    OBVIOUS
  <2> QED
    BY <1>1, <1>3, <2>1
<1> QED
  BY <1>1, <1>4, <1>5, <1>6

(* Nothing that has to do with the start is in a queue once a job exists.  *)
LEMMA NoStart ==
  ASSUME IoInv, (ui # <<>> \/ ~Alive \/ \E h \in Hops : job[h] # "none")
  PROVE  \A i \in 1 .. Len(io) : io[i].task # "start"
  BY DEF IoInv

(* Posting to the UI thread.                                               *)
LEMMA UiPushed ==
  ASSUME UiInv, NEW t \in UiTasks, hop \in Nat, t.hop <= hop,
         ui' = Append(ui, t), hop' = hop,
         Alive' => Alive /\ (t.task = "release" => t.hop < hop)
  PROVE  UiInv'
<1> USE DEF UiInv
<1>1. /\ ui' \in Seq(UiTasks)
      /\ \A i \in 1 .. Len(ui') : \/ i \in 1 .. Len(ui) /\ ui'[i] = ui[i]
                                  \/ i = Len(ui) + 1 /\ ui'[i] = t
  BY AppendTask
<1>2. \A i \in 1 .. Len(ui') : ui'[i].hop <= hop'
  BY <1>1
<1>3. Alive' => \A i \in 1 .. Len(ui') : ui'[i].task = "release" => ui'[i].hop < hop'
  BY <1>1
<1> QED
  BY <1>1, <1>2, <1>3

(* Only the current hop's proxy answers, and its first answer finds a      *)
(* network stack that has heard of no response and follows no redirect.    *)
LEMMA Received ==
  ASSUME RequestInv, NEW t \in {"reply", "redirect", "fail", "readyRead"}, NEW h \in Hops,
         ReceivedBy(t, h)
  PROVE  /\ io # <<>> /\ io' = Tail(io) /\ Head(io).task = t /\ Head(io).hop = h
         /\ h = hop /\ Alive /\ job[hop] = "live" /\ seen.ends = 0 /\ ~reading
         /\ said[hop] # {} \/ t \notin Once
         /\ t \in Once => hop \notin started
         /\ hop \notin started => seen.responses = 0 /\ seen.redirects = seen.followed
<1>0. NetInv /\ LoaderInv /\ JobInv /\ IoInv
  BY DEF RequestInv
<1>1. /\ io # <<>> /\ io' = Tail(io) /\ Head(io).task = t /\ Head(io).hop = h /\ ~reading
      /\ h \in client
  BY DEF ReceivedBy, IoTask, HasClient
<1>2. h = hop /\ Alive
  BY <1>0, <1>1 DEF LoaderInv
<1>3. io \in Seq(IoTasks) /\ Head(io) = io[1] /\ 1 \in 1 .. Len(io)
  BY <1>0, <1>1, TailTask DEF IoInv
<1>4. job[hop] # "none" /\ (t \in Once => hop \notin started /\ said[hop] # {})
  BY <1>0, <1>1, <1>2, <1>3 DEF IoInv
<1>5. job[hop] = "live"
  BY <1>0, <1>2, <1>4 DEF JobInv, LoaderInv
<1>6. seen.ends = 0
  BY <1>0, <1>2 DEF NetInv
<1>7. hop \notin started => seen.responses = 0 /\ seen.redirects = seen.followed
  <2>1. seen.responses \in 0 .. 1
    BY <1>0 DEF NetInv, Heard
  <2> QED
    BY <1>0, <1>2, <2>1 DEF NetInv
<1> QED
  BY <1>1, <1>2, <1>4, <1>5, <1>6, <1>7

(* What the network stack hears when the request completes.                *)
LEMMA HearsTheEnd ==
  ASSUME seen \in Heard, NEW r \in {"ok", "error", "cancelled"}, seen.ends = 0
  PROVE  /\ Ended(r) \in Heard /\ Ended(r).ends = 1 /\ Ended(r).redirects = seen.redirects
         /\ Ended(r).followed = seen.followed /\ Ended(r).responses = seen.responses
<1> DEFINE s == [seen EXCEPT !.ends = @ + 1]
<1>1. /\ s \in Heard /\ s.ends = 1 /\ s.redirects = seen.redirects
      /\ s.followed = seen.followed /\ s.responses = seen.responses
  BY DEF Heard
<1>2. Ended(r) = [s EXCEPT !.result = r]
  BY DEF Ended
<1> HIDE DEF s
<1> QED
  BY <1>1, <1>2 DEF Heard

\* The first response is the only one.
LEMMA HearsAResponse ==
  ASSUME NEW s \in Heard, s.responses = 0
  PROVE  /\ Responded(s) \in Heard /\ Responded(s).ends = s.ends
         /\ Responded(s).redirects = s.redirects /\ Responded(s).followed = s.followed
         /\ Responded(s).responses = 1
  BY DEF Heard, Responded

(* Whatever ends the request ends it once and for good.                    *)
LEMMA Completes ==
  ASSUME JobConstants, RequestInv, Alive,
         UNCHANGED <<hop, started, job, said>>,
         \/ io' = io /\ io # <<Task("start", 1)>>
         \/ io # <<>> /\ io' = Tail(io),
         client' = client \ {hop}, m_device' = FALSE, reading' = FALSE, armed' = FALSE,
         loader' = "deleted", ui' = Append(ui, Task("release", hop)),
         NEW r \in {"ok", "error", "cancelled"},
         \/ seen' = Ended(r)
         \/ seen' = Responded(Ended(r)) /\ seen.responses = 0 /\ seen.redirects = seen.followed
  PROVE  RequestInv' /\ [Stream!Next]_Stream!vars
<1> USE DEF RequestInv
<1>1. seen.ends = 0
  BY DEF NetInv
<1>2. /\ seen'.redirects = seen.redirects /\ seen'.followed = seen.followed
      /\ \/ seen'.responses = seen.responses
         \/ seen'.responses = 1 /\ seen.responses = 0 /\ seen.redirects = seen.followed
      /\ seen'.ends = 1
      /\ seen' \in Heard
  <2>0. seen \in Heard
    BY DEF NetInv
  <2> HIDE DEF RequestInv
  <2>1. CASE seen' = Ended(r)
    BY <1>1, <2>0, <2>1, HearsTheEnd
  <2>2. CASE seen' = Responded(Ended(r)) /\ seen.responses = 0 /\ seen.redirects = seen.followed
    BY <1>1, <2>0, <2>2, HearsTheEnd, HearsAResponse
  <2> QED
    BY <2>1, <2>2
<1>3. NetInv'
  BY <1>2 DEF NetInv, Alive
<1>4. hop \in Hops /\ hop \in Nat
  BY DEF LoaderInv, Hops, JobConstants
<1>5. LoaderInv'
  BY DEF LoaderInv
<1>6. JobInv'
  BY DEF JobInv, Alive
<1>7. UiInv'
  <2>1. Task("release", hop) \in UiTasks /\ Task("release", hop).hop = hop
    BY <1>4 DEF Task, UiTasks
  <2> QED
    BY <1>4, <2>1, UiPushed DEF Alive
<1>8. IoInv'
  <2>1. CASE io' = io /\ io # <<Task("start", 1)>>
    BY <2>1 DEF IoInv
  <2>2. CASE io # <<>> /\ io' = Tail(io)
    BY <2>2, IoPopped
  <2> QED
    BY <2>1, <2>2
<1>9. Stream!Next
  BY <1>1, <1>2 DEF Stream!Next, Stream!End, Stream!Respond, Stream!Open
<1> QED
  BY <1>3, <1>5, <1>6, <1>7, <1>8, <1>9

(* Data moves, and a call that is ignored is taken, unheard by the network *)
(* stack.                                                                  *)
LEMMA Quiet ==
  ASSUME RequestInv,
         UNCHANGED <<seen, loader, hop, started, client, job, said, ui, m_device>>,
         io' = io \/ (io # <<>> /\ io' = Tail(io)),
         reading' => Alive /\ job[hop] = "live", armed' => m_device
  PROVE  RequestInv' /\ [Stream!Next]_Stream!vars
<1> USE DEF RequestInv
<1>1. NetInv'
  BY DEF NetInv, Alive
<1>2. LoaderInv'
  BY DEF LoaderInv, Alive
<1>3. JobInv'
  BY DEF JobInv, Alive
<1>4. UiInv'
  BY DEF UiInv, Alive
<1>5. IoInv'
  <2>1. CASE io' = io
    BY <2>1 DEF IoInv, Alive
  <2>2. CASE io # <<>> /\ io' = Tail(io)
    BY <2>2, IoPopped
  <2> QED
    BY <2>1, <2>2
<1>6. UNCHANGED Stream!vars
  BY DEF Stream!vars
<1> QED
  BY <1>1, <1>2, <1>3, <1>4, <1>5, <1>6

-----------------------------------------------------------------------------
(* What the request keeps and what it shows the network stack, action by   *)
(* action.                                                                 *)
Kept == RequestInv' /\ [Stream!Next]_Stream!vars

\* Start keeps the invariant.
LEMMA KeptByStart == ASSUME JobConstants, RequestInv, Start PROVE Kept
<1> USE DEF RequestInv, Kept
<1>1. io # <<>> /\ io' = Tail(io) /\ Head(io).task = "start" /\ UNCHANGED <<job, said>>
  BY DEF Start, IoTask
<1>2. io \in Seq(IoTasks) /\ Head(io) = io[1] /\ 1 \in 1 .. Len(io)
  BY <1>1, TailTask DEF IoInv
<1>3. Alive /\ \A h \in Hops : job[h] = "none"
  BY <1>1, <1>2 DEF IoInv
<1>4. CASE Complete("error")
  <2>1. /\ UNCHANGED <<hop, started>> /\ client' = client \ {hop} /\ m_device' = FALSE
        /\ reading' = FALSE /\ armed' = FALSE /\ loader' = "deleted"
        /\ ui' = Append(ui, Task("release", hop)) /\ seen' = Ended("error")
    BY <1>4 DEF Complete, Clear, Release
  <2> QED
    BY <1>1, <1>3, <2>1, Completes
<1>5. CASE /\ ui' = Append(ui, Task("initialize", hop))
           /\ UNCHANGED <<device, loaderVars, pipeVars, seen, failed>>
  <2>1. UNCHANGED <<seen, loader, hop, started, client, job, said, m_device, reading, armed>>
    BY <1>1, <1>5 DEF loaderVars
  <2>2. NetInv' /\ LoaderInv' /\ JobInv'
    <3>1. NetInv'
      BY <2>1 DEF NetInv, Alive
    <3>2. LoaderInv'
      BY <2>1 DEF LoaderInv, Alive
    <3>3. JobInv'
      BY <2>1 DEF JobInv, Alive
    <3> QED
      BY <3>1, <3>2, <3>3
  <2>3. UiInv'
    <3>1. hop \in Hops /\ hop \in Nat
      BY DEF LoaderInv, Hops, JobConstants
    <3>2. /\ Task("initialize", hop) \in UiTasks /\ Task("initialize", hop).hop = hop
          /\ Task("initialize", hop).task = "initialize"
      BY <3>1 DEF Task, UiTasks
    <3> QED
      BY <1>3, <1>5, <2>1, <3>1, <3>2, UiPushed DEF Alive
  <2>4. IoInv'
    BY <1>1, <2>1, IoPopped
  <2>5. UNCHANGED Stream!vars
    BY <2>1 DEF Stream!vars
  <2> QED
    BY <2>2, <2>3, <2>4, <2>5
<1> QED
  BY <1>4, <1>5 DEF Start

\* ReplyServed keeps the invariant.
LEMMA KeptByReplyServed ==
  ASSUME RequestInv, NEW h \in Hops, ReplyServed(h) PROVE Kept
<1> USE DEF RequestInv, Kept
<1>1. /\ io # <<>> /\ io' = Tail(io) /\ Head(io).task = "reply" /\ Head(io).hop = hop /\ h = hop
      /\ Alive /\ job[hop] = "live" /\ seen.ends = 0 /\ said[hop] # {}
      /\ seen.responses = 0 /\ seen.redirects = seen.followed
  BY Received DEF ReplyServed, Once
<1>2. /\ m_device' = TRUE /\ started' = started \cup {hop} /\ seen' = Responded(seen)
      /\ UNCHANGED <<job, said, ui, hop, client, armed, loader>>
  BY <1>1 DEF ReplyServed
<1>3. /\ seen' \in Heard /\ seen'.ends = 0 /\ seen'.redirects = seen.redirects
      /\ seen'.followed = seen.followed /\ seen'.responses = 1
  BY <1>1, <1>2, HearsAResponse DEF NetInv
<1>4. hop \in Hops /\ hop \in started'
  BY <1>2 DEF LoaderInv
<1>5. NetInv'
  BY <1>1, <1>2, <1>3, <1>4 DEF NetInv, Alive
<1>6. LoaderInv'
  <2>1. /\ hop' = hop /\ client' \subseteq {hop'} /\ Alive' /\ job'[hop'] = "live" /\ seen'.responses = 1
    BY <1>1, <1>2, <1>3 DEF LoaderInv, Alive
  <2> QED
    BY <1>2, <1>4, <2>1 DEF LoaderInv
<1>7. JobInv'
  BY <1>1, <1>2 DEF JobInv, Alive
<1>8. UiInv'
  BY <1>2 DEF UiInv, Alive
<1>9. IoInv'
  BY <1>1, <1>2, IoPopped DEF Once
<1>10. Stream!Next
  BY <1>1, <1>3 DEF Stream!Next, Stream!Respond, Stream!Open
<1> QED
  BY <1>5, <1>6, <1>7, <1>8, <1>9, <1>10

\* Redirect keeps the invariant.
LEMMA KeptByRedirect ==
  ASSUME RequestInv, NEW h \in Hops, Redirect(h) PROVE Kept
<1> USE DEF RequestInv, Kept
<1>1. /\ io # <<>> /\ io' = Tail(io) /\ Head(io).task = "redirect" /\ Head(io).hop = hop /\ h = hop
      /\ Alive /\ job[hop] = "live" /\ seen.ends = 0 /\ said[hop] # {}
      /\ seen.responses = 0 /\ seen.redirects = seen.followed
  BY Received DEF Redirect, Once
<1>2. UNCHANGED <<job, said, ui, hop, client, m_device, reading, armed, loader>>
  BY DEF Redirect, appVars
<1>3. CASE m_device \/ m_error
  <2>1. UNCHANGED <<started, seen>>
    BY <1>3 DEF Redirect
  <2>2. (reading => Alive /\ job[hop] = "live") /\ (armed => m_device)
    BY DEF LoaderInv
  <2> QED
    BY <1>1, <1>2, <2>1, <2>2, Quiet
<1>4. CASE ~(m_device \/ m_error)
  <2>1. started' = started \cup {hop} /\ seen' = [seen EXCEPT !.redirects = @ + 1]
    BY <1>1, <1>4 DEF Redirect
  <2>2. /\ seen' \in Heard /\ seen'.ends = 0 /\ seen'.redirects = seen.redirects + 1
        /\ seen'.followed = seen.followed /\ seen'.responses = 0
    BY <1>1, <2>1 DEF NetInv, Heard
  <2>3. hop \in Hops /\ hop \in started'
    BY <2>1 DEF LoaderInv
  <2>4. NetInv'
    BY <1>1, <1>2, <2>2, <2>3 DEF NetInv, Alive
  <2>5. LoaderInv'
    BY <1>1, <1>2, <1>4, <2>2 DEF LoaderInv, Alive
  <2>6. JobInv'
    BY <1>1, <1>2, <2>1 DEF JobInv, Alive
  <2>7. UiInv'
    BY <1>2 DEF UiInv, Alive
  <2>8. IoInv'
    BY <1>1, <1>2, <2>1, IoPopped DEF Once
  <2>9. Stream!Next
    BY <1>1, <2>2 DEF Stream!Next, Stream!Redirect, Stream!Open
  <2> QED
    BY <2>4, <2>5, <2>6, <2>7, <2>8, <2>9
<1> QED
  BY <1>3, <1>4

(* The other tasks of the IO thread.                                       *)
LEMMA KeptByFailures ==
  ASSUME JobConstants, RequestInv, NEW h \in Hops,
         ReplyUnsatisfiable(h) \/ ReplyUnreadable(h) \/ Fail(h)
  PROVE  Kept
<1> USE DEF Kept
<1>1. CASE ReplyUnsatisfiable(h)
  <2>1. io # <<>> /\ io' = Tail(io) /\ Alive
    BY <1>1, Received DEF ReplyUnsatisfiable
  <2>2. /\ UNCHANGED <<hop, started, job, said>> /\ client' = client \ {hop} /\ m_device' = FALSE
        /\ reading' = FALSE /\ armed' = FALSE /\ loader' = "deleted"
        /\ ui' = Append(ui, Task("release", hop)) /\ seen' = Ended("error")
    BY <1>1 DEF ReplyUnsatisfiable, Clear, Release
  <2> QED
    BY <2>1, <2>2, Completes
<1>2. CASE ReplyUnreadable(h)
  <2>1. /\ io # <<>> /\ io' = Tail(io) /\ Alive
        /\ seen.responses = 0 /\ seen.redirects = seen.followed
    BY <1>2, Received DEF ReplyUnreadable, Once
  <2>2. /\ UNCHANGED <<hop, started, job, said>> /\ client' = client \ {hop} /\ m_device' = FALSE
        /\ reading' = FALSE /\ armed' = FALSE /\ loader' = "deleted"
        /\ ui' = Append(ui, Task("release", hop)) /\ seen' = Responded(Ended("error"))
    BY <1>2 DEF ReplyUnreadable, StartFailure, Clear, Release
  <2> QED
    BY <2>1, <2>2, Completes
<1>3. CASE Fail(h) /\ h \notin started
  <2>1. /\ io # <<>> /\ io' = Tail(io) /\ Alive
        /\ seen.responses = 0 /\ seen.redirects = seen.followed
    BY <1>3, Received DEF Fail
  <2>2. /\ UNCHANGED <<hop, started, job, said>> /\ client' = client \ {hop} /\ m_device' = FALSE
        /\ reading' = FALSE /\ armed' = FALSE /\ loader' = "deleted"
        /\ ui' = Append(ui, Task("release", hop)) /\ seen' = Responded(Ended("error"))
    BY <1>3 DEF Fail, StartFailure, Clear, Release
  <2> QED
    BY <2>1, <2>2, Completes
<1>4. CASE Fail(h) /\ h \in started
  <2>1. /\ io # <<>> /\ io' = Tail(io)
        /\ UNCHANGED <<seen, loader, hop, started, client, job, said, ui, m_device, reading, armed>>
    BY <1>4, Received DEF Fail, FailsOnNextRead
  <2>2. (reading => Alive /\ job[hop] = "live") /\ (armed => m_device)
    BY DEF RequestInv, LoaderInv
  <2> QED
    BY <2>1, <2>2, Quiet
<1> QED
  BY <1>1, <1>2, <1>3, <1>4

\* Calls of the delegate that only reach the loader.
LEMMA KeptByCalls ==
  ASSUME RequestInv, Ignored \/ Succeed \/ \E h \in Hops : ReadyRead(h)
  PROVE  Kept
<1> USE DEF Kept
<1>1. (reading => Alive /\ job[hop] = "live") /\ (armed => m_device)
  BY DEF RequestInv, LoaderInv
<1>2. CASE Ignored \/ Succeed
  <2>1. /\ io # <<>> /\ io' = Tail(io)
        /\ UNCHANGED <<seen, loader, hop, started, client, job, said, ui, m_device, reading, armed>>
    BY <1>2 DEF Ignored, Succeed, IoTask, appVars, loaderVars
  <2> QED
    BY <1>1, <2>1, Quiet
<1>3. ASSUME NEW h \in Hops, ReadyRead(h) PROVE Kept
  <2>1. io # <<>> /\ io' = Tail(io) /\ Alive /\ job[hop] = "live"
    BY <1>3, Received DEF ReadyRead
  <2>2. UNCHANGED <<seen, loader, hop, started, client, job, said, ui, m_device, armed>>
    BY <1>3 DEF ReadyRead, appVars
  <2> QED
    BY <1>1, <2>1, <2>2, Quiet
<1> QED
  BY <1>2, <1>3

\* A loader that reads has started its last hop.
LEMMA NotStarting ==
  ASSUME RequestInv, reading \/ armed \/ hop \in started
  PROVE  /\ io # <<Task("start", 1)>>
         /\ reading \/ armed => Alive
<1> USE DEF RequestInv
<1>1. hop \in Hops /\ job[hop] # "none"
  BY DEF LoaderInv, JobInv
<1>2. \A i \in 1 .. Len(io) : io[i].task # "start"
  BY <1>1, NoStart
<1>3. ASSUME io = <<Task("start", 1)>> PROVE FALSE
  <2>1. 1 \in 1 .. Len(io) /\ io[1].task = "start"
    BY <1>3 DEF Task
  <2> QED
    BY <1>2, <2>1
<1> QED
  BY <1>3 DEF LoaderInv

\* The loader moves data to the pipe.
LEMMA KeptByData ==
  ASSUME JobConstants, RequestInv, ReadRound \/ ReadyWrite PROVE Kept
<1> USE DEF Kept
<1>1. (reading => Alive /\ job[hop] = "live") /\ (armed => Alive /\ m_device /\ job[hop] = "live")
  BY DEF RequestInv, LoaderInv
<1>2. io # <<Task("start", 1)>> /\ io' = io /\ Alive /\ UNCHANGED <<job, said>>
  BY <1>1, NotStarting DEF ReadRound, ReadyWrite
<1>3. CASE Complete("error")
  <2>1. /\ UNCHANGED <<hop, started>> /\ client' = client \ {hop} /\ m_device' = FALSE
        /\ reading' = FALSE /\ armed' = FALSE /\ loader' = "deleted"
        /\ ui' = Append(ui, Task("release", hop)) /\ seen' = Ended("error")
    BY <1>3 DEF Complete, Clear, Release
  <2> QED
    BY <1>2, <2>1, Completes
<1>4. CASE ReadRound /\ ~Complete("error") /\ seen' = Ended("ok") /\ loader' = "deleted"
  <2>1. /\ UNCHANGED <<hop, started>> /\ client' = client \ {hop} /\ m_device' = FALSE
        /\ reading' = FALSE /\ armed' = FALSE
        /\ ui' = Append(ui, Task("release", hop))
    BY <1>1, <1>4 DEF ReadRound, Release, Alive
  <2> QED
    BY <1>2, <1>4, <2>1, Completes
<1>5. CASE /\ UNCHANGED <<seen, loader, hop, started, client, ui, m_device>>
           /\ (reading' => Alive /\ job[hop] = "live") /\ (armed' => m_device)
  BY <1>2, <1>5, Quiet
<1>6. ReadRound => <1>3!1 \/ <1>4!1 \/ <1>5!1
  BY <1>1 DEF ReadRound
<1>7. ReadyWrite => <1>3!1 \/ <1>5!1
  BY <1>1 DEF ReadyWrite
<1> QED
  BY <1>3, <1>4, <1>5, <1>6, <1>7

(* The UI thread creates and releases jobs.                                *)
LEMMA UiPopped ==
  ASSUME UiInv, ui # <<>>, ui' = Tail(ui), UNCHANGED <<hop, loader>>
  PROVE  UiInv' /\ Head(ui) \in UiTasks /\ Head(ui).hop <= hop
         /\ (Alive /\ Head(ui).task = "release" => Head(ui).hop < hop)
<1> USE DEF UiInv
<1>1. /\ ui' \in Seq(UiTasks) /\ Head(ui) \in UiTasks /\ Head(ui) = ui[1] /\ 1 \in 1 .. Len(ui)
      /\ \A i \in 1 .. Len(ui') : i + 1 \in 1 .. Len(ui) /\ ui'[i] = ui[i + 1]
  BY TailTask
<1>2. \A i \in 1 .. Len(ui') : ui'[i].hop <= hop'
  BY <1>1
<1>3. Alive' => \A i \in 1 .. Len(ui') : ui'[i].task = "release" => ui'[i].hop < hop'
  BY <1>1 DEF Alive
<1> QED
  BY <1>1, <1>2, <1>3

\* Tasks of the UI thread.
LEMMA KeptByUi == ASSUME JobConstants, RequestInv, Initialize \/ ReleaseJob PROVE Kept
<1> USE DEF RequestInv, Kept
<1>1. /\ ui # <<>> /\ ui' = Tail(ui)
      /\ UNCHANGED <<seen, loader, hop, started, client, said, io, m_device, reading, armed>>
  BY DEF Initialize, ReleaseJob, UiTask, loaderVars
<1>2. /\ UiInv' /\ Head(ui).hop \in Hops /\ Head(ui).hop <= hop
      /\ Alive /\ Head(ui).task = "release" => Head(ui).hop < hop
  BY <1>1, UiPopped DEF UiTasks
<1>3. hop \in Hops /\ hop \in Nat /\ Head(ui).hop \in Nat
  BY <1>2 DEF LoaderInv, Hops, JobConstants
<1>4. /\ job' \in [Hops -> {"none", "live", "gone"}]
      /\ \A h \in Hops : job'[h] = "none" => job[h] = "none"
      /\ \A h \in Hops : job[h] # "none" => job'[h] # "none"
      /\ \A h \in Hops : job'[h] # "none" => h <= hop
      /\ Alive /\ job[hop] = "live" => job'[hop] = "live"
      /\ Alive => job'[hop] # "gone"
  <2>0. job \in [Hops -> {"none", "live", "gone"}] /\ (\A h \in Hops : job[h] # "none" => h <= hop)
        /\ (Alive => job[hop] # "gone")
    BY DEF JobInv
  <2>1. CASE job' = job
    BY <2>0, <2>1
  <2>2. CASE job' = [job EXCEPT ![Head(ui).hop] = "live"]
    BY <1>2, <1>3, <2>0, <2>2
  <2>3. CASE ReleaseJob
    <3>1. job' = [job EXCEPT ![Head(ui).hop] = IF @ = "live" THEN "gone" ELSE @]
          /\ Head(ui).task = "release"
      BY <2>3 DEF ReleaseJob, UiTask
    <3>2. Alive => Head(ui).hop # hop
      BY <1>2, <1>3, <3>1
    <3> QED
      BY <1>2, <1>3, <2>0, <3>1, <3>2
  <2> QED
    BY <2>1, <2>2, <2>3 DEF Initialize
<1>5. NetInv'
  BY <1>1 DEF NetInv, Alive
<1>6. LoaderInv'
  BY <1>1, <1>3, <1>4 DEF LoaderInv, Alive
<1>7. JobInv'
  BY <1>1, <1>4 DEF JobInv, Alive
<1>8. IoInv'
  <2>1. \A i \in 1 .. Len(io) : io[i].task # "start"
    BY <1>1, NoStart
  <2>2. \A i \in 1 .. Len(io) : io[i].hop \in Hops
    <3> SUFFICES ASSUME NEW i \in 1 .. Len(io) PROVE io[i].hop \in Hops
      OBVIOUS
    <3>1. io[i] \in IoTasks
      BY DEF IoInv
    <3> QED
      BY <3>1 DEF IoTasks
  <2> QED
    BY <1>1, <1>4, <2>1, <2>2 DEF IoInv
<1>9. UNCHANGED Stream!vars
  BY <1>1 DEF Stream!vars
<1> QED
  BY <1>2, <1>5, <1>6, <1>7, <1>8, <1>9

(* The application answers a live job, or sends it data.                   *)
LEMMA KeptByCall ==
  ASSUME RequestInv, NEW h \in Hops, NEW t \in {"reply", "redirect", "fail", "readyRead", "succeed"},
         job[h] = "live", io' = Append(io, Task(t, h)),
         said' = said \/ \E c \in {"reply", "null", "redirect", "fail"} :
                           said' = [said EXCEPT ![h] = @ \cup {c}],
         t \in Once => said[h] = {} /\ said'[h] # {},
         UNCHANGED <<seen, loader, hop, started, client, job, ui, m_device, reading, armed>>
  PROVE  Kept
<1> USE DEF RequestInv, Kept
<1>1. /\ said' \in [Hops -> SUBSET {"reply", "null", "redirect", "fail"}]
      /\ \A g \in Hops : said[g] \subseteq said'[g]
      /\ \A g \in Hops : g # h => said'[g] = said[g]
  BY DEF JobInv
<1>2. NetInv'
  BY DEF NetInv, Alive
<1>3. LoaderInv'
  BY DEF LoaderInv, Alive
<1>4. JobInv'
  BY <1>1 DEF JobInv, Alive
<1>5. UiInv'
  BY DEF UiInv, Alive
<1>6. IoInv'
  BY <1>1, IoPushed
<1>7. UNCHANGED Stream!vars
  BY DEF Stream!vars
<1> QED
  BY <1>2, <1>3, <1>4, <1>5, <1>6, <1>7

\* The application answers and its device gets data.
LEMMA KeptByApp ==
  ASSUME RequestInv, NEW h \in Hops, Answer(h) \/ Arrive(h) PROVE Kept
<1>1. /\ job[h] = "live"
      /\ UNCHANGED <<seen, loader, hop, started, client, job, ui, m_device, reading, armed>>
  BY DEF Answer, ReplyJob, ReplyNull, RedirectJob, FailJob, Say, Arrive, loaderVars
<1>2. said \in [Hops -> SUBSET {"reply", "null", "redirect", "fail"}]
  BY DEF RequestInv, JobInv
<1>3. CASE ReplyJob(h)
  <2>1. io' = Append(io, Task("reply", h)) /\ said' = [said EXCEPT ![h] = @ \cup {"reply"}] /\ said[h] = {}
    BY <1>3 DEF ReplyJob, Say
  <2>2. said'[h] # {}
    BY <1>2, <2>1
  <2> QED
    BY <1>1, <2>1, <2>2, KeptByCall
<1>4. CASE ReplyNull(h)
  <2>1. io' = Append(io, Task("succeed", h)) /\ said' = [said EXCEPT ![h] = @ \cup {"null"}]
    BY <1>4 DEF ReplyNull, Say
  <2> QED
    BY <1>1, <2>1, "succeed" \notin Once, KeptByCall DEF Once
<1>5. CASE RedirectJob(h)
  <2>1. /\ io' = Append(io, Task("redirect", h)) /\ said' = [said EXCEPT ![h] = @ \cup {"redirect"}]
        /\ said[h] = {}
    BY <1>5 DEF RedirectJob, Say
  <2>2. said'[h] # {}
    BY <1>2, <2>1
  <2> QED
    BY <1>1, <2>1, <2>2, KeptByCall
<1>6. CASE FailJob(h)
  <2>1. io' = Append(io, Task("fail", h)) /\ said' = [said EXCEPT ![h] = @ \cup {"fail"}]
    BY <1>6 DEF FailJob, Say
  <2> QED
    BY <1>1, <2>1, "fail" \notin Once, KeptByCall DEF Once
<1>7. CASE Arrive(h) /\ io' = Append(io, Task("readyRead", h))
  <2>1. said' = said
    BY <1>7 DEF Arrive
  <2> QED
    BY <1>1, <1>7, <2>1, "readyRead" \notin Once, KeptByCall DEF Once
<1>8. CASE Arrive(h) /\ io' = io
  <2>1. said' = said /\ (reading => Alive /\ job[hop] = "live") /\ (armed => m_device)
    BY <1>8 DEF Arrive, RequestInv, LoaderInv
  <2> QED
    BY <1>1, <1>8, <2>1, Quiet DEF Kept
<1> QED
  BY <1>3, <1>4, <1>5, <1>6, <1>7, <1>8 DEF Answer, Arrive

(* A redirect that is followed has no device, and its next job is not      *)
(* there yet.                                                              *)
LEMMA KeptByFollow == ASSUME JobConstants, RequestInv, FollowRedirect PROVE Kept
<1> USE DEF RequestInv, Kept
<1>1. /\ Alive /\ ~reading /\ hop < MaxHops /\ seen.followed < seen.redirects
      /\ hop' = hop + 1 /\ hop \in Nat /\ hop \in Hops /\ hop' \in Hops
      /\ UNCHANGED <<job, said, io, started, m_device, reading, armed>>
  BY DEF FollowRedirect, LoaderInv, Hops, JobConstants, appVars
<1>2. /\ seen \in Heard /\ seen.ends = 0 /\ seen.redirects = seen.followed + 1
      /\ seen.responses = 0 /\ hop \in started
  BY <1>1 DEF NetInv, Heard
<1>3. ~m_device /\ ~reading /\ ~armed
  BY <1>1, <1>2 DEF LoaderInv
<1>4. /\ client' \subseteq {hop'} /\ loader' \in {"alive", "deleted"} /\ (client' # {} => Alive')
      /\ seen' \in Heard /\ seen'.redirects = seen.redirects
      /\ seen'.followed = seen.followed + 1 /\ seen'.responses = seen.responses
      /\ seen'.ends \in {0, 1} /\ (seen'.ends = 0 <=> Alive')
  <2>1. CASE /\ client' = {hop + 1} /\ seen' = [seen EXCEPT !.followed = @ + 1]
             /\ loader' = loader
    <3> HIDE DEF RequestInv
    <3>1. seen' \in Heard
      BY <1>2, <2>1 DEF Heard
    <3> QED
      BY <1>1, <1>2, <2>1, <3>1 DEF Heard, Alive
  <2>2. CASE /\ client' = {} /\ seen' = [Ended("error") EXCEPT !.followed = @ + 1]
             /\ loader' = "deleted"
    <3> HIDE DEF RequestInv
    <3>1. /\ Ended("error") \in Heard /\ Ended("error").ends = 1
          /\ Ended("error").redirects = seen.redirects /\ Ended("error").followed = seen.followed
          /\ Ended("error").responses = seen.responses
      BY <1>2, HearsTheEnd
    <3>2. seen' \in Heard /\ seen'.ends = 1 /\ seen'.redirects = seen.redirects
          /\ seen'.followed = seen.followed + 1 /\ seen'.responses = seen.responses
      BY <2>2, <3>1 DEF Heard
    <3> QED
      BY <2>2, <3>2 DEF Alive
  <2> QED
    BY <1>1, <2>1, <2>2 DEF FollowRedirect, Detach
<1>5. NetInv'
  BY <1>2, <1>4 DEF NetInv, Heard
<1>6. LoaderInv'
  BY <1>1, <1>3, <1>4 DEF LoaderInv
<1>7. JobInv'
  <2>1. job[hop + 1] = "none"
    BY <1>1 DEF JobInv
  <2>2. \A h \in Hops : job'[h] # "none" => h <= hop'
    BY <1>1 DEF JobInv, Hops
  <2> QED
    BY <1>1, <2>1, <2>2 DEF JobInv
<1>8. UiInv'
  <2>1. \E t \in {"initialize", "release"} :
          /\ ui' = ui \o <<Task("release", hop), Task(t, hop + 1)>>
          /\ t = "release" => ~Alive'
    BY DEF FollowRedirect, Alive
  <2>2. PICK t \in {"initialize", "release"} :
          /\ ui' = ui \o <<Task("release", hop), Task(t, hop + 1)>>
          /\ t = "release" => ~Alive'
    BY <2>1
  <2>3. /\ Task("release", hop) \in UiTasks /\ Task(t, hop + 1) \in UiTasks
        /\ Task("release", hop).hop = hop /\ Task(t, hop + 1).hop = hop'
        /\ Task(t, hop + 1).task = t
    BY <1>1 DEF Task, UiTasks
  <2>4. ui \in Seq(UiTasks)
    BY DEF UiInv
  <2>5. /\ ui' \in Seq(UiTasks)
        /\ \A i \in 1 .. Len(ui') : \/ i \in 1 .. Len(ui) /\ ui'[i] = ui[i]
                                    \/ ui'[i] = Task("release", hop)
                                    \/ ui'[i] = Task(t, hop + 1)
    <3> HIDE DEF RequestInv, Kept, Task, UiTasks
    <3> QED
      BY <2>2, <2>3, <2>4
  <2>6. \A i \in 1 .. Len(ui) : ui[i].hop <= hop /\ ui[i].hop \in Nat
    <3> SUFFICES ASSUME NEW i \in 1 .. Len(ui) PROVE ui[i].hop <= hop /\ ui[i].hop \in Nat
      OBVIOUS
    <3>1. ui[i] \in UiTasks /\ ui[i].hop <= hop
      BY DEF UiInv
    <3> QED
      BY <3>1 DEF UiTasks, Hops
  <2>7. \A i \in 1 .. Len(ui') : ui'[i].hop <= hop'
    BY <1>1, <2>3, <2>5, <2>6
  <2>8. Alive' => \A i \in 1 .. Len(ui') : ui'[i].task = "release" => ui'[i].hop < hop'
    BY <1>1, <2>2, <2>3, <2>5, <2>6
  <2> QED
    BY <2>5, <2>7, <2>8 DEF UiInv
<1>9. IoInv'
  <2>1. \A i \in 1 .. Len(io) : io[i].task # "start"
    BY <1>1, <1>2, NoStart DEF JobInv
  <2> QED
    BY <1>1, <2>1 DEF IoInv
<1>10. Stream!Next
  BY <1>2, <1>4 DEF Stream!Next, Stream!Follow, Heard
<1> QED
  BY <1>5, <1>6, <1>7, <1>8, <1>9, <1>10

\* The network stack reads or gives up.
LEMMA KeptByNet ==
  ASSUME JobConstants, RequestInv, OnConnectionError \/ Consume \/ CloseConsumer
  PROVE  Kept
<1> USE DEF Kept
<1>1. CASE OnConnectionError
  <2>1. /\ Alive /\ io' = io /\ io # <<Task("start", 1)>>
        /\ UNCHANGED <<hop, started, job, said>> /\ client' = client \ {hop} /\ m_device' = FALSE
        /\ reading' = FALSE /\ armed' = FALSE /\ loader' = "deleted"
        /\ ui' = Append(ui, Task("release", hop)) /\ seen' = Ended("cancelled")
    BY <1>1 DEF OnConnectionError, Complete, Clear, Release
  <2> QED
    BY <2>1, Completes
<1>2. CASE Consume \/ CloseConsumer
  <2>1. UNCHANGED <<seen, loader, hop, started, client, job, said, ui, m_device, io, reading, armed>>
    BY <1>2 DEF Consume, CloseConsumer, appVars, loaderVars
  <2>2. (reading => Alive /\ job[hop] = "live") /\ (armed => m_device)
    BY DEF RequestInv, LoaderInv
  <2> QED
    BY <2>1, <2>2, Quiet
<1> QED
  BY <1>1, <1>2

\* Every step keeps the invariant and implements the stream.
LEMMA StepKeeps == ASSUME JobConstants, RequestInv, [Next]_vars PROVE Kept
<1>1. CASE IoStep
  BY <1>1, KeptByStart, KeptByCalls, KeptByData, KeptByReplyServed, KeptByRedirect, KeptByFailures
  DEF IoStep
<1>2. CASE UiStep
  BY <1>2, KeptByUi DEF UiStep
<1>3. CASE AppStep
  BY <1>3, KeptByApp DEF AppStep
<1>4. CASE NetStep
  BY <1>4, KeptByFollow, KeptByNet DEF NetStep
<1>5. CASE UNCHANGED vars
  <2>1. UNCHANGED <<seen, loader, hop, started, client, job, said, ui, m_device, io, reading, armed>>
    BY <1>5 DEF vars, appVars, loaderVars
  <2>2. (reading => Alive /\ job[hop] = "live") /\ (armed => m_device)
    BY DEF RequestInv, LoaderInv
  <2> QED
    BY <2>1, <2>2, Quiet DEF Kept
<1> QED
  BY <1>1, <1>2, <1>3, <1>4, <1>5 DEF Next

\* A request that has just started.
LEMMA InitialRequest == ASSUME JobConstants, Init PROVE RequestInv /\ Stream!Init
<1> USE DEF Init
<1>1. 1 \in Hops /\ hop = 1 /\ Alive
  BY DEF Hops, JobConstants, Alive
<1>2. NetInv
  BY DEF NetInv, Heard, Alive
<1>3. LoaderInv
  BY <1>1 DEF LoaderInv
<1>4. JobInv
  BY <1>1 DEF JobInv
<1>5. UiInv
  BY DEF UiInv
<1>6. IoInv
  <2>1. Task("start", 1) \in IoTasks /\ Task("start", 1).task = "start"
    BY <1>1 DEF Task, IoTasks
  <2>2. /\ io \in Seq(IoTasks)
        /\ \A i \in 1 .. Len(io) : io[i].task = "start" /\ i = 1
    <3> HIDE DEF Task, IoTasks
    <3> QED
      BY <2>1
  <2> QED
    BY <1>1, <2>2 DEF IoInv, Once
<1>7. Stream!Init
  BY DEF Stream!Init
<1> QED
  BY <1>2, <1>3, <1>4, <1>5, <1>6, <1>7 DEF RequestInv

-----------------------------------------------------------------------------
(* The inductive invariant holds of every request.                         *)
THEOREM RequestInvariant == Safety => []RequestInv
<1>1. Init => RequestInv
  BY JobConstants, InitialRequest
<1>2. RequestInv /\ [Next]_vars => RequestInv'
  BY JobConstants, StepKeeps DEF Kept
<1> QED
  BY <1>1, <1>2, PTL DEF Safety

(* The IO thread uses the application's device only while the job it was   *)
(* given to exists on the UI thread.                                       *)
THEOREM DeviceIsOutlived == Safety => []DeviceOutlivesUse
<1>1. RequestInv => DeviceOutlivesUse
  BY DEF RequestInv, LoaderInv, DeviceOutlivesUse
<1> QED
  BY <1>1, RequestInvariant, PTL

(* Late calls of the application reach no loader but the one whose current *)
(* job they are made on, and none that has deleted itself.                 *)
THEOREM OnlyTheLoaderIsClient == Safety => []ClientIsLoader
<1>1. RequestInv => ClientIsLoader
  BY DEF RequestInv, LoaderInv, ClientIsLoader
<1> QED
  BY <1>1, RequestInvariant, PTL

(* What the network stack hears of a request refines LoaderStream:         *)
(* redirects, at most one response and one completion, then nothing.       *)
THEOREM ProtocolIsKept == Safety => LoaderKeepsProtocol
<1>1. Init => Stream!Init
  BY JobConstants, InitialRequest
<1>2. RequestInv /\ [Next]_vars => [Stream!Next]_Stream!vars
  BY JobConstants, StepKeeps DEF Kept
<1> QED
  BY <1>1, <1>2, RequestInvariant, PTL DEF Safety, LoaderKeepsProtocol, Stream!Safety
-----------------------------------------------------------------------------
(* What is handed over.  The device stands where what was read of it ends, *)
(* what was announced lies within the device, and a success stays one.     *)
Devices == [kind : {"none", "random", "stream", "socket", "unreadable"}, arrived : 0 .. Size,
            ended : BOOLEAN, open : BOOLEAN, pos : 0 .. Size]
DeviceInv(d) ==
  /\ d \in Devices
  /\ d.ended => d.arrived = Size
  /\ d.pos <= HasArrived(d)

AnnouncedInv ==
  served # <<>> =>
    /\ hop \in started
    /\ served \in Nat \X Nat /\ served[1] <= served[2] /\ served[2] < Size

Sought == IF device.kind = "random" /\ Len(range) = 2 /\ served # <<>> THEN served[1] ELSE 0
PositionInv ==
  m_device => /\ device.pos = got + Sought
              /\ device.kind = "random" /\ served = <<>> => Len(range) = 0

SuccessInv ==
  seen.result = "ok" =>
    /\ seen.responses = 1 /\ ~Alive /\ hop \in started
    /\ IF served # <<>> THEN got >= served[2] - served[1] + 1
       ELSE got = Size /\ (device.kind # "random" => device.ended)

DataInv ==
  /\ range \in Ranges /\ pipe \in 0 .. Capacity /\ got \in Nat
  /\ DeviceInv(device) /\ AnnouncedInv /\ PositionInv /\ SuccessInv
  /\ seen.responses = 0 => got = 0 /\ served = <<>>
  /\ \A h \in 1 .. hop - 1 : said[h] # {}

(* A step that reads nothing of the device.                                *)
SameDevice ==
  /\ device' \in Devices
  /\ device'.kind = device.kind /\ device'.arrived = device.arrived
  /\ device'.ended = device.ended /\ device'.pos = device.pos
StillSaid ==
  /\ \A h \in Hops : said[h] # {} => said'[h] # {}
  /\ hop' = hop \/ (hop' = hop + 1 /\ said[hop] # {} /\ seen.responses = 0)
  /\ started \subseteq started'
NoNews ==
  /\ seen'.responses = 0 => seen.responses = 0
  /\ seen'.result = "ok" => seen' = seen /\ hop' = hop /\ started \subseteq started' /\ loader' = loader

\* Steps that hand over no data.
LEMMA ReadsNothing ==
  ASSUME JobConstants, DataInv, hop \in Hops, SameDevice, StillSaid, NoNews,
         UNCHANGED <<range, served, got>>, pipe' \in 0 .. Capacity, m_device' => m_device
  PROVE  DataInv'
<1> USE DEF DataInv
<1>1. DeviceInv(device')
  BY DEF DeviceInv, SameDevice, HasArrived
<1>2. AnnouncedInv'
  BY DEF AnnouncedInv, SameDevice, StillSaid
<1>3. PositionInv'
  BY DEF PositionInv, Sought, SameDevice
<1>4. SuccessInv'
  BY DEF SuccessInv, Alive, SameDevice, NoNews
<1>5. seen'.responses = 0 => got' = 0 /\ served' = <<>>
  BY DEF NoNews
<1>6. \A h \in 1 .. hop' - 1 : said'[h] # {}
  <2>1. hop \in Nat /\ \A h \in 1 .. hop - 1 : h \in Hops
    BY DEF Hops, JobConstants
  <2> QED
    BY <2>1 DEF StillSaid
<1> QED
  BY <1>1, <1>2, <1>3, <1>4, <1>5, <1>6

\* The result of an end is kept.
LEMMA EndResult ==
  ASSUME seen \in Heard, NEW r
  PROVE  /\ Ended(r).result = r /\ Ended(r).responses = seen.responses
         /\ Responded(Ended(r)).result = r
         /\ [Ended(r) EXCEPT !.followed = @ + 1].result = r
         /\ [Ended(r) EXCEPT !.followed = @ + 1].responses = seen.responses
  BY DEF Ended, Responded, Heard

\* Opening the device moves nothing in it.
LEMMA OpenedDevice ==
  ASSUME DeviceInv(device), NEW d,
         d = device \/ \E b \in BOOLEAN : d = [device EXCEPT !.open = b]
  PROVE  /\ d \in Devices
         /\ d.kind = device.kind /\ d.arrived = device.arrived
         /\ d.ended = device.ended /\ d.pos = device.pos
  BY DEF DeviceInv, Devices

(* Whatever ends a request but its success.                                *)
LEMMA DataOfAnEnd ==
  ASSUME JobConstants, RequestInv, DataInv, Alive, NEW r \in {"error", "cancelled"}, Clear,
         seen' = Ended(r) \/ (seen' = Responded(Ended(r)) /\ seen.responses = 0),
         UNCHANGED <<range, served, got, pipe, hop, said, started>>
  PROVE  DataInv'
<1>1. hop \in Hops /\ seen \in Heard
  BY DEF RequestInv, LoaderInv, NetInv
<1>2. SameDevice
  <2>1. (device.open /\ ~m_device) \in BOOLEAN
    OBVIOUS
  <2>2. device' = [device EXCEPT !.open = device.open /\ ~m_device]
    BY DEF Clear
  <2> QED
    BY <2>1, <2>2, OpenedDevice DEF DataInv, SameDevice
<1>3. NoNews
  <2>1. seen'.result = r
    BY <1>1, EndResult
  <2>2. seen'.responses = 0 => seen.responses = 0
    BY <1>1, EndResult
  <2> QED
    BY <2>1, <2>2 DEF NoNews
<1>4. pipe' \in 0 .. Capacity /\ m_device' = FALSE
  BY DEF DataInv, Clear
<1>5. StillSaid
  BY DEF StillSaid
<1> QED
  BY <1>1, <1>2, <1>3, <1>4, <1>5, ReadsNothing

(* Steps that neither end the request nor touch the device.                *)
LEMMA DataOfQuiet ==
  ASSUME JobConstants, RequestInv, DataInv, NoNews,
         device' = device \/ device' = [device EXCEPT !.open = @ /\ ~m_device],
         \A h \in Hops : said[h] # {} => said'[h] # {}, started \subseteq started',
         pipe' \in 0 .. Capacity, UNCHANGED <<range, served, got, hop, m_device>>
  PROVE  DataInv'
<1>1. hop \in Hops
  BY DEF RequestInv, LoaderInv
<1>2. SameDevice
  <2>1. (device.open /\ ~m_device) \in BOOLEAN
    OBVIOUS
  <2> QED
    BY <2>1, OpenedDevice DEF DataInv, SameDevice
<1>3. StillSaid
  BY DEF StillSaid
<1> QED
  BY <1>1, <1>2, <1>3, ReadsNothing

\* Calls that hand over no data.
LEMMA DataOfCalls ==
  ASSUME JobConstants, RequestInv, DataInv, NEW h \in Hops,
         Ignored \/ Succeed \/ ReadyRead(h) \/ Redirect(h) \/ (Fail(h) /\ h \in started)
  PROVE  DataInv'
<1>1. UNCHANGED <<range, served, got, hop, m_device, said, pipe, loader>>
  BY DEF Ignored, Succeed, ReadyRead, Redirect, Fail, FailsOnNextRead, appVars, loaderVars, pipeVars
<1>2. device' = device \/ device' = [device EXCEPT !.open = @ /\ ~m_device]
  BY DEF Ignored, Succeed, ReadyRead, Redirect, Fail, FailsOnNextRead, appVars
<1>3. pipe' \in 0 .. Capacity /\ started \subseteq started'
  BY <1>1 DEF DataInv, Ignored, Succeed, ReadyRead, Redirect, Fail, loaderVars
<1>4. NoNews
  <2>1. CASE UNCHANGED <<seen, started>>
    BY <1>1, <2>1 DEF NoNews
  <2>2. CASE /\ started' = started \cup {h} /\ seen' = [seen EXCEPT !.redirects = @ + 1]
             /\ Redirect(h)
    <3>1. seen \in Heard /\ seen.responses = 0 /\ Alive
      BY <2>2, Received DEF Redirect, Once, RequestInv, NetInv
    <3>2. seen'.responses = 0 /\ seen'.result = seen.result
      BY <2>2, <3>1 DEF Heard
    <3>3. seen.result # "ok"
      BY <3>1 DEF DataInv, SuccessInv
    <3> QED
      BY <3>1, <3>2, <3>3 DEF NoNews
  <2> QED
    BY <2>1, <2>2 DEF Ignored, Succeed, ReadyRead, Redirect, Fail, appVars, loaderVars
<1> QED
  BY <1>1, <1>2, <1>3, <1>4, DataOfQuiet

\* Tasks that hand over no data.
LEMMA DataOfThreads ==
  ASSUME JobConstants, RequestInv, DataInv,
         Initialize \/ ReleaseJob \/ Consume \/ CloseConsumer
  PROVE  DataInv'
<1>1. UNCHANGED <<range, served, got, hop, m_device, said, device, loader, seen, started>>
  BY DEF Initialize, ReleaseJob, Consume, CloseConsumer, appVars, loaderVars, pipeVars
<1>2. pipe' \in 0 .. Capacity
  BY DEF Initialize, ReleaseJob, Consume, CloseConsumer, pipeVars, DataInv, JobConstants
<1>3. NoNews /\ started \subseteq started'
  BY <1>1 DEF NoNews
<1> QED
  BY <1>1, <1>2, <1>3, DataOfQuiet

\* The device gets data or comes to its end.
LEMMA MoreArrives ==
  ASSUME JobConstants, NEW d, DeviceInv(d), d.kind # "random", ~d.ended, NEW e,
         e = IF d.arrived < Size THEN [d EXCEPT !.arrived = @ + 1] ELSE [d EXCEPT !.ended = TRUE]
  PROVE  DeviceInv(e) /\ e.kind = d.kind /\ e.pos = d.pos
<1>1. d \in Devices /\ d.pos <= d.arrived
  BY DEF DeviceInv, HasArrived
<1>2. CASE d.arrived < Size
  <2>1. e \in Devices /\ e.kind = d.kind /\ e.pos = d.pos /\ e.ended = d.ended /\ e.arrived = d.arrived + 1
    BY <1>1, <1>2 DEF Devices, JobConstants
  <2> QED
    BY <1>1, <2>1 DEF DeviceInv, HasArrived, Devices
<1>3. CASE ~(d.arrived < Size)
  <2>0. e = [d EXCEPT !.ended = TRUE] /\ d.arrived \in 0 .. Size
    BY <1>1, <1>3 DEF Devices
  <2>1. e \in Devices /\ e.kind = d.kind /\ e.pos = d.pos /\ e.arrived = d.arrived
    BY <1>1, <2>0 DEF Devices
  <2>2. d.arrived = Size
    BY <1>3, <2>0 DEF JobConstants
  <2> QED
    BY <1>1, <2>1, <2>2 DEF DeviceInv, HasArrived
<1> QED
  BY <1>2, <1>3

(* The device that an answer brings finds a job that has not started.      *)
LEMMA DataOfApp ==
  ASSUME JobConstants, RequestInv, DataInv, NEW h \in Hops, Answer(h) \/ Arrive(h)
  PROVE  DataInv'
<1>0. /\ JobInv /\ LoaderInv /\ NetInv /\ hop \in Hops /\ h \in Nat /\ hop \in Nat
  BY DEF RequestInv, LoaderInv, Hops, JobConstants
<1>1. /\ UNCHANGED <<range, served, got, hop, m_device, pipe, loader, seen, started>>
      /\ job[h] = "live"
  BY DEF Answer, ReplyJob, ReplyNull, RedirectJob, FailJob, Say, Arrive, loaderVars, pipeVars
<1>2. pipe' \in 0 .. Capacity /\ NoNews
  BY <1>1 DEF DataInv, NoNews
<1>3. \A g \in Hops : said[g] # {} => said'[g] # {}
  <2>1. said' = said \/ \E c \in {"reply", "null", "redirect", "fail"} :
                          said' = [said EXCEPT ![h] = @ \cup {c}]
    BY DEF Answer, ReplyJob, ReplyNull, RedirectJob, FailJob, Say, Arrive
  <2> QED
    BY <1>0, <2>1 DEF JobInv
<1>4. CASE ReplyNull(h) \/ RedirectJob(h) \/ FailJob(h)
  <2>1. device' = device
    BY <1>4 DEF ReplyNull, RedirectJob, FailJob
  <2> QED
    BY <1>1, <1>2, <1>3, <2>1, DataOfQuiet
<1>5. \A g \in 1 .. hop' - 1 : said'[g] # {}
  BY <1>0, <1>1, <1>3 DEF DataInv, Hops, JobConstants
<1>6. CASE ReplyJob(h)
  <2>1. said[h] = {}
    BY <1>6 DEF ReplyJob
  <2>2. h = hop
    BY <1>0, <1>1, <2>1 DEF JobInv, DataInv, Hops
  <2>3. hop \notin started
    BY <1>0, <2>1, <2>2 DEF JobInv
  <2>4. ~m_device /\ seen.result # "ok" /\ seen.responses \in 0 .. 1
    BY <1>0, <2>3 DEF LoaderInv, NetInv, Heard, DataInv, SuccessInv
  <2>5. PICK k \in {"random", "stream", "socket", "unreadable"} : device' = [NoDevice EXCEPT !.kind = k]
    BY <1>6 DEF ReplyJob
  <2>6. DeviceInv(device')
    <3>1. device' = [kind |-> k, arrived |-> 0, ended |-> FALSE, open |-> FALSE, pos |-> 0]
      BY <2>5 DEF NoDevice
    <3>2. device' \in Devices
      BY <3>1, JobConstants DEF Devices, JobConstants
    <3> QED
      BY <3>1, <3>2, JobConstants DEF DeviceInv, HasArrived, JobConstants
  <2>7. PositionInv' /\ SuccessInv'
    BY <1>1, <2>4 DEF PositionInv, SuccessInv
  <2>8. AnnouncedInv'
    <3>1. served = <<>>
      BY <2>3 DEF DataInv, AnnouncedInv
    <3> QED
      BY <1>1, <3>1 DEF AnnouncedInv
  <2> QED
    BY <1>1, <1>2, <1>5, <2>6, <2>7, <2>8 DEF DataInv
<1>7. CASE Arrive(h)
  <2>1. /\ device.kind \in {"stream", "socket"} /\ ~device.ended /\ said' = said
        /\ device' = IF device.arrived < Size THEN [device EXCEPT !.arrived = @ + 1]
                     ELSE [device EXCEPT !.ended = TRUE]
    BY <1>7 DEF Arrive
  <2>2. /\ DeviceInv(device') /\ device'.kind = device.kind /\ device'.pos = device.pos
    BY <2>1, MoreArrives DEF DataInv
  <2>3. AnnouncedInv' /\ PositionInv'
    BY <1>1, <2>1, <2>2 DEF DataInv, AnnouncedInv, PositionInv, Sought
  <2>4. SuccessInv'
    BY <1>1, <2>1, <2>2 DEF DataInv, SuccessInv, Alive
  <2> QED
    BY <1>1, <1>2, <1>5, <2>2, <2>3, <2>4 DEF DataInv
<1> QED
  BY <1>4, <1>6, <1>7 DEF Answer

(* What is announced of a range lies within what there is, and begins where *)
(* a device that can seek is read from.                                    *)
LEMMA BoundsWithin ==
  ASSUME JobConstants, range \in Ranges, range # <<>>, NEW n \in 1 .. Size, Bounds(n) # <<>>
  PROVE  /\ Bounds(n) \in Nat \X Nat /\ Bounds(n)[1] <= Bounds(n)[2] /\ Bounds(n)[2] < Size
         /\ Len(range) = 2 => range[1] < n /\ Bounds(n)[1] = range[1]
<1>1. /\ range \in Seq(Nat) /\ Len(range) \in 1 .. 2
      /\ (Len(range) = 1 => range[1] > 0) /\ (Len(range) = 2 => range[1] <= range[2])
  BY DEF JobConstants, IsRange
<1>2. CASE Len(range) = 1
  <2>1. Bounds(n) = <<IF range[1] > n THEN 0 ELSE n - range[1], n - 1>> /\ range[1] \in Nat
    BY <1>1, <1>2 DEF Bounds
  <2> QED
    BY <1>1, <1>2, <2>1, JobConstants DEF JobConstants
<1>3. CASE Len(range) = 2
  <2>0. range[1] \in Nat /\ range[2] \in Nat /\ Len(range) # 1
    BY <1>1, <1>3
  <2>1. range[1] \in Nat /\ range[2] \in Nat /\ range[1] < n
    <3>1. range[1] >= n => Bounds(n) = <<>>
      BY <2>0 DEF Bounds
    <3> QED
      BY <2>0, <3>1
  <2>2. Bounds(n) = <<range[1], IF range[2] >= n THEN n - 1 ELSE range[2]>>
    BY <2>0, <2>1 DEF Bounds
  <2> QED
    BY <1>1, <1>3, <2>1, <2>2, JobConstants DEF JobConstants
<1> QED
  BY <1>1, <1>2, <1>3

\* The device, its size and the range are announced.
LEMMA DataOfReplyServed ==
  ASSUME JobConstants, RequestInv, DataInv, NEW h \in Hops, ReplyServed(h)
  PROVE  DataInv'
<1>1. /\ h = hop /\ Alive /\ seen.ends = 0 /\ seen.responses = 0 /\ seen \in Heard
      /\ device.kind # "unreadable"
  BY Received DEF ReplyServed, Once, RequestInv, NetInv
<1>2. /\ started' = started \cup {h} /\ seen' = Responded(seen) /\ m_device' = TRUE
      /\ UNCHANGED <<range, said, hop, loader, pipe, got>>
      /\ device' = [device EXCEPT !.open = TRUE, !.pos = SeekTo(device)]
      /\ served' = IF range # <<>> /\ HasArrived(device) > 0 THEN Bounds(HasArrived(device)) ELSE <<>>
      /\ range # <<>> /\ HasArrived(device) > 0 => Bounds(HasArrived(device)) # <<>>
  BY DEF ReplyServed, pipeVars
<1>3. /\ device \in Devices /\ (device.ended => device.arrived = Size)
      /\ HasArrived(device) \in 0 .. Size /\ (device.kind = "random" => HasArrived(device) = Size)
      /\ Size \in Nat \ {0} /\ got = 0
  BY <1>1 DEF DataInv, DeviceInv, Devices, HasArrived, JobConstants
<1>4. range \in Ranges /\ range \in Seq(Nat) /\ Len(range) \in 0 .. 2 /\ (range = <<>> => Len(range) = 0)
  BY DEF DataInv, JobConstants, IsRange
<1>5. SeekTo(device) \in 0 .. Size /\ SeekTo(device) <= HasArrived(device)
  BY <1>3, <1>4 DEF SeekTo
<1>6. /\ device' \in Devices /\ device'.kind = device.kind /\ device'.arrived = device.arrived
      /\ device'.ended = device.ended /\ device'.pos = SeekTo(device)
  BY <1>2, <1>3, <1>5 DEF Devices
<1>7. DeviceInv(device')
  BY <1>3, <1>5, <1>6 DEF DeviceInv, HasArrived
<1>8. /\ served' # <<>> =>
           /\ served' \in Nat \X Nat /\ served'[1] <= served'[2] /\ served'[2] < Size
           /\ Len(range) = 2 => range[1] < HasArrived(device) /\ served'[1] = range[1]
      /\ served' = <<>> /\ HasArrived(device) > 0 => range = <<>>
  BY <1>2, <1>3, <1>4, BoundsWithin
<1>9. AnnouncedInv'
  BY <1>1, <1>2, <1>8 DEF AnnouncedInv
<1>10. PositionInv'
  <2>1. SeekTo(device) = IF device.kind = "random" /\ Len(range) = 2 /\ served' # <<>> THEN served'[1] ELSE 0
    BY <1>3, <1>4, <1>8 DEF SeekTo
  <2>2. device.kind = "random" /\ served' = <<>> => Len(range) = 0
    BY <1>3, <1>4, <1>8
  <2>3. Sought' = SeekTo(device)
    BY <1>2, <1>6, <2>1 DEF Sought
  <2> QED
    BY <1>2, <1>3, <1>5, <1>6, <2>2, <2>3 DEF PositionInv
<1>11. seen'.responses = 1 /\ seen'.result = seen.result
  BY <1>1, <1>2 DEF Responded, Heard
<1>12. seen.result # "ok"
  BY <1>1 DEF DataInv, SuccessInv
<1> QED
  BY <1>2, <1>3, <1>7, <1>9, <1>10, <1>11, <1>12 DEF DataInv, SuccessInv

(* A round of reading.                                                     *)
LEMMA ChunkFits ==
  ASSUME JobConstants, DataInv, pipe # Capacity
  PROVE  /\ Chunk \in Nat /\ pipe + Chunk \in 0 .. Capacity
         /\ device.pos \in Nat /\ HasArrived(device) \in 0 .. Size
         /\ device.pos + Chunk <= HasArrived(device)
         /\ Chunk = 0 => device.pos = HasArrived(device)
<1>1. /\ Capacity - pipe \in Nat \ {0} /\ pipe \in Nat /\ Capacity \in Nat /\ Size \in Nat
      /\ HasArrived(device) \in 0 .. Size /\ device.pos \in Nat /\ device.pos <= HasArrived(device)
  BY DEF DataInv, DeviceInv, Devices, HasArrived, JobConstants
<1>2. Available \in Nat /\ device.pos + Available = HasArrived(device)
  BY <1>1 DEF Available
<1>3. Length \in Nat
  <2>1. CASE served = <<>>
    BY <2>1 DEF Length
  <2>2. CASE served # <<>>
    BY <2>2 DEF Length, DataInv, AnnouncedInv
  <2> QED
    BY <2>1, <2>2
<1>4. Limit(Capacity - pipe) \in 1 .. Capacity - pipe
  BY <1>1, <1>3 DEF Limit, Least
<1>5. Chunk \in Nat /\ Chunk <= Capacity - pipe /\ Chunk <= Available /\ (Chunk = 0 => Available = 0)
  BY <1>1, <1>2, <1>4 DEF Chunk, Least
<1> HIDE DEF Chunk, Available, Limit, Length, HasArrived
<1> QED
  BY <1>1, <1>2, <1>5

\* When the loader is done, all that was announced is in the pipe.
LEMMA DoneIsComplete ==
  ASSUME JobConstants, DataInv, m_device, pipe # Capacity, Done(Chunk)
  PROVE  IF served # <<>> THEN got + Chunk >= served[2] - served[1] + 1
         ELSE got + Chunk = Size /\ (device.kind # "random" => device.ended)
<1>1. /\ Chunk \in Nat /\ got \in Nat /\ device.pos \in Nat
      /\ Chunk = 0 => device.pos = HasArrived(device)
  BY ChunkFits DEF DataInv
<1>2. /\ device.pos = got + Sought
      /\ device.kind = "random" /\ served = <<>> => Len(range) = 0
      /\ device.ended => device.arrived = Size
      /\ served # <<>> => served[1] \in Nat /\ served[2] \in Nat /\ served[1] <= served[2] /\ served[2] < Size
      /\ Size \in Nat
  BY DEF DataInv, PositionInv, AnnouncedInv, DeviceInv, JobConstants
<1>3. Sought = 0 \/ (served # <<>> /\ device.kind = "random" /\ Sought = served[1])
  BY DEF Sought
<1> HIDE DEF Chunk, Sought
<1>4. CASE device.kind = "random" /\ device.pos + Chunk = Size
  BY <1>1, <1>2, <1>3, <1>4
<1>5. CASE Length > 0 /\ got + Chunk >= Length
  BY <1>5 DEF Length
<1>6. CASE Chunk = 0 /\ device.kind # "random" /\ device.ended
  <2>1. device.pos = Size /\ Sought = 0
    BY <1>1, <1>2, <1>3, <1>6 DEF HasArrived
  <2> QED
    BY <1>1, <1>2, <1>6, <2>1
<1> QED
  BY <1>4, <1>5, <1>6 DEF Done

\* One round of reading.
LEMMA DataOfReading ==
  ASSUME JobConstants, RequestInv, DataInv, ReadRound PROVE DataInv'
<1>1. /\ reading /\ Alive /\ (m_device => seen.responses = 1) /\ seen \in Heard
      /\ seen.responses = 1 => hop \in started
  BY DEF ReadRound, RequestInv, LoaderInv, NetInv
<1>2. UNCHANGED <<range, said, job>>
  BY DEF ReadRound
<1>3. CASE Complete("error")
  BY <1>1, <1>2, <1>3, DataOfAnEnd DEF Complete, pipeVars
<1>4. CASE m_device /\ consumer /\ ~m_error /\ pipe = Capacity
  <2>1. UNCHANGED <<device, hop, m_device, served, pipe, got, seen, started, loader>>
    BY <1>4, <1>1 DEF ReadRound, pipeVars, Complete, Clear
  <2>2. NoNews /\ pipe' \in 0 .. Capacity
    BY <2>1 DEF NoNews, DataInv
  <2> QED
    BY <1>2, <2>1, <2>2, DataOfQuiet
<1>5. CASE m_device /\ pipe # Capacity /\ ~Complete("error")
  <2>1. /\ pipe' = pipe + Chunk /\ got' = got + Chunk
        /\ UNCHANGED <<range, said, hop, started, served>>
        /\ \/ /\ Done(Chunk) /\ seen' = Ended("ok") /\ m_device' = FALSE /\ loader' = "deleted"
              /\ device' = [device EXCEPT !.pos = @ + Chunk, !.open = FALSE]
           \/ /\ device' = [device EXCEPT !.pos = @ + Chunk] /\ UNCHANGED <<seen, m_device>>
    BY <1>2, <1>5 DEF ReadRound
  <2>2. /\ Chunk \in Nat /\ pipe + Chunk \in 0 .. Capacity /\ HasArrived(device) \in 0 .. Size
        /\ device.pos \in Nat /\ device.pos + Chunk <= HasArrived(device) /\ Size \in Nat
    BY <1>5, ChunkFits DEF JobConstants
  <2>3. Done(Chunk) => IF served # <<>> THEN got + Chunk >= served[2] - served[1] + 1
                       ELSE got + Chunk = Size /\ (device.kind # "random" => device.ended)
    BY <1>5, DoneIsComplete
  <2> HIDE DEF Chunk, Done
  <2>4. /\ device' \in Devices /\ device'.kind = device.kind /\ device'.arrived = device.arrived
        /\ device'.ended = device.ended /\ device'.pos = device.pos + Chunk
    <3>1. device \in Devices /\ device.pos + Chunk \in 0 .. Size
      BY <2>2 DEF DataInv, DeviceInv
    <3> QED
      BY <2>1, <3>1 DEF Devices
  <2>5. DeviceInv(device')
    BY <2>2, <2>4 DEF DataInv, DeviceInv, HasArrived
  <2>6. AnnouncedInv'
    BY <2>1 DEF DataInv, AnnouncedInv
  <2>7. PositionInv'
    <3>1. Sought' = Sought /\ got \in Nat /\ Sought \in Nat
      BY <2>1, <2>4 DEF Sought, DataInv, AnnouncedInv
    <3>2. device.pos = got + Sought /\ (device.kind = "random" /\ served = <<>> => Len(range) = 0)
      BY <1>5 DEF DataInv, PositionInv
    <3> HIDE DEF Sought
    <3> QED
      BY <2>1, <2>2, <2>4, <3>1, <3>2 DEF PositionInv
  <2>8. seen'.responses = seen.responses /\ seen.result # "ok"
    BY <1>1, <2>1, EndResult DEF DataInv, SuccessInv
  <2>9. SuccessInv'
    <3>1. CASE seen' = seen
      BY <2>8, <3>1 DEF SuccessInv
    <3>2. CASE Done(Chunk) /\ seen' = Ended("ok") /\ loader' = "deleted"
      BY <1>1, <1>5, <2>1, <2>3, <2>4, <2>8, <3>2 DEF SuccessInv, Alive
    <3> QED
      BY <2>1, <3>1, <3>2
  <2> QED
    BY <1>1, <1>5, <2>1, <2>2, <2>5, <2>6, <2>7, <2>8, <2>9 DEF DataInv
<1> QED
  BY <1>3, <1>4, <1>5 DEF ReadRound

(* What ends the request but its success, and what follows a redirect.     *)
LEMMA DataOfEnds ==
  ASSUME JobConstants, RequestInv, DataInv, NEW h \in Hops,
         \/ Start \/ ReplyUnsatisfiable(h) \/ ReplyUnreadable(h) \/ (Fail(h) /\ h \notin started)
         \/ ReadyWrite \/ OnConnectionError
  PROVE  DataInv'
<1>0. hop \in Hops /\ NetInv /\ LoaderInv
  BY DEF RequestInv, LoaderInv
<1>1. CASE Start
  <2>1. Alive /\ UNCHANGED <<range, said>>
    <3>1. io # <<>> /\ io \in Seq(IoTasks) /\ io[1].task = "start" /\ 1 \in 1 .. Len(io)
      BY <1>1, TailTask DEF Start, IoTask, RequestInv, IoInv
    <3> QED
      BY <1>1, <3>1 DEF RequestInv, IoInv, Start
  <2>2. CASE Complete("error")
    BY <2>1, <2>2, DataOfAnEnd DEF Complete, pipeVars
  <2>3. CASE UNCHANGED <<device, loaderVars, pipeVars, seen, failed>>
    <3>1. UNCHANGED <<device, hop, m_device, served, pipe, got, seen, started, loader>>
      BY <2>3 DEF loaderVars, pipeVars
    <3>2. NoNews /\ pipe' \in 0 .. Capacity
      BY <3>1 DEF NoNews, DataInv
    <3> QED
      BY <2>1, <3>1, <3>2, DataOfQuiet
  <2> QED
    BY <1>1, <2>2, <2>3 DEF Start
<1>2. CASE ReplyUnsatisfiable(h)
  <2>1. Alive
    BY <1>2, Received DEF ReplyUnsatisfiable
  <2> QED
    BY <1>2, <2>1, DataOfAnEnd DEF ReplyUnsatisfiable, pipeVars
<1>3. CASE ReplyUnreadable(h)
  <2>1. Alive /\ seen.responses = 0
    BY <1>3, Received DEF ReplyUnreadable, Once
  <2> QED
    BY <1>3, <2>1, DataOfAnEnd DEF ReplyUnreadable, StartFailure, pipeVars
<1>4. CASE Fail(h) /\ h \notin started
  <2>1. Alive /\ seen.responses = 0
    BY <1>4, Received DEF Fail
  <2> QED
    BY <1>4, <2>1, DataOfAnEnd DEF Fail, StartFailure, pipeVars
<1>5. CASE ReadyWrite
  <2>1. armed /\ Alive /\ UNCHANGED <<range, said>>
    BY <1>0, <1>5 DEF ReadyWrite, LoaderInv
  <2>2. CASE Complete("error")
    BY <2>1, <2>2, DataOfAnEnd DEF Complete, pipeVars
  <2>3. CASE consumer
    <3>1. UNCHANGED <<device, hop, m_device, served, pipe, got, seen, started, loader>>
      BY <1>5, <2>3 DEF ReadyWrite, pipeVars
    <3>2. NoNews /\ pipe' \in 0 .. Capacity
      BY <3>1 DEF NoNews, DataInv
    <3> QED
      BY <2>1, <3>1, <3>2, DataOfQuiet
  <2> QED
    BY <1>5, <2>2, <2>3 DEF ReadyWrite
<1>6. CASE OnConnectionError
  BY <1>6, DataOfAnEnd DEF OnConnectionError, Complete, pipeVars
<1> QED
  BY <1>1, <1>2, <1>3, <1>4, <1>5, <1>6

\* A redirect that is followed starts with nothing handed over.
LEMMA DataOfFollow ==
  ASSUME JobConstants, RequestInv, DataInv, FollowRedirect PROVE DataInv'
<1>1. /\ hop \in Hops /\ seen \in Heard /\ seen.responses = 0 /\ hop \in started /\ said[hop] # {}
      /\ Alive
  BY DEF FollowRedirect, RequestInv, NetInv, LoaderInv, JobInv, Heard
<1>2. /\ UNCHANGED <<range, served, got, pipe, m_device, device, said, started>>
      /\ hop' = hop + 1
  BY DEF FollowRedirect, appVars, pipeVars
<1>3. SameDevice /\ StillSaid /\ pipe' \in 0 .. Capacity
  BY <1>1, <1>2 DEF SameDevice, StillSaid, DataInv, DeviceInv
<1>4. NoNews
  <2>1. CASE seen' = [seen EXCEPT !.followed = @ + 1]
    <3>1. seen'.result = seen.result /\ seen.result # "ok"
      BY <1>1, <2>1 DEF Heard, DataInv, SuccessInv
    <3> QED
      BY <1>1, <3>1 DEF NoNews
  <2>2. CASE seen' = [Ended("error") EXCEPT !.followed = @ + 1]
    BY <1>1, <2>2, EndResult DEF NoNews
  <2> QED
    BY <2>1, <2>2 DEF FollowRedirect
<1> QED
  BY <1>1, <1>2, <1>3, <1>4, ReadsNothing

\* Every step keeps the data invariant.
LEMMA StepKeepsData == ASSUME JobConstants, RequestInv, DataInv, [Next]_vars PROVE DataInv'
<1>1. CASE IoStep
  BY <1>1, 1 \in Hops, DataOfEnds, DataOfCalls, DataOfReading, DataOfReplyServed
  DEF IoStep, Hops, JobConstants
<1>2. CASE UiStep
  BY <1>2, DataOfThreads DEF UiStep
<1>3. CASE AppStep
  BY <1>3, DataOfApp DEF AppStep
<1>4. CASE NetStep
  BY <1>4, 1 \in Hops, DataOfFollow, DataOfEnds, DataOfThreads DEF NetStep, Hops, JobConstants
<1>5. CASE UNCHANGED vars
  <2>1. UNCHANGED <<range, served, got, pipe, m_device, device, said, hop, started, seen, loader>>
    BY <1>5 DEF vars, appVars, pipeVars, loaderVars
  <2> QED
    BY <2>1, DataOfQuiet DEF NoNews, DataInv
<1> QED
  BY <1>1, <1>2, <1>3, <1>4, <1>5 DEF Next

\* Nothing is announced yet.
LEMMA InitialData == ASSUME JobConstants, Init PROVE DataInv
<1>1. /\ device \in Devices /\ device.ended = FALSE /\ device.pos = 0
      /\ HasArrived(device) = 0
  BY DEF Init, NoDevice, Devices, HasArrived, JobConstants
<1> QED
  BY <1>1 DEF Init, DataInv, DeviceInv, AnnouncedInv, PositionInv, SuccessInv, JobConstants

(* A request completes as a success only when all that was announced has   *)
(* been handed over: however the arriving data, the full pipe and the end  *)
(* of the device interleave, and whichever range was asked for; and the    *)
(* range of a buffer is read from where it starts.                         *)
THEOREM SuccessIsComplete == Safety => []OkIsComplete
<1>1. Init => DataInv
  BY JobConstants, InitialData
<1>2. RequestInv /\ DataInv /\ [Next]_vars => DataInv'
  BY JobConstants, StepKeepsData
<1>3. DataInv => OkIsComplete
  <2> SUFFICES ASSUME DataInv PROVE OkIsComplete
    OBVIOUS
  <2>1. got \in Nat /\ (served # <<>> => served[1] \in Nat)
    BY DEF DataInv, AnnouncedInv
  <2>2. StartsAtRange
    BY <2>1 DEF StartsAtRange, DataInv, PositionInv, Sought
  <2> QED
    BY <2>2 DEF OkIsComplete, DataInv, SuccessInv
<1> QED
  BY <1>1, <1>2, <1>3, RequestInvariant, PTL DEF Safety
=============================================================================

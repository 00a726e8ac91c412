---------------------------- MODULE UrlSchemeJob ----------------------------
(***************************************************************************)
(* One request for a custom URL scheme: CustomURLLoader and the            *)
(* URLRequestCustomJobProxy of its current hop on the IO thread            *)
(* (net/custom_url_loader_factory.cpp, net/url_request_custom_job_proxy.   *)
(* cpp), and on the UI thread the URLRequestCustomJobDelegate with its     *)
(* QWebEngineUrlRequestJob, on which the application answers.  The two     *)
(* sides talk by posted tasks only; a redirect that is followed gives the  *)
(* loader a new proxy, whose number is the hop.                            *)
(*                                                                         *)
(* The network stack, the data pipe and the application's device are       *)
(* external.  The application replies or redirects at most once a job (the *)
(* assertions on m_started) and may fail the job before or after that.  A  *)
(* device is a buffer of Size units, or sends them one by one: a stream    *)
(* emits readyRead when it ends, a socket need not.  Headers, URLs and     *)
(* MIME types are left out.  abort() has no caller.                        *)
(***************************************************************************)
EXTENDS Integers, Sequences

CONSTANTS MaxHops,   \* bound: jobs of one request
          Size,      \* units of data in the device
          Capacity,  \* units the data pipe holds
          Ranges     \* ranges asked for: <<>>, <<first, last>>, or <<n>> for the last n

Hops == 1 .. MaxHops
IsRange(r) ==
  /\ r \in Seq(Nat) /\ Len(r) \in 0 .. 2
  /\ Len(r) = 1 => r[1] > 0
  /\ Len(r) = 2 => r[1] <= r[2]

ASSUME JobConstants ==
  /\ MaxHops \in Nat \ {0} /\ Size \in Nat \ {0} /\ Capacity \in Nat \ {0}
  /\ \A r \in Ranges : IsRange(r)

VARIABLES
  range,    \* m_byteRange of the request
  job,      \* [Hops -> state of the delegate and its job]
  said,     \* [Hops -> what the application called on the job]
  device,   \* the application's device
  io, ui,   \* tasks posted to the two threads
  hop,      \* the hop of m_proxy
  client,   \* hops whose proxy has m_client set
  started,  \* hops whose proxy has m_started set
  m_device, \* is m_device of the loader set
  m_error,  \* is m_error of the loader set
  served,   \* first and last unit of the partial response, <<>> for the whole
  reading,  \* is the IO thread in readAvailableData
  armed,    \* is m_watcher armed
  pipe,     \* units in the pipe, which is open as long as consumer
  consumer,
  got,      \* m_totalBytesRead
  loader,   \* the CustomURLLoader
  seen,     \* what the network stack has seen
  failed    \* the first access the code may not make

appVars    == <<job, said, device>>
pipeVars   == <<pipe, consumer, got>>
loaderVars == <<hop, client, started, m_device, m_error, served, reading, armed, loader>>
vars       == <<range, appVars, io, ui, loaderVars, pipeVars, seen, failed>>

NoDevice == [kind |-> "none", arrived |-> 0, ended |-> FALSE, open |-> FALSE, pos |-> 0]
Task(t, h) == [task |-> t, hop |-> h]
Alive == loader = "alive"

Init ==
  /\ range \in Ranges
  /\ job = [h \in Hops |-> "none"] /\ said = [h \in Hops |-> {}]
  /\ device = NoDevice
  /\ io = <<Task("start", 1)>> /\ ui = <<>>
  /\ hop = 1 /\ client = {1} /\ started = {}
  /\ m_device = FALSE /\ m_error = FALSE /\ served = <<>>
  /\ reading = FALSE /\ armed = FALSE
  /\ pipe = 0 /\ consumer = TRUE /\ got = 0
  /\ loader = "alive"
  /\ seen = [redirects |-> 0, followed |-> 0, responses |-> 0, ends |-> 0, result |-> "none"]
  /\ failed = "no"
-----------------------------------------------------------------------------
(* Steps of the loader that several handlers take.                         *)

\* ClearProxyAndClient(): the loader lets go of proxy, client and device, has
\* the job released on the UI thread, and deletes itself.
NotReleased == ui' = ui   \* for a mutant
Release == ui' = Append(ui, Task("release", hop))
Clear ==
  /\ client' = client \ {hop}
  /\ device' = [device EXCEPT !.open = @ /\ ~m_device]
  /\ m_device' = FALSE
  /\ Release
  /\ loader' = "deleted" /\ armed' = FALSE /\ reading' = FALSE

Ended(r) == [seen EXCEPT !.ends = @ + 1, !.result = r]
Responded(s) == [s EXCEPT !.responses = @ + 1]

\* CompleteWithFailure() and OnTransferComplete() of a request as it stands.
Complete(r) ==
  /\ seen' = Ended(r)
  /\ Clear
  /\ UNCHANGED <<hop, started, m_error, served, pipeVars, failed>>

\* notifyStartFailure(): the head of an error response, then the failure.
StartFailure ==
  /\ seen' = Responded(Ended("error"))
  /\ Clear
  /\ UNCHANGED <<hop, started, served, pipeVars, failed>>
-----------------------------------------------------------------------------
(* The IO thread.  It runs one task at a time; reading a device is divided *)
(* into the rounds of its loop, for the device and the pipe change         *)
(* meanwhile.                                                              *)

IoTask(t) == failed = "no" /\ ~reading /\ io # <<>> /\ Head(io).task = t /\ io' = Tail(io)

\* CreateAndStart(): refused (CORS, no pipe), or the job is created on the UI thread.
Start ==
  /\ IoTask("start")
  /\ \/ Complete("error")
     \/ /\ ui' = Append(ui, Task("initialize", hop))
        /\ UNCHANGED <<device, loaderVars, pipeVars, seen, failed>>
  /\ UNCHANGED <<range, job, said>>

\* A handler of the proxy whose client has gone returns at once.
Unchecked(h) == h \in Hops   \* for a mutant
HasClient(h) == h \in client
Ignored ==
  /\ \E t \in {"reply", "redirect", "fail", "readyRead"} : IoTask(t)
  /\ ~HasClient(Head(io).hop)
  /\ UNCHANGED <<range, appVars, ui, loaderVars, pipeVars, seen, failed>>

ReceivedBy(t, h) == IoTask(t) /\ h = Head(io).hop /\ HasClient(h)

\* HttpByteRange::ComputeBounds(): the first and last unit, <<>> if there are none.
Bounds(n) ==
  CASE Len(range) = 1 -> <<IF range[1] > n THEN 0 ELSE n - range[1], n - 1>>
    [] range[1] >= n  -> <<>>
    [] OTHER          -> <<range[1], IF range[2] >= n THEN n - 1 ELSE range[2]>>

\* reply() seeks before the bounds are computed, so only a first unit that was
\* given, and only in a device that can seek.
SeekTo(d) == IF d.kind = "random" /\ Len(range) = 2 /\ range[1] < Size THEN range[1] ELSE 0
HasArrived(d) == IF d.kind = "random" THEN Size ELSE d.arrived

\* reply() of a device that opens and whose range can be served.
ReplyServed(h) ==
  /\ ReceivedBy("reply", h) /\ device.kind # "unreadable"
  /\ LET n == HasArrived(device) IN
       /\ range # <<>> /\ n > 0 => Bounds(n) # <<>>
       /\ served' = IF range # <<>> /\ n > 0 THEN Bounds(n) ELSE <<>>
  /\ device' = [device EXCEPT !.open = TRUE, !.pos = SeekTo(device)]
  /\ m_device' = TRUE
  /\ started' = started \union {h}
  /\ seen' = Responded(seen)
  /\ reading' = TRUE
  /\ UNCHANGED <<range, job, said, ui, hop, client, m_error, armed, loader,
                 pipeVars, failed>>

\* notifyExpectedContentSize() completes the request with a failure, which
\* clears m_client; reply() goes on to use it.
ReplyUnsatisfiable(h) ==
  /\ ReceivedBy("reply", h)
  /\ range # <<>> /\ HasArrived(device) > 0 /\ Bounds(HasArrived(device)) = <<>>
  /\ seen' = Ended("error")
  /\ Clear
  /\ failed' = "replyWithoutClient"
  /\ UNCHANGED <<range, job, said, hop, started, m_error, served, pipeVars>>

\* reply() of a device that does not open fails the job.
ReplyUnreadable(h) ==
  /\ ReceivedBy("reply", h) /\ device.kind = "unreadable"
  /\ m_error' = TRUE
  /\ StartFailure
  /\ UNCHANGED <<range, job, said>>

Redirect(h) ==
  /\ ReceivedBy("redirect", h)
  /\ IF m_device \/ m_error
     THEN UNCHANGED <<started, seen>>
     ELSE /\ started' = started \union {h}
          /\ seen' = [seen EXCEPT !.redirects = @ + 1]
  /\ UNCHANGED <<range, appVars, ui, hop, client, m_device, m_error, served, reading, armed,
                 loader, pipeVars, failed>>

\* fail(): a job that has started fails on the next read.
ReleasedAtOnce ==   \* for a mutant
  /\ device' = [device EXCEPT !.open = @ /\ ~m_device]
  /\ Release
FailsOnNextRead ==
  /\ device' = [device EXCEPT !.open = @ /\ ~m_device]
  /\ ui' = ui
Fail(h) ==
  /\ ReceivedBy("fail", h)
  /\ m_error' = TRUE
  /\ IF h \in started
     THEN /\ FailsOnNextRead
          /\ UNCHANGED <<hop, client, started, m_device, served, reading, armed, loader,
                         pipeVars, seen, failed>>
     ELSE StartFailure
  /\ UNCHANGED <<range, job, said>>

\* succeed() does not look whether the client is gone, nor notifySuccess(), on
\* the IO thread, whether the page is, of which it has a plain pointer.
Succeed ==
  /\ IoTask("succeed")
  /\ failed' \in IF HasClient(Head(io).hop) THEN {"no", "succeedWithoutPage"}
                 ELSE {"succeedWithoutClient"}
  /\ UNCHANGED <<range, appVars, ui, loaderVars, pipeVars, seen>>

ReadyRead(h) ==
  /\ ReceivedBy("readyRead", h)
  /\ reading' = TRUE
  /\ UNCHANGED <<range, appVars, ui, hop, client, started, m_device, m_error, served, armed,
                 loader, pipeVars, seen, failed>>

\* One round of readAvailableData(). A read that fails at the end of the device
\* is one that brings nothing.
Least(a, b) == IF a < b THEN a ELSE b
Length == IF served = <<>> THEN 0 ELSE served[2] - served[1] + 1
Limit(n) == IF Length > 0 THEN Least(n, Length) ELSE n
Available == HasArrived(device) - device.pos
Chunk == Least(Limit(Capacity - pipe), Available)
DoneWhenEmpty(n) ==   \* for a mutant
  \/ device.pos + n = HasArrived(device)
  \/ Length > 0 /\ got + n >= Length
DoneAtEndOnly(n) ==   \* for a mutant
  \/ device.kind = "random" /\ device.pos + n = Size
  \/ Length > 0 /\ got + n >= Length
Done(n) == \/ device.kind = "random" /\ device.pos + n = Size
           \/ Length > 0 /\ got + n >= Length
           \/ n = 0 /\ device.kind # "random" /\ device.ended

ReadRound ==
  /\ failed = "no" /\ reading
  /\ IF m_error \/ ~m_device \/ ~consumer THEN Complete("error")
     ELSE IF pipe = Capacity
     THEN /\ armed' = TRUE /\ reading' = FALSE
          /\ UNCHANGED <<device, ui, hop, client, started, m_device, m_error, served, loader,
                         pipeVars, seen, failed>>
     ELSE \/ ~Done(0) /\ Complete("error")   \* read() fails
          \/ /\ pipe' = pipe + Chunk /\ got' = got + Chunk
             /\ consumer' = consumer
             /\ IF Done(Chunk)
                THEN /\ seen' = Ended("ok")
                     /\ client' = client \ {hop} /\ m_device' = FALSE /\ Release
                     /\ device' = [device EXCEPT !.pos = @ + Chunk, !.open = FALSE]
                     /\ loader' = "deleted" /\ armed' = FALSE /\ reading' = FALSE
                     /\ UNCHANGED <<hop, started, m_error, served, failed>>
                ELSE /\ device' = [device EXCEPT !.pos = @ + Chunk]
                     /\ reading' = (Chunk > 0)
                     /\ UNCHANGED <<ui, hop, client, started, m_device, m_error, served, armed,
                                    loader, seen, failed>>
  /\ UNCHANGED <<range, job, said, io>>

\* notifyReadyWrite(): the pipe can be written, or its other end is closed.
ReadyWrite ==
  /\ failed = "no" /\ armed /\ ~reading /\ (pipe < Capacity \/ ~consumer)
  /\ IF consumer
     THEN /\ armed' = FALSE /\ reading' = TRUE
          /\ UNCHANGED <<device, ui, hop, client, started, m_device, m_error, served, loader,
                         pipeVars, seen, failed>>
     ELSE Complete("error")
  /\ UNCHANGED <<range, job, said, io>>

\* FollowRedirect() and the Start() of the new hop.
Detach(h) == client' = {h + 1}
FollowRedirect ==
  /\ failed = "no" /\ Alive /\ ~reading /\ hop < MaxHops
  /\ seen.followed < seen.redirects
  /\ hop' = hop + 1
  /\ \/ /\ Detach(hop)
        /\ ui' = ui \o <<Task("release", hop), Task("initialize", hop + 1)>>
        /\ seen' = [seen EXCEPT !.followed = @ + 1]
        /\ loader' = loader
     \/ /\ client' = {}
        /\ ui' = ui \o <<Task("release", hop), Task("release", hop + 1)>>
        /\ seen' = [Ended("error") EXCEPT !.followed = @ + 1]
        /\ loader' = "deleted"
  /\ UNCHANGED <<range, appVars, io, started, m_device, m_error, served, reading, armed,
                 pipeVars, failed>>

\* OnConnectionError(): the network stack has let the request go.
OnConnectionError ==
  /\ failed = "no" /\ Alive /\ ~reading /\ io # <<Task("start", 1)>>
  /\ Complete("cancelled")
  /\ UNCHANGED <<range, job, said, io>>
-----------------------------------------------------------------------------
(* The UI thread.                                                          *)

UiTask(t) == failed = "no" /\ ui # <<>> /\ Head(ui).task = t /\ ui' = Tail(ui)

\* initialize(): without a handler for the scheme (it was removed, the profile has
\* gone) nothing is created and nobody answers.
Initialize ==
  /\ UiTask("initialize")
  /\ job' \in {job, [job EXCEPT ![Head(ui).hop] = "live"]}
  /\ UNCHANGED <<range, said, device, io, loaderVars, pipeVars, seen, failed>>

\* release(), and the deletion it asks for, of delegate and job.
ReleaseJob ==
  /\ UiTask("release")
  /\ job' = [job EXCEPT ![Head(ui).hop] = IF @ = "live" THEN "gone" ELSE @]
  /\ UNCHANGED <<range, said, device, io, loaderVars, pipeVars, seen, failed>>

\* What the application calls on the job of hop h.
Say(h, call, task) ==
  /\ failed = "no" /\ job[h] = "live"
  /\ said' = [said EXCEPT ![h] = @ \union {call}]
  /\ io' = Append(io, Task(task, h))
  /\ UNCHANGED <<range, job, ui, loaderVars, pipeVars, seen, failed>>

ReplyJob(h) ==
  /\ Say(h, "reply", "reply") /\ said[h] = {}
  /\ \E k \in {"random", "stream", "socket", "unreadable"} :
       device' = [NoDevice EXCEPT !.kind = k]

ReplyNull(h)   == Say(h, "null", "succeed") /\ said[h] = {} /\ device' = device
RedirectJob(h) == Say(h, "redirect", "redirect") /\ said[h] = {} /\ device' = device
FailJob(h)     == Say(h, "fail", "fail") /\ "fail" \notin said[h] /\ device' = device

\* More data arrives on the device of h, or its end; slotReadyRead() if the
\* device says so.
Arrive(h) ==
  /\ failed = "no" /\ job[h] = "live" /\ said[h] \intersect {"reply", "fail"} # {}
  /\ device.kind \in {"stream", "socket"} /\ ~device.ended
  /\ device' = IF device.arrived < Size THEN [device EXCEPT !.arrived = @ + 1]
               ELSE [device EXCEPT !.ended = TRUE]
  /\ \/ io' = Append(io, Task("readyRead", h))
     \/ device.kind = "socket" /\ device.arrived = Size /\ io' = io
  /\ UNCHANGED <<range, job, said, ui, loaderVars, pipeVars, seen, failed>>
-----------------------------------------------------------------------------
(* The network stack's end of the pipe.                                    *)

Consume ==
  /\ failed = "no" /\ consumer /\ pipe > 0 /\ pipe' = 0
  /\ UNCHANGED <<range, appVars, io, ui, loaderVars, consumer, got, seen, failed>>

CloseConsumer ==
  /\ failed = "no" /\ consumer /\ seen.responses = 1 /\ Alive
  /\ consumer' = FALSE /\ pipe' = 0
  /\ UNCHANGED <<range, appVars, io, ui, loaderVars, got, seen, failed>>

IoStep ==
  \/ Start \/ Ignored \/ Succeed \/ ReadRound \/ ReadyWrite
  \/ \E h \in Hops : \/ ReplyServed(h) \/ ReplyUnsatisfiable(h) \/ ReplyUnreadable(h)
                     \/ Redirect(h) \/ Fail(h) \/ ReadyRead(h)
UiStep == Initialize \/ ReleaseJob
Answer(h) == ReplyJob(h) \/ ReplyNull(h) \/ RedirectJob(h) \/ FailJob(h)
AppStep == \E h \in Hops : Answer(h) \/ Arrive(h)
NetStep == FollowRedirect \/ OnConnectionError \/ Consume \/ CloseConsumer
Next == IoStep \/ UiStep \/ AppStep \/ NetStep

\* Both threads run their queues; the network stack reads what it is sent and
\* follows a redirect or gives the request up; a device that sends goes on.
Fairness ==
  /\ WF_vars(IoStep) /\ WF_vars(UiStep) /\ WF_vars(Consume)
  /\ WF_vars(seen.redirects > seen.followed /\ (FollowRedirect \/ OnConnectionError))
  /\ \A h \in Hops : WF_vars(Arrive(h))

Safety == Init /\ [][Next]_vars
Spec == Safety /\ Fairness
-----------------------------------------------------------------------------
\* Types and bounds of the state.
TypeOK ==
  /\ range \in Ranges
  /\ job \in [Hops -> {"none", "live", "gone"}]
  /\ said \in [Hops -> SUBSET {"reply", "null", "redirect", "fail"}]
  /\ device \in [kind : {"none", "random", "stream", "socket", "unreadable"},
                 arrived : 0 .. Size, ended : BOOLEAN, open : BOOLEAN, pos : 0 .. Size]
  /\ io \in Seq([task : {"start", "reply", "redirect", "fail", "readyRead", "succeed"}, hop : Hops])
  /\ ui \in Seq([task : {"initialize", "release"}, hop : Hops])
  /\ hop \in Hops /\ client \in SUBSET Hops /\ started \in SUBSET Hops
  /\ {m_device, m_error, reading, armed, consumer} \subseteq BOOLEAN
  /\ pipe \in 0 .. Capacity /\ got \in 0 .. Size
  /\ loader \in {"alive", "deleted"}
  /\ seen.result \in {"none", "ok", "error", "cancelled"}

\* The network stack hears redirects, then at most one response, then one
\* completion and nothing after it, whichever of the application's late calls,
\* arriving data and the other end of the pipe reaches the loader first.
Stream == INSTANCE LoaderStream WITH
  redirects <- seen.redirects, followed <- seen.followed,
  responses <- seen.responses, ends <- seen.ends
LoaderKeepsProtocol == Stream!Safety

\* The device is used by the IO thread only while the job it was given to
\* exists on the UI thread: the documentation of reply() lets the application
\* delete it with the job.
DeviceOutlivesUse == m_device \/ reading => job[hop] = "live"

\* Only the proxy of the current hop reaches the loader, and none a loader that
\* has deleted itself, although the UI thread still posts to all of them.
ClientIsLoader == client \subseteq {hop} /\ (client # {} => Alive)

\* A request completes as a success only when all that was announced has been
\* handed over: the whole device, or as much as the range has, which of a buffer
\* and a range with a first unit starts at that unit.
StartsAtRange ==
  m_device /\ device.kind = "random" /\ Len(range) = 2 /\ served # <<>> =>
    device.pos - got = served[1]
OkIsComplete ==
  /\ StartsAtRange
  /\ seen.result = "ok" =>
       IF served # <<>> THEN got >= served[2] - served[1] + 1
       ELSE got = Size /\ (device.kind # "random" => device.ended)

Settled == seen.ends = 1 \/ failed # "no"
FailedLate == \E h \in Hops : "fail" \in said[h] /\ said[h] # {"fail"}
Unsignalled == device.kind = "socket"

\* An answer ends the request or moves it to the next job, however the data,
\* the pipe and the two threads interleave, unless the application also fails
\* the answered job or its device ends without a last readyRead.
EveryAnswerEnds ==
  \A h \in Hops :
    said[h] \intersect {"reply", "redirect", "fail"} # {}
      ~> Settled \/ hop > h \/ FailedLate \/ Unsignalled

\* A job does not outlive its loader for ever, not even one whose release was
\* posted before the UI thread had created it.
JobsReleased ==
  \A h \in Hops : loader = "deleted" /\ job[h] = "live" ~> job[h] = "gone" \/ failed # "no"
=============================================================================

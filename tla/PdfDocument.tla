----------------------------- MODULE PdfDocument -----------------------------
(***************************************************************************)
(* QPdfDocument (pdf/qpdfdocument.cpp): loading from a file, which ends    *)
(* within load(), or from a QNetworkReply, whose signals bring the data;   *)
(* closing; passwords.  Everything runs on one thread; the interleaving is *)
(* that of the application's calls with the signals of the replies, of     *)
(* which earlier ones may still be connected.                              *)
(*                                                                         *)
(* A reply brings Units units. PDFium opens a linearized document with the *)
(* first of them, another with all; its pages need all.  A page may also   *)
(* be broken (PDF_DATA_ERROR), here of a document that is not linearized.  *)
(* Replies are loaded once and are not deleted; slots do not call back;    *)
(* FPDFAvail_Create() succeeds.                                            *)
(***************************************************************************)
EXTENDS Integers, Sequences, FiniteSets

CONSTANTS Replies,   \* network replies
          Kinds,     \* documents they bring
          Files,     \* files
          Units,     \* units of a whole document
          FirstPart, \* units with which a linearized document can be opened
          PageCount  \* pages of every document

\* In a broken document, a cut and a torn file a page is broken: of a cut file
\* one of the first two, of a torn one another.
ASSUME PdfConstants ==
  /\ Units \in Nat \ {0} /\ FirstPart \in 1 .. Units /\ PageCount \in Nat \ {0}
  /\ Kinds \subseteq {"plain", "linear", "broken"}
  /\ Files \subseteq {"good", "locked", "cut", "torn"} /\ ("torn" \in Files => PageCount > 2)
  /\ Replies \intersect {"none", "good", "locked", "cut", "torn"} = {}

VARIABLES
  status, doc,         \* doc: the file or reply it was opened from, or "none"
  avail, loadComplete, pageCount, password,
  device,              \* what PDFium reads: a file, "buffer" or "none"
  asyncBuffer,         \* the replies its units came from
  source,              \* sequentialSourceDevice
  conn,                \* connections: <<reply, signal>>
  reply,               \* [Replies -> a QNetworkReply]
  last,                \* the file or reply of the last load()
  fresh,               \* did that load() find nothing left of an earlier one
  stuck                \* is the thread in a loop that does not end

documentVars == <<status, doc, avail, loadComplete, pageCount, password, device, asyncBuffer,
                  source, conn, reply, last, fresh, stuck>>

\* A reply the application loads has just begun, has failed, or has all its
\* data already: its end is past, or still to be signalled (a file, for instance).
NewReply(k) ==
  [kind |-> k, header |-> "unknown", sent |-> 0, unread |-> 0, end |-> "no", used |-> FALSE]
FailedReply == [NewReply("plain") EXCEPT !.end = "error"]
FullReply(k, h, e) ==
  [kind |-> k, header |-> h, sent |-> Units, unread |-> Units, end |-> e, used |-> FALSE]
InitialReplies ==
  {NewReply(k) : k \in Kinds} \union {FailedReply, FullReply("plain", "none", "past")}
    \union {FullReply(k, "length", e) : k \in Kinds \ {"linear"}, e \in {"no", "past"}}

DocumentInit ==
  /\ status = "Null" /\ doc = "none" /\ avail = FALSE /\ loadComplete = FALSE
  /\ pageCount = 0 /\ password = "none"
  /\ device = "none" /\ asyncBuffer = <<>> /\ source = "none"
  /\ conn = {} /\ reply \in [Replies -> InitialReplies]
  /\ last = "none" /\ fresh = TRUE /\ stuck = FALSE
-----------------------------------------------------------------------------
(* The state of the document as a record, on which the functions that call *)
(* each other are operators.                                               *)

Doc == [status |-> status, doc |-> doc, avail |-> avail, loadComplete |-> loadComplete,
        pageCount |-> pageCount, password |-> password, device |-> device,
        buffer |-> asyncBuffer, source |-> source, conn |-> conn, reply |-> reply,
        stuck |-> stuck]

Becomes(d) ==
  /\ status' = d.status /\ doc' = d.doc /\ avail' = d.avail
  /\ loadComplete' = d.loadComplete /\ pageCount' = d.pageCount /\ password' = d.password
  /\ device' = d.device /\ asyncBuffer' = d.buffer /\ source' = d.source
  /\ conn' = d.conn /\ reply' = d.reply /\ stuck' = d.stuck

setStatus(d, s) == [d EXCEPT !.status = s]

\* What PDFium makes of the device: the document it opens, or "none".
FromOne(b) == b # <<>> /\ \A i \in DOMAIN b : b[i] = b[1]
Needed(q) == IF q.kind = "linear" THEN FirstPart ELSE Units
Opened(d) ==
  CASE d.device = "buffer" ->
         IF FromOne(d.buffer) /\ Len(d.buffer) >= Needed(d.reply[d.buffer[1]]) THEN d.buffer[1]
         ELSE "none"
    [] d.device = "locked" -> IF d.password = "right" THEN "locked" ELSE "none"
    [] OTHER               -> d.device

\* tryLoadDocument(): PDFium may report an error of a document whose data are
\* still missing.
tryLoadDocument(d) ==
  IF Opened(d) # "none" THEN {[d EXCEPT !.doc = Opened(d)]}
  ELSE IF d.device = "buffer" THEN {d, setStatus(d, "Error")}
  ELSE {setStatus(d, "Error")}

\* checkComplete(): waits in a loop for pages whose data the event loop would
\* have to bring; a page that is broken leaves everything as it was.
AllPages(d) == d.device # "buffer" \/ Len(d.buffer) >= Units
NoneBroken(d) == FALSE   \* for a mutant
Broken(d) == d.doc \in {"cut", "torn"} \/ (d.doc \in Replies /\ d.reply[d.doc].kind = "broken")
Complete(d) ==
  IF ~AllPages(d) THEN [d EXCEPT !.loadComplete = TRUE, !.stuck = TRUE]
  ELSE IF Broken(d) THEN d
  ELSE [d EXCEPT !.loadComplete = TRUE, !.pageCount = PageCount, !.status = "Ready"]
checkComplete(d) ==
  IF ~d.avail \/ d.loadComplete THEN {d}
  ELSE { IF e.doc = "none" THEN e ELSE Complete(e) :
         e \in IF d.doc = "none" THEN tryLoadDocument(d) ELSE {d} }

\* _q_copyFromSequentialSourceDevice(), whichever reply has called it.
copyFromSource(d) ==
  IF d.loadComplete \/ d.reply[d.source].unread = 0 THEN {d}
  ELSE checkComplete([d EXCEPT !.buffer = @ \o [i \in 1 .. d.reply[d.source].unread |-> d.source],
                               !.reply[d.source].unread = 0])

\* clear() of close(), which does nothing while no document is open.
Disconnected(d) == {c \in d.conn : c[1] # d.source}
clear(d) == [d EXCEPT !.doc = "none", !.avail = FALSE, !.pageCount = 0, !.loadComplete = FALSE,
                      !.buffer = <<>>, !.conn = Disconnected(d)]
close(d) ==
  IF d.doc = "none" THEN d
  ELSE [clear(d) EXCEPT !.password = "none", !.status = "Null"]
-----------------------------------------------------------------------------
(* The application.                                                        *)

Close == ~stuck /\ Becomes(close(Doc)) /\ UNCHANGED <<last, fresh>>

SetPassword ==
  /\ ~stuck /\ Becomes([Doc EXCEPT !.password = "right"])
  /\ UNCHANGED <<last, fresh>>

NotClosed == setStatus(Doc, "Loading")   \* for a mutant
Begin == setStatus(close(Doc), "Loading")
Loads(s) ==
  /\ last' = s
  /\ fresh' = (~Begin.avail /\ Begin.conn = {})

\* load() of a file; of one that cannot be opened nothing else is done. Only the
\* first two pages are looked at.
LoadFile(f) ==
  /\ ~stuck
  /\ LET d == [Begin EXCEPT !.device = f, !.avail = TRUE]
     IN  \E e \in IF d.doc = "none" THEN tryLoadDocument(d) ELSE {d} :
           Becomes(IF e.doc = "none" THEN setStatus(e, "Error")
                   ELSE [e EXCEPT !.pageCount = PageCount,
                                  !.status = IF f = "cut" THEN "Error" ELSE "Ready"])
  /\ Loads(f)

LoadNoFile == ~stuck /\ Becomes(setStatus(Begin, "Error")) /\ Loads("none")

\* _q_tryLoadingWithSizeFromContentHeader()
tryLoadingWithSize(d) ==
  IF d.avail THEN {d}
  ELSE IF d.reply[d.source].header # "length" THEN {setStatus(d, "Error")}
  ELSE copyFromSource([d EXCEPT !.conn = @ \union {<<d.source, "readyRead">>}, !.avail = TRUE])

LoadReply(r) ==
  /\ ~stuck /\ ~reply[r].used
  /\ LET d == [Begin EXCEPT !.source = r, !.device = "buffer", !.reply[r].used = TRUE]
         c == [d EXCEPT !.conn = @ \union {<<r, "finished">>}]
     IN  \E e \in IF reply[r].end = "error" THEN {setStatus(d, "Error")}
                  ELSE IF reply[r].header = "length" THEN tryLoadingWithSize(c)
                  ELSE {[c EXCEPT !.conn = @ \union {<<r, "metaDataChanged">>}]} :
           Becomes(e)
  /\ Loads(r)
-----------------------------------------------------------------------------
(* The signals of a reply: its headers, its data unit by unit, its end.    *)

Connected(r, signal) == <<r, signal>> \in conn
Running(r) == ~stuck /\ reply[r].used /\ reply[r].end = "no"

MetaDataChanged(r) ==
  /\ Running(r) /\ reply[r].header = "unknown"
  /\ \E h \in {"length", "none"} :
       LET d == [Doc EXCEPT !.reply[r].header = h]
       IN  \E e \in IF Connected(r, "metaDataChanged") THEN tryLoadingWithSize(d) ELSE {d} :
             Becomes(e)
  /\ UNCHANGED <<last, fresh>>

ReadyRead(r) ==
  /\ Running(r) /\ reply[r].header # "unknown" /\ reply[r].sent < Units
  /\ LET d == [Doc EXCEPT !.reply[r].sent = @ + 1, !.reply[r].unread = @ + 1]
     IN  \E e \in IF Connected(r, "readyRead") THEN copyFromSource(d) ELSE {d} : Becomes(e)
  /\ UNCHANGED <<last, fresh>>

NeverFails(r, end) == end = "never"   \* for a mutant
Failed(r, end) == end = "error" \/ reply[r].unread = 0

\* finished(): a reply of which nothing is left to read counts as failed.
Finished(r, end) ==
  /\ Running(r)
  /\ end = "ok" => reply[r].header # "unknown" /\ reply[r].sent = Units
  /\ LET d == [Doc EXCEPT !.reply[r].end = end]
     IN  Becomes(IF Connected(r, "finished") /\ Failed(r, end)
                 THEN setStatus(d, "Error") ELSE d)
  /\ UNCHANGED <<last, fresh>>

NetStep(r) == MetaDataChanged(r) \/ ReadyRead(r) \/ \E e \in {"ok", "error"} : Finished(r, e)

DocumentNext ==
  \/ Close \/ LoadNoFile
  \/ SetPassword
  \/ \E f \in Files : LoadFile(f)
  \/ \E r \in Replies : LoadReply(r) \/ NetStep(r)

DocumentSpec == DocumentInit /\ [][DocumentNext]_documentVars
-----------------------------------------------------------------------------
\* Types and bounds of the state.
DocumentTypeOK ==
  /\ status \in {"Null", "Loading", "Ready", "Error"}
  /\ doc \in Files \union Replies \union {"none"}
  /\ {avail, loadComplete, fresh, stuck} \subseteq BOOLEAN
  /\ pageCount \in {0, PageCount} /\ password \in {"none", "right"}
  /\ device \in Files \union {"buffer", "none"}
  /\ asyncBuffer \in Seq(Replies) /\ Len(asyncBuffer) <= Units * Cardinality(Replies)
  /\ source \in Replies \union {"none"}
  /\ conn \subseteq Replies \X {"metaDataChanged", "readyRead", "finished"}
  /\ \A r \in Replies : reply[r].unread <= reply[r].sent /\ reply[r].sent <= Units

\* "Ready" shows an open document with all its pages, none of them broken (of a
\* file only the first two are looked at); it is the one load() was called with
\* last, unless that load() found an earlier one still under way.
ReadyIsTheLastLoaded ==
  status = "Ready" =>
    /\ doc # "none" /\ pageCount = PageCount /\ doc # "cut"
    /\ doc \in Replies => Len(asyncBuffer) >= Units /\ reply[doc].kind # "broken"
    /\ fresh => doc = last

\* PDFium reads the data of an open document through the device that is set at
\* the time: it is the document's own, and no other reply writes to it. Of a
\* closed document nothing is left that could open it again, unless its load()
\* found an earlier one under way.
OpenReadsItsOwnData ==
  /\ status = "Null" /\ fresh => doc = "none" /\ ~avail /\ conn = {} /\ asyncBuffer = <<>>
  /\ doc # "none" => avail
  /\ doc \in Files => device = doc
  /\ doc \in Replies => device = "buffer" /\ \A i \in DOMAIN asyncBuffer : asyncBuffer[i] = doc

\* When the reply of a load has ended the load has, for no other signal will
\* come, if nothing was left of an earlier one when it began. Three things keep
\* it: the loop for missing pages, and a reply that had ended before it was
\* loaded, without a length or with a broken page.
Endable(q) == q.end = "past" => q.header # "none" /\ q.kind # "broken"
LoadEnds ==
  \A r \in Replies : fresh /\ last = r /\ reply[r].end # "no" /\ Endable(reply[r]) =>
                       status # "Loading" \/ stuck
=============================================================================

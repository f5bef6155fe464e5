------------------------ MODULE ExecutionViewProofs ------------------------
(***************************************************************************)
(* What a page shows of an execution: proofs for any number of streams and *)
(* of requests under way.                                                  *)
(***************************************************************************)
EXTENDS ExecutionView, TLAPS

LiveTypeOK ==
    /\ row \in Rows /\ text \in Texts /\ open \in BOOLEAN
    /\ published \in Seq(Event)

IsResult(e) == e.kind = "status" /\ e.text = "logs"

(* A text that somebody was told of is not newer than the stored one: null *)
(* is followed perhaps by the logs, and these perhaps by an error.         *)
NoNewer(x, y) == (y = "null" => x = "null") /\ (y = "logs" => x # "error")

LiveSound ==
    /\ text = "logs" => ~open
    /\ \A i \in DOMAIN published :
           published[i].kind = "status" => NoNewer(published[i].text, text)
    /\ \A i \in DOMAIN published : IsResult(published[i]) =>
           /\ ~open
           /\ \A j \in DOMAIN published : j > i => published[j].kind = "status"

Answers == {Answer(h, r, x) : h \in Hows, r \in Rows, x \in Texts}
RequestStates == {None} \cup {Asked(h) : h \in Hows} \cup Answers

(* What is under way is typed, and an answer is not newer than the row.    *)
RequestsSound ==
    /\ request \in [Requests -> RequestStates]
    /\ \A s \in Requests : request[s].state = "answer" => NoNewer(request[s].text, text)

(* What the page shows of an execution that it knows, and of a result that *)
(* it was told of.                                                         *)
PageSound ==
    /\ delivered \in 0 .. Len(published)
    /\ view \in Views
    /\ ~view.known => view = Unknown
    /\ selected \in BOOLEAN /\ got \in BOOLEAN
    /\ NoNewer(view.text, text)
    /\ got => /\ view.known
              /\ \E i \in DOMAIN published : i <= delivered /\ IsResult(published[i])

ViewIInv == LiveTypeOK /\ LiveSound /\ RequestsSound /\ PageSound /\ ShowsResult

-----------------------------------------------------------------------------
(***************************************************************************)
(* The worker as LiveOutput promises it                                    *)
(***************************************************************************)

(* A status event tells of a text that is not newer than the stored one;   *)
(* behind the one with the result there are status events only.            *)
LEMMA PublishStatus ==
    ASSUME LiveTypeOK, LiveSound, NEW r \in Rows, NEW x \in Texts, NoNewer(x, text),
           x = "logs" => ~open,
           Publish(Status(r, x)), UNCHANGED <<row, text, open>>
    PROVE  LiveTypeOK' /\ LiveSound'
<1>1. Status(r, x) \in Event
  BY DEF Event, Status
<1>2. /\ published' \in Seq(Event) /\ Len(published') = Len(published) + 1
      /\ \A i \in DOMAIN published : published'[i] = published[i]
      /\ published'[Len(published) + 1] = Status(r, x)
      /\ DOMAIN published' = 1 .. (Len(published) + 1)
      /\ DOMAIN published = 1 .. Len(published) /\ Len(published) \in Nat
  BY <1>1 DEF LiveTypeOK, Publish
<1>3. LiveTypeOK'
  BY <1>2 DEF LiveTypeOK
<1>4. ASSUME NEW i \in DOMAIN published'
      PROVE  published'[i].kind = "status" => NoNewer(published'[i].text, text')
  <2>1. CASE i \in DOMAIN published
    BY <1>2, <2>1 DEF LiveSound, NoNewer
  <2>2. CASE i = Len(published) + 1
    BY <1>2, <2>2 DEF NoNewer, Status
  <2>3. QED  BY <1>2, <2>1, <2>2
<1>5. ASSUME NEW i \in DOMAIN published', IsResult(published'[i])
      PROVE  /\ ~open
             /\ \A j \in DOMAIN published' : j > i => published'[j].kind = "status"
  <2>1. CASE i \in DOMAIN published
    <3>1. IsResult(published[i])
      BY <1>2, <1>5, <2>1
    <3>2. /\ ~open
          /\ \A j \in DOMAIN published : j > i => published[j].kind = "status"
      BY <2>1, <3>1 DEF LiveSound
    <3>3. Status(r, x).kind = "status"
      BY DEF Status
    <3>4. QED  BY <1>2, <3>2, <3>3
  <2>2. CASE i = Len(published) + 1
    <3>1. x = "logs"
      BY <1>2, <1>5, <2>2 DEF IsResult, Status
    <3>2. QED  BY <1>2, <2>2, <3>1
  <2>3. QED  BY <1>2, <2>1, <2>2
<1>6. text' = "logs" => ~open'
  BY DEF LiveSound
<1>7. QED  BY <1>3, <1>4, <1>5, <1>6 DEF LiveSound, IsResult

(* Live output is published only while no result can be.                   *)
LEMMA PublishOutput ==
    ASSUME LiveTypeOK, LiveSound, open, NEW e \in Event, e.kind # "status",
           Publish(e), open' \in BOOLEAN, UNCHANGED <<row, text>>
    PROVE  LiveTypeOK' /\ LiveSound'
<1>2. /\ published' \in Seq(Event) /\ Len(published') = Len(published) + 1
      /\ \A i \in DOMAIN published : published'[i] = published[i]
      /\ published'[Len(published) + 1] = e
      /\ DOMAIN published' = 1 .. (Len(published) + 1)
      /\ DOMAIN published = 1 .. Len(published) /\ Len(published) \in Nat
  BY DEF LiveTypeOK, Publish
<1>3. LiveTypeOK'
  BY <1>2 DEF LiveTypeOK
<1>4. \A i \in DOMAIN published : ~IsResult(published[i])
  BY DEF LiveSound
<1>5. \A i \in DOMAIN published' : ~IsResult(published'[i])
  BY <1>2, <1>4 DEF IsResult
<1>6. ASSUME NEW i \in DOMAIN published', published'[i].kind = "status"
      PROVE  NoNewer(published'[i].text, text')
  <2>1. i \in DOMAIN published
    BY <1>2, <1>6
  <2>2. QED  BY <1>2, <1>6, <2>1 DEF LiveSound, NoNewer
<1>7. text' # "logs"
  BY DEF LiveSound
<1>8. QED  BY <1>3, <1>5, <1>6, <1>7 DEF LiveSound, IsResult

LEMMA LiveInitial == LiveInit => LiveTypeOK /\ LiveSound
BY DEF LiveInit, LiveTypeOK, LiveSound, Rows, Active, Texts

LEMMA LiveStep ==
    ASSUME LiveTypeOK, LiveSound, [LiveNext]_liveVars
    PROVE  LiveTypeOK' /\ LiveSound'
<1>1. ASSUME NEW s \in Streams, Emit(s) PROVE LiveTypeOK' /\ LiveSound'
  <2>1. PICK e \in {Output(s, from, to) : from, to \in 0 .. Limit} \cup {Notice(s)} :
            Publish(e)
    BY <1>1 DEF Emit
  <2>2. e \in Event /\ e.kind # "status"
    BY <2>1, StreamAssumption DEF Output, Notice, Event
  <2>3. QED  BY <1>1, <2>1, <2>2, PublishOutput DEF Emit
<1>2. CASE Report
  <2>1. CASE Publish(Status(row, text))
    <3>1. NoNewer(text, text) /\ (text = "logs" => ~open)
      BY DEF NoNewer, LiveSound
    <3>2. QED  BY <1>2, <2>1, <3>1, PublishStatus DEF Report, LiveTypeOK
  <2>2. CASE Publish(Status("running", "null"))
    <3>1. NoNewer("null", text) /\ "running" \in Rows /\ "null" \in Texts
      BY DEF NoNewer, Rows, Active, Texts
    <3>2. QED  BY <1>2, <2>2, <3>1, PublishStatus DEF Report
  <2>3. QED  BY <1>2, <2>1, <2>2 DEF Report
<1>3. CASE Close \/ Start \/ CancelRow \/ UNCHANGED liveVars
  <2>1. LiveTypeOK'
    BY <1>3 DEF Close, Start, CancelRow, liveVars, LiveTypeOK, Rows, Active
  <2>2. UNCHANGED <<published, text>> /\ (open' => open)
    BY <1>3 DEF Close, Start, CancelRow, liveVars
  <2>3. QED  BY <2>1, <2>2 DEF LiveSound, NoNewer, IsResult
<1>4. CASE StoreResult
  <2>1. LiveTypeOK'
    BY <1>4 DEF StoreResult, LiveTypeOK, Rows, Active, Texts
  <2>2. LiveSound'
    BY <1>4 DEF StoreResult, LiveSound, NoNewer, IsResult
  <2>3. QED  BY <2>1, <2>2
<1>5. CASE StoreError
  <2>1. LiveTypeOK'
    BY <1>5 DEF StoreError, LiveTypeOK, Rows, Active, Texts
  <2>2. LiveSound'
    BY <1>5 DEF StoreError, LiveSound, NoNewer, IsResult
  <2>3. QED  BY <2>1, <2>2
<1>6. QED  BY <1>1, <1>2, <1>3, <1>4, <1>5 DEF LiveNext

(* The stored text only gets newer and the channel only longer; a text     *)
(* with which an event told the result is not stored afterwards.           *)
LEMMA LiveGrows ==
    ASSUME LiveTypeOK, LiveSound, [LiveNext]_liveVars
    PROVE  /\ \A x \in Texts : NoNewer(x, text) => NoNewer(x, text')
           /\ text' = "logs" => text \in {"null", "logs"}
           /\ Len(published) <= Len(published')
           /\ \A i \in DOMAIN published :
                  i \in DOMAIN published' /\ published'[i] = published[i]
<1>1. /\ \A x \in Texts : NoNewer(x, text) => NoNewer(x, text')
      /\ text' = "logs" => text \in {"null", "logs"}
  BY DEF LiveNext, Emit, Close, Start, CancelRow, Report, StoreResult, StoreError,
         liveVars, LiveTypeOK, Texts, NoNewer
<1>2. CASE UNCHANGED published
  BY <1>1, <1>2 DEF LiveTypeOK
<1>3. ASSUME NEW e, Publish(e)
      PROVE  /\ Len(published) <= Len(published')
             /\ \A i \in DOMAIN published :
                    i \in DOMAIN published' /\ published'[i] = published[i]
  <2>1. published \in Seq(Event \cup {e}) /\ e \in Event \cup {e}
    BY DEF LiveTypeOK
  <2>2. QED  BY <1>3, <2>1 DEF Publish
<1>4. UNCHANGED published \/ \E e : Publish(e)
  BY DEF LiveNext, Emit, Close, Start, CancelRow, Report, StoreResult, StoreError, liveVars
<1>5. QED  BY <1>1, <1>2, <1>3, <1>4

-----------------------------------------------------------------------------
(***************************************************************************)
(* The page                                                                *)
(***************************************************************************)
LEMMA AnswerFields ==
    ASSUME NEW q \in RequestStates
    PROVE  /\ q.state = "answer" => q.how \in Hows /\ q.row \in Rows /\ q.text \in Texts
           /\ q.state = "asked" => q.how \in Hows
BY DEF RequestStates, Answers, None, Asked, Answer

LEMMA AnswerType ==
    ASSUME NEW h \in Hows, NEW r \in Rows, NEW x \in Texts
    PROVE  /\ Answer(h, r, x) \in RequestStates
           /\ Answer(h, r, x).state = "answer" /\ Answer(h, r, x).text = x
           /\ Asked(h) \in RequestStates /\ Asked(h).state # "answer"
           /\ None \in RequestStates /\ None.state # "answer"
BY DEF RequestStates, Answers, None, Asked, Answer

(* A request may be put under way, become an answer, or end.               *)
LEMMA RequestStep ==
    ASSUME RequestsSound, text' = text, NEW s \in Requests, NEW q \in RequestStates,
           q.state = "answer" => NoNewer(q.text, text),
           request' = [request EXCEPT ![s] = q]
    PROVE  RequestsSound'
BY DEF RequestsSound

LEMMA InvariantTypes == ViewIInv => ViewTypeOK
<1>1. RequestStates = {None} \cup {Asked(h) : h \in Hows}
          \cup {Answer(h, r, x) : h \in Hows, r \in Rows, x \in Texts}
  BY DEF RequestStates, Answers
<1>2. QED  BY <1>1 DEF ViewIInv, RequestsSound, PageSound, ViewTypeOK

LEMMA ViewInitial == ViewInit => ViewIInv
<1> SUFFICES ASSUME ViewInit PROVE ViewIInv
  OBVIOUS
<1>1. LiveTypeOK /\ LiveSound
  BY LiveInitial DEF ViewInit
<1>2. RequestsSound
  <2>1. PICK r \in {Asked("list"), Answer("olderList", "queued", "null"),
                    Answer("run", "queued", "null")} :
            request = [s \in Requests |-> IF s = First THEN r ELSE None]
    BY DEF ViewInit
  <2>2. /\ {"list", "run", "olderList"} \subseteq Hows
        /\ "queued" \in Rows /\ "null" \in Texts
    BY DEF Hows, Rows, Active, Texts
  <2>3. /\ r \in RequestStates /\ None \in RequestStates
        /\ r.state = "answer" => r.text = "null"
        /\ None.state # "answer"
    BY <2>1, <2>2, AnswerType
  <2>4. QED  BY <2>1, <2>3 DEF RequestsSound, NoNewer
<1>3. PageSound /\ ShowsResult
  <2>1. Unknown \in Views /\ ~Unknown.known /\ Unknown.text = "null"
    BY DEF Views, Unknown, Rows, Active, Texts
  <2>2. /\ delivered = 0 /\ Len(published) = 0 /\ view = Unknown
        /\ selected = FALSE /\ got = FALSE
    BY DEF ViewInit, LiveInit
  <2>3. delivered \in 0 .. Len(published)
    BY <2>2
  <2>4. selected \in BOOLEAN /\ got \in BOOLEAN /\ ~got
    BY <2>2
  <2>5. QED  BY <2>1, <2>2, <2>3, <2>4 DEF PageSound, ShowsResult, NoNewer
<1>4. QED  BY <1>1, <1>2, <1>3 DEF ViewIInv

(* The worker's steps take nothing from the page: a result that it was     *)
(* told of has been stored.                                                *)
LEMMA WorkerStep ==
    ASSUME ViewIInv, LiveNext, UNCHANGED pageVars
    PROVE  ViewIInv'
<1> USE DEF pageVars
<1>1. LiveTypeOK' /\ LiveSound'
  BY LiveStep DEF ViewIInv
<1>2. /\ \A x \in Texts : NoNewer(x, text) => NoNewer(x, text')
      /\ text' = "logs" => text \in {"null", "logs"}
      /\ Len(published) <= Len(published')
      /\ \A i \in DOMAIN published :
             i \in DOMAIN published' /\ published'[i] = published[i]
  BY LiveGrows DEF ViewIInv
<1>3. RequestsSound'
  <2>1. ASSUME NEW s \in Requests, request[s].state = "answer"
        PROVE  NoNewer(request[s].text, text')
    <3>1. request[s].text \in Texts /\ NoNewer(request[s].text, text)
      BY <2>1, AnswerFields DEF ViewIInv, RequestsSound
    <3>2. QED  BY <1>2, <3>1
  <2>2. QED  BY <2>1 DEF ViewIInv, RequestsSound
<1>4. PageSound'
  <2>1. Len(published) \in Nat /\ Len(published') \in Nat
    BY <1>1 DEF ViewIInv, LiveTypeOK
  <2>2. view.text \in Texts
    BY DEF ViewIInv, PageSound, Views
  <2>3. QED  BY <1>2, <2>1, <2>2 DEF ViewIInv, PageSound
<1>5. ShowsResult'
  <2>1. SUFFICES ASSUME got, text' = "logs"
                 PROVE  view.text = "logs" /\ ~view.more
    BY DEF ShowsResult
  <2>2. PICK i \in DOMAIN published : IsResult(published[i])
    BY <2>1 DEF ViewIInv, PageSound
  <2>3. text # "null"
    BY <2>2 DEF ViewIInv, LiveSound, IsResult, NoNewer
  <2>4. QED  BY <1>2, <2>1, <2>3 DEF ViewIInv, ShowsResult
<1>6. QED  BY <1>1, <1>3, <1>4, <1>5 DEF ViewIInv

(* An event that a page knowing the execution receives.  Once it was told  *)
(* of the result there is no output to come.                               *)
LEMMA DeliverStep ==
    ASSUME ViewIInv, Deliver
    PROVE  ViewIInv'
<1> DEFINE e == published[delivered + 1]
<1>1. /\ UNCHANGED <<row, text, open, published>>
      /\ delivered + 1 \in DOMAIN published /\ delivered' = delivered + 1
      /\ delivered \in Nat /\ selected' = TRUE
      /\ e \in Event
  BY DEF ViewIInv, LiveTypeOK, PageSound, Deliver, liveVars
<1>2. LiveTypeOK' /\ LiveSound'
  BY <1>1 DEF ViewIInv, LiveTypeOK, LiveSound
<1>3. CASE view.known
  <2>1. /\ view' = Applied(view, e)
        /\ got' = (got \/ IsResult(e)) /\ UNCHANGED request
    BY <1>3 DEF Deliver, IsResult
  <2>2. /\ e.kind = "status" => e.row \in Rows /\ e.text \in Texts /\ NoNewer(e.text, text)
        /\ got => e.kind = "status"
    <3>1. e.kind = "status" => e.row \in Rows /\ e.text \in Texts
      BY <1>1 DEF Event
    <3>2. e.kind = "status" => NoNewer(e.text, text)
      BY <1>1 DEF ViewIInv, LiveSound
    <3>3. ASSUME got PROVE e.kind = "status"
      <4>1. PICK i \in DOMAIN published : i <= delivered /\ IsResult(published[i])
        BY <3>3 DEF ViewIInv, PageSound
      <4>2. i < delivered + 1
        BY <1>1, <4>1 DEF ViewIInv, LiveTypeOK
      <4>3. QED  BY <1>1, <4>1, <4>2 DEF ViewIInv, LiveSound
    <3>4. QED  BY <3>1, <3>2, <3>3
  <2> HIDE DEF e
  <2>3. view \in Views /\ NoNewer(view.text, text)
    BY DEF ViewIInv, PageSound
  <2>4. /\ view' \in Views /\ view'.known
        /\ NoNewer(view'.text, text)
        /\ e.kind # "status" => view'.text = view.text /\ view'.more
        /\ e.kind = "status" =>
              /\ view'.text = IF e.text = "null" THEN view.text ELSE e.text
              /\ view'.more = (view.more /\ e.text = "null")
    BY <1>3, <2>1, <2>2, <2>3 DEF Applied, Views
  <2>5. RequestsSound'
    BY <1>1, <2>1 DEF ViewIInv, RequestsSound
  <2>6. PageSound'
    <3>1. got' => \E i \in DOMAIN published : i <= delivered + 1 /\ IsResult(published[i])
      <4>1. CASE got
        BY <1>1, <4>1 DEF ViewIInv, PageSound, LiveTypeOK
      <4>2. CASE IsResult(e)
        BY <1>1, <4>2 DEF e
      <4>3. QED  BY <2>1, <4>1, <4>2
    <3>2. delivered' \in 0 .. Len(published) /\ got' \in BOOLEAN
      BY <1>1, <2>1 DEF ViewIInv, PageSound, LiveTypeOK, IsResult
    <3>3. QED  BY <1>1, <2>4, <3>1, <3>2 DEF PageSound
  <2>7. ShowsResult'
    <3>1. SUFFICES ASSUME got', text = "logs"
                   PROVE  view'.text = "logs" /\ ~view'.more
      BY <1>1 DEF ShowsResult
    <3>2. e.kind = "status" /\ e.text \in {"null", "logs"}
      BY <2>1, <2>2, <3>1 DEF IsResult, NoNewer, Texts
    <3>3. CASE e.text = "logs"
      BY <2>4, <3>2, <3>3
    <3>4. CASE e.text = "null"
      <4>1. got
        BY <2>1, <3>1, <3>4 DEF IsResult
      <4>2. QED  BY <2>4, <3>1, <3>2, <3>4, <4>1 DEF ViewIInv, ShowsResult
    <3>5. QED  BY <3>2, <3>3, <3>4
  <2>8. QED  BY <1>2, <2>5, <2>6, <2>7 DEF ViewIInv
<1>4. CASE ~view.known
  <2>1. PICK s \in Slots : request' = [request EXCEPT ![s] = Asked("get")]
    BY <1>4 DEF Deliver
  <2>2. s \in Requests /\ "get" \in Hows /\ UNCHANGED <<view, got>>
    BY <1>4 DEF Deliver, Requests, Hows
  <2>3. RequestsSound'
    <3>1. Asked("get") \in RequestStates /\ Asked("get").state # "answer"
      BY DEF RequestStates, Hows, Asked
    <3>2. QED  BY <1>1, <2>1, <2>2, <3>1, RequestStep DEF ViewIInv
  <2>4. PageSound' /\ ShowsResult'
    BY <1>1, <1>4, <2>2 DEF ViewIInv, PageSound, ShowsResult, LiveTypeOK
  <2>5. QED  BY <1>2, <2>3, <2>4 DEF ViewIInv
<1>5. QED  BY <1>3, <1>4

(* What the other steps of the page leave alone.                           *)
LEMMA Unchanged ==
    ASSUME ViewIInv, UNCHANGED liveVars
    PROVE  /\ LiveTypeOK' /\ LiveSound'
           /\ UNCHANGED request => RequestsSound'
           /\ UNCHANGED <<delivered, view, got>> /\ selected' \in BOOLEAN
                 => PageSound' /\ ShowsResult'
BY DEF ViewIInv, liveVars, LiveTypeOK, LiveSound, RequestsSound, PageSound, ShowsResult

LEMMA SkipStep ==
    ASSUME ViewIInv, Skip
    PROVE  ViewIInv'
<1>1. LiveTypeOK' /\ LiveSound' /\ RequestsSound'
  BY Unchanged DEF Skip
<1>2. PageSound' /\ ShowsResult'
  BY DEF Skip, ViewIInv, liveVars, LiveTypeOK, PageSound, ShowsResult
<1>3. QED  BY <1>1, <1>2 DEF ViewIInv

(* A request is asked, is answered with the row as it is, or fails.        *)
LEMMA RequestSteps ==
    ASSUME ViewIInv,
           \/ Poll
           \/ \E s \in Requests : Serve(s) \/ Drop(s)
    PROVE  ViewIInv'
<1>1. /\ UNCHANGED <<liveVars, delivered, view, selected, got>>
      /\ \E s \in Requests, q \in RequestStates :
             /\ q.state = "answer" => NoNewer(q.text, text)
             /\ request' = [request EXCEPT ![s] = q]
  <2>1. CASE Poll
    <3>1. PICK s \in Slots : request' = [request EXCEPT ![s] = Asked("get")]
      BY <2>1 DEF Poll
    <3>2. s \in Requests
      BY DEF Requests
    <3>3. Asked("get") \in RequestStates /\ Asked("get").state # "answer"
      BY DEF RequestStates, Hows, Asked
    <3>4. QED  BY <2>1, <3>1, <3>2, <3>3 DEF Poll
  <2>2. ASSUME NEW s \in Requests, Serve(s)
        PROVE  /\ UNCHANGED <<liveVars, delivered, view, selected, got>>
               /\ \E q \in RequestStates :
                      /\ q.state = "answer" => NoNewer(q.text, text)
                      /\ request' = [request EXCEPT ![s] = q]
    <3>1. request[s].how \in Hows /\ row \in Rows /\ text \in Texts
      BY <2>2, AnswerFields DEF Serve, ViewIInv, RequestsSound, LiveTypeOK
    <3>2. /\ Answer(request[s].how, row, text) \in RequestStates
          /\ Answer(request[s].how, row, text).text = text
      BY <3>1, AnswerType
    <3>3. NoNewer(text, text)
      BY DEF NoNewer
    <3>4. QED  BY <2>2, <3>2, <3>3 DEF Serve
  <2>3. ASSUME NEW s \in Requests, Drop(s)
        PROVE  /\ UNCHANGED <<liveVars, delivered, view, selected, got>>
               /\ \E q \in RequestStates :
                      /\ q.state = "answer" => NoNewer(q.text, text)
                      /\ request' = [request EXCEPT ![s] = q]
    <3>1. None \in RequestStates /\ None.state # "answer"
      BY DEF RequestStates, None
    <3>2. QED  BY <2>3, <3>1 DEF Drop
  <2>4. QED  BY <2>1, <2>2, <2>3
<1>2. selected' \in BOOLEAN
  BY <1>1 DEF ViewIInv, PageSound
<1>3. LiveTypeOK' /\ LiveSound' /\ PageSound' /\ ShowsResult'
  BY <1>1, <1>2, Unchanged
<1>4. RequestsSound'
  BY <1>1, RequestStep DEF ViewIInv, liveVars
<1>5. QED  BY <1>3, <1>4 DEF ViewIInv

LEMMA SelectSteps ==
    ASSUME ViewIInv, SelectOther \/ SelectThis
    PROVE  ViewIInv'
BY Unchanged DEF SelectOther, SelectThis, ViewIInv

(* The answer to a cancellation holds the text that the row has.           *)
LEMMA CancelStep ==
    ASSUME ViewIInv, ClickCancel
    PROVE  ViewIInv'
<1>1. CancelRow /\ UNCHANGED <<text, open, published, delivered, view, selected, got>>
  BY DEF ClickCancel, CancelRow
<1>2. LiveTypeOK' /\ LiveSound'
  BY <1>1, LiveStep DEF ViewIInv, LiveNext
<1>3. RequestsSound'
  <2>1. PICK s \in Slots : request' = [request EXCEPT ![s] = Answer("get", "cancelled", text)]
    BY DEF ClickCancel
  <2>2. s \in Requests /\ "get" \in Hows /\ "cancelled" \in Rows /\ text \in Texts
    BY DEF Requests, Hows, Rows, ViewIInv, LiveTypeOK
  <2>3. /\ Answer("get", "cancelled", text) \in RequestStates
        /\ Answer("get", "cancelled", text).text = text
    BY <2>2, AnswerType
  <2>4. NoNewer(text, text)
    BY DEF NoNewer
  <2>5. QED  BY <1>1, <2>1, <2>2, <2>3, <2>4, RequestStep DEF ViewIInv
<1>4. PageSound' /\ ShowsResult'
  BY <1>1 DEF ViewIInv, PageSound, ShowsResult
<1>5. QED  BY <1>2, <1>3, <1>4 DEF ViewIInv

(* An answer without a text takes back none, and a list that does is told  *)
(* of no result.                                                           *)
LEMMA ReceiveStep ==
    ASSUME ViewIInv, NEW s \in Requests, Receive(s)
    PROVE  ViewIInv'
<1> DEFINE a == request[s]
<1>1. /\ UNCHANGED liveVars /\ delivered' = delivered
      /\ text' = text /\ published' = published
      /\ a.row \in Rows /\ a.text \in Texts /\ NoNewer(a.text, text)
      /\ request' = [request EXCEPT ![s] = None]
  BY AnswerFields DEF Receive, ViewIInv, RequestsSound, liveVars
<1>2. \/ view' = Upserted(view, a) /\ got' = got
      \/ view' = Listed(a) /\ got' = (got /\ a.text # "null")
      \/ view' = Unknown /\ got' = FALSE
  BY DEF Receive
<1>3. selected' \in BOOLEAN
  BY DEF Receive, ViewIInv, PageSound
<1> HIDE DEF a
<1>4. LiveTypeOK' /\ LiveSound'
  BY <1>1, Unchanged
<1>5. RequestsSound'
  <2>1. None \in RequestStates /\ None.state # "answer"
    BY DEF RequestStates, None
  <2>2. QED  BY <1>1, <2>1, RequestStep DEF ViewIInv
<1>6. /\ view \in Views /\ NoNewer(view.text, text) /\ got \in BOOLEAN
      /\ got => view.known
  BY DEF ViewIInv, PageSound
<1>7. /\ view' \in Views /\ (~view'.known => view' = Unknown)
      /\ NoNewer(view'.text, text)
      /\ got' \in BOOLEAN /\ (got' => got /\ view'.known)
      /\ got' => \/ view'.text = a.text /\ a.text # "null" /\ ~view'.more
                 \/ view'.text = view.text /\ view'.more = view.more
  <2>1. CASE view' = Upserted(view, a) /\ got' = got
    BY <1>1, <1>6, <2>1 DEF Upserted, Views
  <2>2. CASE view' = Listed(a) /\ got' = (got /\ a.text # "null")
    BY <1>1, <1>6, <2>2 DEF Listed, Views
  <2>3. CASE view' = Unknown /\ got' = FALSE
    BY <2>3 DEF Unknown, Views, Rows, Active, Texts, NoNewer
  <2>4. QED  BY <1>2, <2>1, <2>2, <2>3
<1>8. PageSound'
  BY <1>1, <1>3, <1>7 DEF ViewIInv, PageSound
<1>9. ShowsResult'
  BY <1>1, <1>7 DEF ViewIInv, ShowsResult, NoNewer, Texts
<1>10. QED  BY <1>4, <1>5, <1>8, <1>9 DEF ViewIInv

-----------------------------------------------------------------------------
LEMMA ViewStep == ViewIInv /\ [ViewNext]_viewVars => ViewIInv'
<1> SUFFICES ASSUME ViewIInv, [ViewNext]_viewVars PROVE ViewIInv'
  OBVIOUS
<1>1. CASE UNCHANGED viewVars
  BY <1>1, Unchanged DEF viewVars, pageVars, ViewIInv, PageSound
<1>2. CASE LiveNext /\ UNCHANGED pageVars
  BY <1>2, WorkerStep
<1>3. CASE PageStep
  <2>1. CASE Deliver
    BY <2>1, DeliverStep
  <2>2. CASE Skip
    BY <2>2, SkipStep
  <2>3. CASE Poll \/ \E s \in Requests : Serve(s) \/ Drop(s)
    BY <2>3, RequestSteps
  <2>4. CASE ClickCancel
    BY <2>4, CancelStep
  <2>5. CASE SelectOther \/ SelectThis
    BY <2>5, SelectSteps
  <2>6. CASE \E s \in Requests : Receive(s)
    BY <2>6, ReceiveStep
  <2>7. QED  BY <1>3, <2>1, <2>2, <2>3, <2>4, <2>5, <2>6 DEF PageStep
<1>4. QED  BY <1>1, <1>2, <1>3 DEF ViewNext

THEOREM ViewInvariant == ViewSpec => []ViewIInv
BY ViewInitial, ViewStep, PTL DEF ViewSpec

(* The page's record, its requests and the events it received are typed,   *)
(* and a record that it does not know is empty (SessionPage.tsx).          *)
THEOREM ViewTypeCorrect == ViewSpec => []ViewTypeOK
BY ViewInvariant, InvariantTypes, PTL

(* A page that was told of the result shows it, whatever overtakes what    *)
(* (handleExecutionEvent, upsertExecution).                                *)
THEOREM ViewShowsResult == ViewSpec => []ShowsResult
<1>1. ViewIInv => ShowsResult
  BY DEF ViewIInv
<1>2. QED  BY <1>1, ViewInvariant, PTL

=============================================================================

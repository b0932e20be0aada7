---------------------------- MODULE WidgetChatProofs ----------------------------
(***************************************************************************)
(* The chat of the widget for any number of messages and of tokens, any    *)
(* length of the stored history and any set of builds.                     *)
(***************************************************************************)
EXTENDS WidgetBuilds, TLAPS

(***************************************************************************)
(* The types of rows and entries.                                          *)
(***************************************************************************)

Tally == MaxSends \in Nat /\ MaxTokens \in Nat /\ HistoryLimit \in Nat \ {0}

LEMMA TallyFact == Tally
BY ConstantsOK DEF Tally

LEMMA RowIsRow ==
    ASSUME NEW who \in {"user", "bot"}, NEW m \in 0 .. MaxSends,
           NEW kind \in {"sent", "stream", "answer", "error", "old"}
    PROVE  Row(who, m, kind) \in Rows
BY DEF Row, Rows

LEMMA RecentType ==
    ASSUME NEW rs \in Seq(Rows)
    PROVE  Recent(rs) \in Seq(Entries)
<1> DEFINE n == IF Len(rs) > HistoryLimit THEN Len(rs) - HistoryLimit ELSE 0
<1>1. n \in Nat /\ n <= Len(rs)
  BY TallyFact DEF Tally
<1>2. \A i \in 1 .. Len(rs) - n : rs[i + n] \in Rows
  BY <1>1
<1>3. \A i \in 1 .. Len(rs) - n : [who |-> rs[i + n].who, msg |-> rs[i + n].msg] \in Entries
  BY <1>2 DEF Rows, Entries
<1>4. Recent(rs) = [i \in 1 .. Len(rs) - n |-> [who |-> rs[i + n].who, msg |-> rs[i + n].msg]]
  BY DEF Recent
<1>5. Len(rs) - n \in Nat
  BY <1>1
<1> HIDE DEF n
<1> QED BY <1>3, <1>4, <1>5

LEMMA RestoredType ==
    ASSUME NEW es \in Seq(Entries)
    PROVE  Restored(es) \in Seq(Rows)
<1>1. \A i \in DOMAIN es : es[i] \in Entries
  OBVIOUS
<1>3. \A i \in DOMAIN es : Row(es[i].who, es[i].msg, "old") \in Rows
  BY <1>1 DEF Entries, Row, Rows
<1>2. DOMAIN es = 1 .. Len(es) /\ Len(es) \in Nat
  OBVIOUS
<1> QED BY <1>3, <1>2 DEF Restored

LEMMA WholeTextType ==
    ASSUME rows \in Seq(Rows), NEW m \in Messages
    PROVE  WholeText(m) \in Seq(Rows)
<1>1. Row("bot", m, "answer") \in Rows
  BY RowIsRow, TallyFact DEF Messages, Tally
<1>2. DOMAIN rows = 1 .. Len(rows) /\ Len(rows) \in Nat
  OBVIOUS
<1> QED BY <1>1, <1>2 DEF WholeText

LEMMA AppendType ==
    ASSUME NEW rs \in Seq(Rows), NEW r \in Rows
    PROVE  Append(rs, r) \in Seq(Rows)
OBVIOUS

LEMMA RemoveAtType ==
    ASSUME NEW rs \in Seq(Rows), NEW i \in DOMAIN rs
    PROVE  RemoveAt(rs, i) \in Seq(Rows)
<1>1. SubSeq(rs, 1, i - 1) \in Seq(Rows)
  OBVIOUS
<1>2. SubSeq(rs, i + 1, Len(rs)) \in Seq(Rows)
  OBVIOUS
<1> QED BY <1>1, <1>2 DEF RemoveAt

(***************************************************************************)
(* The inductive invariant.                                                *)
(***************************************************************************)

\* The request in flight, and how often its message has been posted.
Flight ==
    /\ loading <=> req.stage # "idle"
    /\ loading => sends \in Messages /\ req.msg = sends /\ first <= sends
    /\ Streaming => req.posts = 1
    /\ req.stage = "idle" => req.posts = 0
    /\ first <= sends + 1

\* What has arrived of the message in flight.  A closed chat sends no text.
Brought ==
    LET a == ans[req.msg] IN
    /\ req.stage = "stream" => a = NoAnswer
    /\ req.stage = "plain" => a.got = 0 /\ a.mode = "none"
    /\ req.stage = "reading" =>
        /\ ~a.closed => a.mode # "finished" /\ a.verdict = "none"
        /\ a.verdict = "quota" => a.got = 0
        /\ ~req.meta => a.got = 0
        /\ a.mode = "none" <=> a.got = 0

\* Messages that have not been sent have no answer, and what is shown of an
\* answer has arrived.
Answering ==
    \A m \in Messages :
        /\ m > sends => ans[m] = NoAnswer
        /\ ans[m].shown <= ans[m].got
        /\ ans[m].mode = "typing" => ans[m].got > 0
        /\ ans[m].mode = "finished" => ans[m].shown = ans[m].got

ChatInv == TypeOK /\ Flight /\ Brought /\ Answering

\* What the stored history is while answers are typed and initialize() waits.
HistoryInv ==
    kept /\ (\A m \in Messages : ans[m].mode # "typing") =>
        /\ ~Restoring => saved = Recent(rows)
        /\ phase = "config" /\ saved = <<>> => rows = <<>>

(***************************************************************************)
(* ChatInv is inductive: one lemma per action.                             *)
(***************************************************************************)

LEMMA FreshAnswers == [m \in Messages |-> NoAnswer] \in [Messages -> Answers]
BY TallyFact DEF NoAnswer, Answers, Verdicts, Tally

LEMMA IdleIsRequest == Idle \in Requests
BY TallyFact DEF Idle, Requests, Tally

LEMMA NoSessionIsSession == NoSession \in Sessions
<1>1. 0 \in Nat /\ FALSE \in BOOLEAN
  OBVIOUS
<1> QED BY <1>1, Zenon DEF NoSession, Sessions

LEMMA ChatInit == Init => ChatInv
<1> SUFFICES ASSUME Init PROVE ChatInv
  OBVIOUS
<1>1. TypeOK
  <2>1. <<>> \in Seq(Rows) /\ <<>> \in Seq(Entries)
    OBVIOUS
  <2>2. 0 \in 0 .. MaxSends /\ 1 \in 1 .. MaxSends + 1
    BY TallyFact DEF Tally
  <2> QED BY <2>1, <2>2, FreshAnswers, IdleIsRequest, NoSessionIsSession DEF Init, TypeOK
<1>2. Flight /\ Brought
  BY DEF Init, Flight, Brought, Streaming, Idle
<1>3. Answering
  BY DEF Init, Answering, NoAnswer
<1> QED BY <1>1, <1>2, <1>3 DEF ChatInv

\* A page without a chat: before Boot's own assignments, and after Leave.
LEMMA FreshPageInv ==
    ASSUME ChatInv, FreshPage, build' \in Builds, phase' \in {"away", "config"},
           session' \in Sessions, UNCHANGED <<saved, kept, sends, first, convs>>
    PROVE  ChatInv'
<1>1. TypeOK'
  <2>1. <<>> \in Seq(Rows)
    OBVIOUS
  <2> QED BY <2>1, FreshAnswers, IdleIsRequest DEF FreshPage, ChatInv, TypeOK
<1>2. Flight' /\ Brought'
  BY DEF FreshPage, ChatInv, Flight, Brought, Streaming, Idle
<1>3. Answering'
  BY DEF FreshPage, ChatInv, Answering, NoAnswer
<1> QED BY <1>1, <1>2, <1>3 DEF ChatInv

LEMMA BootInv ==
    ASSUME ChatInv, NEW b \in Builds, Boot(b)
    PROVE  ChatInv'
BY FreshPageInv DEF Boot, storage, ChatInv, TypeOK

LEMMA LeaveInv ==
    ASSUME ChatInv, Leave
    PROVE  ChatInv'
<1>1. session' \in Sessions
  BY NoSessionIsSession DEF Leave, ChatInv, TypeOK
<1> QED BY <1>1, FreshPageInv DEF Leave, ChatInv, TypeOK

\* Steps that touch neither the request nor an answer.
LEMMA QuietInv ==
    ASSUME ChatInv, TypeOK', UNCHANGED <<loading, req, ans, sends>>,
           first' = first \/ first' = IF loading THEN sends ELSE sends + 1
    PROVE  ChatInv'
<1>1. Flight'
  BY DEF ChatInv, Flight, Streaming, TypeOK
<1>2. Brought' /\ Answering'
  BY DEF ChatInv, Brought, Answering
<1> QED BY <1>1, <1>2 DEF ChatInv

LEMMA ConfigInv ==
    ASSUME ChatInv, ConfigArrives
    PROVE  ChatInv'
<1>1. conv' \in Nat /\ blocked' \in BOOLEAN /\ phase' \in {"away", "config", "history", "ready"}
  BY DEF ConfigArrives, ChatInv, TypeOK, Sessions
<1>2. rows' \in Seq(Rows) /\ saved' \in Seq(Entries) /\ kept' \in BOOLEAN
  <2>1. Restored(saved) \in Seq(Rows) /\ Recent(Restored(saved)) \in Seq(Entries)
    BY RestoredType, RecentType DEF ChatInv, TypeOK
  <2> QED BY <2>1 DEF ConfigArrives, saveLocalHistory, ChatInv, TypeOK
<1>3. TypeOK'
  BY <1>1, <1>2 DEF ConfigArrives, ChatInv, TypeOK
<1> QED BY <1>3, QuietInv DEF ConfigArrives

LEMMA HistoryInvariant ==
    ASSUME ChatInv, HistoryArrives
    PROVE  ChatInv'
<1>1. TypeOK'
  BY DEF HistoryArrives, page, storage, ChatInv, TypeOK
<1> QED BY <1>1, QuietInv DEF HistoryArrives, page

LEMMA OtherTabInv ==
    ASSUME ChatInv, OtherTab
    PROVE  ChatInv'
<1>1. [who |-> "user", msg |-> 0] \in Entries
  BY TallyFact DEF Entries, Tally
<1>2. saved' \in Seq(Entries)
  <2> DEFINE e == [who |-> "user", msg |-> 0]
  <2>1. saved' \in {<<>>, <<e>>}
    BY DEF OtherTab
  <2>2. e \in Entries
    BY <1>1
  <2> HIDE DEF e
  <2>3. <<>> \in Seq(Entries) /\ <<e>> \in Seq(Entries)
    BY <2>2
  <2> QED BY <2>1, <2>3, Zenon
<1>3. TypeOK'
  BY <1>2 DEF OtherTab, page, ChatInv, TypeOK
<1> QED BY <1>3, QuietInv DEF OtherTab, page

LEMMA NewConversationInv ==
    ASSUME ChatInv, NewConversation
    PROVE  ChatInv'
<1>1. session' \in Sessions
  BY DEF NewConversation, ForgetSession, ChatInv, TypeOK, Sessions
<1>2. saved' \in Seq(Entries) /\ rows' \in Seq(Rows) /\ kept' \in BOOLEAN
  BY DEF NewConversation, clearLocalHistory
<1>3. first' \in 1 .. MaxSends + 1
  BY TallyFact DEF NewConversation, ChatInv, TypeOK, Flight, Messages, Tally
<1>4. TypeOK'
  BY <1>1, <1>2, <1>3 DEF NewConversation, ChatInv, TypeOK
<1> QED BY <1>4, QuietInv DEF NewConversation

\* The answer to a message that has been sent is set to a.
LEMMA AnswerSet ==
    ASSUME ChatInv, NEW m \in Messages, m <= sends, NEW a \in Answers,
           a.shown <= a.got, a.mode = "typing" => a.got > 0, a.mode = "finished" => a.shown = a.got,
           ans' = [ans EXCEPT ![m] = a], UNCHANGED sends
    PROVE  /\ ans' \in [Messages -> Answers]
           /\ Answering'
           /\ ans'[m] = a
           /\ \A k \in Messages : k # m => ans'[k] = ans[k]
<1>1. ans' \in [Messages -> Answers] /\ ans'[m] = a /\ \A k \in Messages : k # m => ans'[k] = ans[k]
  BY DEF ChatInv, TypeOK
<1>2. Answering'
  BY <1>1, TallyFact DEF ChatInv, Answering, Messages, Tally, TypeOK
<1> QED BY <1>1, <1>2

\* The message of a request has been sent.
LEMMA InFlight ==
    ASSUME ChatInv, req.stage # "idle"
    PROVE  /\ loading /\ req.msg = sends /\ sends \in Messages /\ first <= sends
           /\ ans[req.msg] \in Answers /\ req.msg \in Messages /\ req.msg \in 0 .. MaxSends
BY TallyFact DEF ChatInv, Flight, TypeOK, Messages, Tally

LEMMA SendInv ==
    ASSUME ChatInv, NEW rs \in Seq(Rows), SendOn(rs)
    PROVE  ChatInv'
<1> DEFINE m    == sends + 1
           sent == Append(rs, Row("user", m, "sent"))
           fail == Append(sent, Row("bot", m, "error"))
<1>1. m \in Messages /\ m \in 0 .. MaxSends /\ sends' = m /\ loading = FALSE /\ first <= m
  BY ConstantsOK, TallyFact DEF SendOn, Refused, ChatInv, TypeOK, Flight, Messages, Tally
<1>2. sent \in Seq(Rows) /\ fail \in Seq(Rows)
  BY <1>1, RowIsRow, AppendType
<1>3. (rows' = fail /\ saved' = Recent(fail)) \/ (rows' = sent /\ saved' = Recent(sent))
  BY DEF SendOn, saveLocalHistory
<1>4. rows' \in Seq(Rows) /\ saved' \in Seq(Entries) /\ kept' \in BOOLEAN
  BY <1>2, <1>3, RecentType DEF SendOn, saveLocalHistory
<1>5. UNCHANGED <<build, phase, conv, blocked, ans, session, first, convs>>
  BY DEF SendOn
<1>9. sends \in Nat /\ first \in Nat /\ first <= m + 1
  BY <1>1, TallyFact DEF ChatInv, TypeOK, Tally
<1>6. Answering'
  BY <1>1, <1>5 DEF ChatInv, Answering, Messages, TypeOK
<1> HIDE DEF sent, fail
<1>7. CASE UNCHANGED <<loading, req>>
  <2>1. TypeOK'
    BY <1>1, <1>4, <1>5, <1>7 DEF ChatInv, TypeOK
  <2>2. Flight' /\ Brought'
    <3>1. req.stage = "idle" /\ req.posts = 0
      BY <1>1 DEF ChatInv, Flight
    <3>2. Flight'
      BY <1>1, <1>5, <1>7, <1>9, <3>1 DEF Flight, Streaming
    <3> QED BY <1>7, <3>1, <3>2 DEF Brought
  <2> QED BY <2>1, <2>2, <1>6 DEF ChatInv
<1>8. CASE /\ loading' = TRUE
           /\ \E stage \in {"stream", "plain"} :
                 req' = [stage |-> stage, msg |-> m, conv |-> conv, meta |-> FALSE, posts |-> 1]
  <2>1. req' \in Requests /\ req'.msg = m /\ req'.posts = 1 /\ req'.stage \in {"stream", "plain"}
    BY <1>1, <1>8 DEF Requests, ChatInv, TypeOK
  <2>2. TypeOK'
    BY <1>1, <1>4, <1>5, <1>8, <2>1 DEF ChatInv, TypeOK
  <2>3. ans[m] = NoAnswer
    BY <1>1 DEF ChatInv, Answering, TypeOK, Messages
  <2>4. Flight'
    BY <1>1, <1>5, <1>8, <1>9, <2>1 DEF Flight, Streaming
  <2>5. Brought'
    BY <1>5, <2>1, <2>3 DEF Brought, NoAnswer
  <2> QED BY <2>2, <2>4, <2>5, <1>6 DEF ChatInv
<1> QED BY <1>7, <1>8 DEF SendOn

LEMMA RetryInv ==
    ASSUME ChatInv, NEW i \in DOMAIN rows, Retry(i)
    PROVE  ChatInv'
<1> DEFINE rest == RemoveAt(rows, i)
<1>1. rest \in Seq(Rows)
  BY RemoveAtType DEF ChatInv, TypeOK
<1>2. CASE SendOn(rest)
  BY <1>1, <1>2, SendInv
<1>3. CASE /\ rows' = rest /\ kept' = FALSE
           /\ UNCHANGED <<build, phase, conv, blocked, loading, req, ans, session, saved, sends, first, convs>>
  <2>1. TypeOK'
    BY <1>1, <1>3 DEF ChatInv, TypeOK
  <2> QED BY <1>3, <2>1, QuietInv
<1> QED BY <1>2, <1>3 DEF Retry

LEMMA OpensInv ==
    ASSUME ChatInv, StreamOpens
    PROVE  ChatInv'
<1>1. req' \in Requests /\ req'.stage = "reading" /\ req'.msg = req.msg /\ req'.posts = req.posts
  BY DEF StreamOpens, ChatInv, TypeOK, Requests
<1>2. TypeOK'
  BY <1>1 DEF StreamOpens, storage, ChatInv, TypeOK
<1>3. Flight' /\ Brought'
  BY <1>1 DEF StreamOpens, ChatInv, Flight, Brought, Streaming, NoAnswer
<1>4. Answering'
  BY DEF StreamOpens, ChatInv, Answering
<1> QED BY <1>2, <1>3, <1>4 DEF ChatInv

LEMMA MetaInv ==
    ASSUME ChatInv, Meta
    PROVE  ChatInv'
<1>1. req' \in Requests /\ req'.stage = req.stage /\ req'.msg = req.msg /\ req'.posts = req.posts
      /\ req'.meta = TRUE
  BY DEF Meta, ChatInv, TypeOK, Requests
<1>2. ServerConv \in Nat /\ convs' \in Nat
  BY DEF Meta, ServerConv, ChatInv, TypeOK, Requests
<1>3. session' \in Sessions
  BY <1>2 DEF Meta, ChatInv, TypeOK, Sessions
<1>4. TypeOK'
  BY <1>1, <1>2, <1>3 DEF Meta, ChatInv, TypeOK
<1>5. Flight' /\ Brought'
  BY <1>1 DEF Meta, ChatInv, Flight, Brought, Streaming
<1>6. Answering'
  BY DEF Meta, ChatInv, Answering
<1> QED BY <1>4, <1>5, <1>6 DEF ChatInv

LEMMA TokenInv ==
    ASSUME ChatInv, Token
    PROVE  ChatInv'
<1> DEFINE m == req.msg
           a == [ans[m] EXCEPT !.got = @ + 1, !.mode = "typing"]
<1>1. m \in Messages /\ m <= sends /\ ans[m] \in Answers /\ m \in 0 .. MaxSends
  BY InFlight DEF Token, Reading, ChatInv, TypeOK
<1>2. a \in Answers /\ a.got > 0 /\ a.shown <= a.got /\ a.mode = "typing"
      /\ a.closed = ans[m].closed /\ a.verdict = ans[m].verdict
  <2> DEFINE g == ans[m].got + 1
  <2>1. g \in 0 .. MaxTokens /\ g > 0 /\ ans[m].shown <= g /\ ans[m].got \in Nat
    BY <1>1, TallyFact DEF Token, Answers, ChatInv, Answering, Tally
  <2>2. a = [ans[m] EXCEPT !.got = g, !.mode = "typing"]
    OBVIOUS
  <2> HIDE DEF g
  <2> QED BY <1>1, <2>1, <2>2 DEF Answers
<1>3. ans' = [ans EXCEPT ![m] = a]
  BY <1>1 DEF Token, ChatInv, TypeOK
<1>4. UNCHANGED <<build, phase, conv, blocked, loading, req, session, saved, kept, sends, first, convs>>
  BY DEF Token, storage
<1>5. rows' \in Seq(Rows)
  BY <1>1, RowIsRow, AppendType DEF Token, ChatInv, TypeOK
<1> HIDE DEF a
<1>6. ans' \in [Messages -> Answers] /\ Answering' /\ ans'[m] = a
  BY <1>1, <1>2, <1>3, <1>4, AnswerSet
<1>7. TypeOK'
  BY <1>4, <1>5, <1>6 DEF ChatInv, TypeOK
<1>8. Flight'
  BY <1>4 DEF ChatInv, Flight, Streaming
<1>9. Brought'
  BY <1>1, <1>2, <1>4, <1>6 DEF Token, Reading, ChatInv, Brought, Answers
<1> QED BY <1>6, <1>7, <1>8, <1>9 DEF ChatInv

LEMMA DoneInv ==
    ASSUME ChatInv, NEW v \in Verdicts, Done(v)
    PROVE  ChatInv'
<1> DEFINE m == req.msg
           a == [ans[m] EXCEPT !.closed = TRUE, !.verdict = v]
<1>1. m \in Messages /\ m <= sends /\ ans[m] \in Answers
  BY InFlight DEF Done, Reading, ChatInv, TypeOK
<1>2. a \in Answers /\ a.got = ans[m].got /\ a.shown = ans[m].shown /\ a.mode = ans[m].mode
      /\ a.closed = TRUE /\ a.verdict = v
  BY <1>1 DEF Answers
<1>3. ans' = [ans EXCEPT ![m] = a]
  BY <1>1 DEF Done, ChatInv, TypeOK
<1>4. UNCHANGED <<build, phase, conv, blocked, rows, loading, req, session, saved, kept, sends, first, convs>>
  BY DEF Done, storage
<1> HIDE DEF a
<1>5. ans' \in [Messages -> Answers] /\ Answering' /\ ans'[m] = a
  BY <1>1, <1>2, <1>3, <1>4, AnswerSet DEF ChatInv, Answering
<1>6. TypeOK'
  BY <1>4, <1>5 DEF ChatInv, TypeOK
<1>7. Flight'
  BY <1>4 DEF ChatInv, Flight, Streaming
<1>8. Brought'
  BY <1>1, <1>2, <1>4, <1>5 DEF Done, Reading, ChatInv, Brought
<1> QED BY <1>5, <1>6, <1>7, <1>8 DEF ChatInv

\* A request that is over leaves nothing in flight.
LEMMA OverInv ==
    ASSUME ChatInv, Over, TypeOK', Answering', UNCHANGED <<sends, first>>
    PROVE  ChatInv'
<1>1. Flight' /\ Brought'
  BY DEF Over, Idle, Flight, Brought, Streaming, ChatInv
<1> QED BY <1>1 DEF ChatInv

LEMMA FailInv ==
    ASSUME ChatInv, req.stage # "idle", Fail, convs' \in Nat
    PROVE  ChatInv'
<1> DEFINE m == req.msg
           mode == IF ans[m].mode = "typing" THEN "dead" ELSE ans[m].mode
           a == [ans[m] EXCEPT !.mode = mode]
           rs == Append(rows, Row("bot", m, "error"))
<1>1. m \in Messages /\ m <= sends /\ ans[m] \in Answers /\ m \in 0 .. MaxSends
  BY InFlight DEF ChatInv, TypeOK
<1>2. mode \in {"none", "finished", "dead"} /\ (mode = "finished" => ans[m].mode = "finished")
  BY <1>1 DEF Answers
<1>3. ans' = [ans EXCEPT ![m] = a]
  BY <1>1 DEF Fail, ChatInv, TypeOK
<1>4. UNCHANGED <<build, phase, conv, blocked, session, sends, first>> /\ Over
  BY DEF Fail
<1>5. rs \in Seq(Rows)
  BY <1>1, RowIsRow, AppendType DEF ChatInv, TypeOK
<1>6. rows' = rs /\ saved' = Recent(rs) /\ kept' = TRUE
  BY DEF Fail, saveLocalHistory
<1> HIDE DEF mode, rs
<1>7. a \in Answers /\ a.got = ans[m].got /\ a.shown = ans[m].shown /\ a.mode = mode
  BY <1>1, <1>2 DEF Answers
<1> HIDE DEF a
<1>8. ans' \in [Messages -> Answers] /\ Answering'
  BY <1>1, <1>2, <1>3, <1>4, <1>7, AnswerSet DEF ChatInv, Answering
<1>9. saved' \in Seq(Entries)
  BY <1>5, <1>6, RecentType
<1>10. TypeOK'
  BY <1>4, <1>5, <1>6, <1>8, <1>9, IdleIsRequest DEF ChatInv, TypeOK, Over
<1> QED BY <1>4, <1>8, <1>10, OverInv

\* A whole answer of its own.
LEMMA AnswerRowInv ==
    ASSUME ChatInv, req.stage # "idle", ans[req.msg].got = 0,
           NEW v \in Verdicts, AnswerRow(req.msg, v), Over,
           session' \in Sessions, conv' \in Nat, convs' \in Nat,
           UNCHANGED <<build, phase, sends, first>>
    PROVE  ChatInv'
<1> DEFINE m == req.msg
           a == [ans[m] EXCEPT !.verdict = v, !.mode = "finished"]
           rs == Append(rows, Row("bot", m, "answer"))
<1>1. m \in Messages /\ m <= sends /\ ans[m] \in Answers /\ m \in 0 .. MaxSends
  BY InFlight DEF ChatInv, TypeOK
<1>2. a \in Answers /\ a.got = 0 /\ a.shown = ans[m].shown /\ a.mode = "finished"
  BY <1>1 DEF Answers
<1>3. ans' = [ans EXCEPT ![m] = a]
  BY <1>1 DEF AnswerRow, ChatInv, TypeOK
<1>4. rs \in Seq(Rows)
  BY <1>1, RowIsRow, AppendType DEF ChatInv, TypeOK
<1>5. rows' = rs /\ saved' = Recent(rs) /\ kept' = TRUE /\ blocked' \in BOOLEAN
  BY DEF AnswerRow, saveLocalHistory, Locks
<1> HIDE DEF a, rs
<1>6. a.shown = a.got /\ a.shown <= a.got
  BY <1>1, <1>2 DEF ChatInv, Answering, Answers
<1>7. ans' \in [Messages -> Answers] /\ Answering'
  BY <1>1, <1>2, <1>3, <1>6, AnswerSet
<1>8. saved' \in Seq(Entries)
  BY <1>4, <1>5, RecentType
<1>9. TypeOK'
  BY <1>4, <1>5, <1>7, <1>8, IdleIsRequest DEF ChatInv, TypeOK, Over
<1> QED BY <1>7, <1>9, OverInv

LEMMA FailsInv ==
    ASSUME ChatInv, StreamFails \/ PlainFails \/ PlainTimeout
    PROVE  ChatInv'
<1>1. req.stage # "idle" /\ Fail /\ convs' \in Nat
  BY DEF StreamFails, PlainFails, PlainTimeout, Streaming, ChatInv, TypeOK
<1> QED BY <1>1, FailInv

\* The bubble of m gets its whole text: the answer, the screen and the storage.
LEMMA FinishFacts ==
    ASSUME ChatInv, NEW m \in Messages, m <= sends, ans[m].got > 0, FinishBubble(m), UNCHANGED sends
    PROVE  /\ ans' \in [Messages -> Answers] /\ Answering'
           /\ ans'[m].mode = "finished" /\ ans'[m].got = ans[m].got
           /\ ans'[m].verdict = ans[m].verdict /\ ans'[m].closed = ans[m].closed
           /\ \A k \in Messages : k # m => ans'[k] = ans[k]
           /\ rows' \in Seq(Rows) /\ saved' \in Seq(Entries) /\ kept' = TRUE
           /\ session' \in Sessions /\ blocked' \in BOOLEAN /\ UNCHANGED conv
<1> DEFINE a == [ans[m] EXCEPT !.shown = ans[m].got, !.mode = "finished"]
           lock == session.blocked \/ Locks(ans[m].verdict)
<1>1. ans[m] \in Answers
  BY DEF ChatInv, TypeOK
<1>2. a \in Answers /\ a.got = ans[m].got /\ a.shown = a.got /\ a.mode = "finished"
      /\ a.verdict = ans[m].verdict /\ a.closed = ans[m].closed
  BY <1>1, TallyFact DEF Answers, Tally
<1>3. ans' = [ans EXCEPT ![m] = a]
  BY DEF FinishBubble, Finish, ChatInv, TypeOK
<1> HIDE DEF a
<1>4. a.shown <= a.got
  BY <1>2 DEF Answers
<1>5. /\ ans' \in [Messages -> Answers] /\ Answering' /\ ans'[m] = a
      /\ \A k \in Messages : k # m => ans'[k] = ans[k]
  BY <1>2, <1>3, <1>4, AnswerSet
<1>6. WholeText(m) \in Seq(Rows) /\ rows' = WholeText(m)
      /\ saved' = Recent(WholeText(m)) /\ kept' = TRUE
  BY WholeTextType DEF ChatInv, TypeOK, FinishBubble, Finish, saveLocalHistory
<1>7. saved' \in Seq(Entries)
  BY <1>6, RecentType
<1>8. lock \in BOOLEAN /\ session' = [session EXCEPT !.blocked = lock]
  BY DEF FinishBubble, Finish, Locks, ChatInv, TypeOK, Sessions
<1> HIDE DEF lock
<1>9. session' \in Sessions
  BY <1>8 DEF ChatInv, TypeOK, Sessions
<1>10. blocked' \in BOOLEAN /\ UNCHANGED conv
  BY DEF FinishBubble, Finish, Locks
<1> QED BY <1>2, <1>5, <1>6, <1>7, <1>9, <1>10

LEMMA AbortInv ==
    ASSUME ChatInv, Abort
    PROVE  ChatInv'
<1>1. req.stage # "idle"
  BY DEF Abort, Streaming
<1>2. CASE Fail /\ UNCHANGED convs
  BY <1>1, <1>2, FailInv DEF ChatInv, TypeOK
<1>3. CASE /\ ans[req.msg].got > 0
           /\ FinishBubble(req.msg)
           /\ Over
           /\ UNCHANGED <<build, phase, sends, first, convs>>
  <2>1. req.msg \in Messages /\ req.msg <= sends
    BY <1>1, InFlight DEF ChatInv, TypeOK
  <2>2. /\ ans' \in [Messages -> Answers] /\ Answering'
        /\ rows' \in Seq(Rows) /\ saved' \in Seq(Entries) /\ kept' = TRUE
        /\ session' \in Sessions /\ blocked' \in BOOLEAN /\ UNCHANGED conv
    BY <1>3, <2>1, FinishFacts
  <2>3. TypeOK'
    BY <1>3, <2>2, IdleIsRequest DEF ChatInv, TypeOK, Over
  <2> QED BY <1>3, <2>2, <2>3, OverInv
<1> QED BY <1>2, <1>3 DEF Abort

LEMMA PaintInv ==
    ASSUME ChatInv, NEW m \in Messages, Paint(m)
    PROVE  ChatInv'
<1>1. m <= sends /\ ans[m] \in Answers /\ ans[m].got > 0
  BY DEF Paint, ChatInv, Answering, NoAnswer, TypeOK, Messages
<1>2. UNCHANGED <<build, phase, loading, req, sends, first, convs>>
  BY DEF Paint
<1>3. Flight'
  BY <1>2 DEF ChatInv, Flight, Streaming
<1>4. ASSUME NEW k \in ans[m].shown + 1 .. ans[m].got,
             ans' = [ans EXCEPT ![m].shown = k],
             UNCHANGED <<conv, blocked, rows, storage>>
      PROVE  ChatInv'
  <2> DEFINE a == [ans[m] EXCEPT !.shown = k]
  <2>1. a \in Answers /\ a.got = ans[m].got /\ a.shown = k /\ a.mode = "typing"
        /\ a.verdict = ans[m].verdict /\ a.closed = ans[m].closed
    BY <1>1, <1>4, TallyFact DEF Answers, Paint, Tally
  <2>2. ans' = [ans EXCEPT ![m] = a]
    BY <1>4 DEF ChatInv, TypeOK
  <2> HIDE DEF a
  <2>3. a.shown <= a.got
    BY <1>1, <1>4, <2>1 DEF Answers
  <2>4. /\ ans' \in [Messages -> Answers] /\ Answering' /\ ans'[m] = a
        /\ \A j \in Messages : j # m => ans'[j] = ans[j]
    BY <1>1, <1>2, <2>1, <2>2, <2>3, AnswerSet
  <2>5. TypeOK'
    BY <1>2, <1>4, <2>4 DEF ChatInv, TypeOK, storage
  <2>6. Brought'
    <3>1. CASE req.stage = "idle"
      BY <1>2, <3>1 DEF Brought
    <3>2. CASE req.stage # "idle" /\ req.msg # m
      BY <1>2, <2>4, <3>2, InFlight DEF ChatInv, Brought
    <3>3. CASE req.stage # "idle" /\ req.msg = m
      <4>1. req.stage = "reading"
        BY <1>1, <3>3 DEF ChatInv, Brought, NoAnswer, TypeOK, Requests, Answers
      <4>2. ans[m].mode = "typing" /\ ans[m].got # 0
        BY <1>1 DEF Paint, Answers
      <4> QED BY <1>2, <2>1, <2>4, <3>3, <4>1, <4>2 DEF ChatInv, Brought
    <3> QED BY <3>1, <3>2, <3>3
  <2> QED BY <1>3, <2>4, <2>5, <2>6 DEF ChatInv
<1>5. CASE Drained(m) /\ FinishBubble(m)
  <2>1. /\ ans' \in [Messages -> Answers] /\ Answering'
        /\ ans'[m].mode = "finished" /\ ans'[m].got = ans[m].got
        /\ ans'[m].verdict = ans[m].verdict /\ ans'[m].closed = ans[m].closed
        /\ \A k \in Messages : k # m => ans'[k] = ans[k]
        /\ rows' \in Seq(Rows) /\ saved' \in Seq(Entries) /\ kept' = TRUE
        /\ session' \in Sessions /\ blocked' \in BOOLEAN /\ UNCHANGED conv
    BY <1>1, <1>2, <1>5, FinishFacts
  <2>2. TypeOK'
    BY <1>2, <2>1 DEF ChatInv, TypeOK
  <2>3. Brought'
    <3>1. CASE req.stage = "idle"
      BY <1>2, <3>1 DEF Brought
    <3>2. CASE req.stage # "idle" /\ req.msg # m
      BY <1>2, <2>1, <3>2, InFlight DEF ChatInv, Brought
    <3>3. CASE req.stage # "idle" /\ req.msg = m
      <4>1. req.stage = "reading"
        BY <1>1, <3>3 DEF ChatInv, Brought, NoAnswer, TypeOK, Requests, Answers
      <4>2. ans[m].closed = TRUE /\ ans[m].got # 0
        BY <1>1, <1>5 DEF Drained, Answers
      <4> QED BY <1>2, <2>1, <3>3, <4>1, <4>2 DEF ChatInv, Brought
    <3> QED BY <3>1, <3>2, <3>3
  <2> QED BY <1>3, <2>1, <2>2, <2>3 DEF ChatInv
<1> QED BY <1>4, <1>5 DEF Paint

LEMMA EndsInv ==
    ASSUME ChatInv, StreamEnds
    PROVE  ChatInv'
<1> DEFINE m == req.msg
<1>1. /\ Streaming /\ req.stage # "idle" /\ m \in Messages /\ m <= sends /\ ans[m] \in Answers
      /\ m \in 0 .. MaxSends
  BY InFlight DEF StreamEnds, Streaming, ChatInv, TypeOK
<1>2. CASE ans[m].got = 0 /\ Fallback
  <2>1. req' \in Requests /\ req'.stage = "plain" /\ req'.msg = m /\ req'.posts = 2
    <3>1. req \in Requests /\ conv \in Nat /\ req.posts = 1
      BY <1>1 DEF ChatInv, TypeOK, Flight
    <3>2. req' = [req EXCEPT !.stage = "plain", !.conv = conv, !.posts = 2]
      BY <1>2, <3>1 DEF Fallback
    <3>3. req' \in Requests
      <4>1. req.msg \in 0 .. MaxSends /\ req.meta \in BOOLEAN
        BY <3>1 DEF Requests
      <4>2. req' = [stage |-> "plain", msg |-> req.msg, conv |-> conv, meta |-> req.meta, posts |-> 2]
        BY <3>1, <3>2 DEF Requests
      <4> HIDE DEF m
      <4>3. "plain" \in {"idle", "stream", "reading", "plain"} /\ 2 \in 0 .. 2
        OBVIOUS
      <4> QED BY <3>1, <4>1, <4>2, <4>3, Zenon DEF Requests
    <3>4. req'.stage = "plain" /\ req'.msg = req.msg /\ req'.posts = 2
      BY <3>1, <3>2 DEF Requests
    <3> QED BY <3>3, <3>4
  <2>2. ans[m].mode = "none"
    BY <1>1, <1>2 DEF ChatInv, Brought, NoAnswer, Streaming
  <2>5. UNCHANGED <<loading, ans, sends, first>> /\ req'.stage # "idle"
    BY <1>2, <2>1 DEF Fallback
  <2>3. TypeOK'
    BY <1>2, <2>1 DEF Fallback, storage, ChatInv, TypeOK
  <2>4. Flight'
    BY <1>1, <2>1, <2>5 DEF ChatInv, Flight, Streaming
  <2>6. Brought'
    BY <1>2, <2>1, <2>2, <2>5 DEF Brought
  <2>7. Answering'
    BY <2>5 DEF ChatInv, Answering
  <2> QED BY <2>3, <2>4, <2>6, <2>7 DEF ChatInv
<1>3. CASE /\ ans[m].verdict = "quota" /\ build \in Guarded
           /\ AnswerRow(m, "quota")
           /\ session' = [session EXCEPT !.blocked = TRUE]
           /\ Over
           /\ UNCHANGED <<build, phase, conv, sends, first, convs>>
  <2>1. ans[m].got = 0
    BY <1>1, <1>3 DEF ChatInv, Brought, NoAnswer, Streaming
  <2>2. session' \in Sessions
    BY <1>3 DEF ChatInv, TypeOK, Sessions
  <2> QED BY <1>1, <1>3, <2>1, <2>2, AnswerRowInv DEF ChatInv, TypeOK, Verdicts, Locking
<1>4. CASE /\ ans[m].got > 0
           /\ ans' = [ans EXCEPT ![m].closed = TRUE]
           /\ Over
           /\ UNCHANGED <<build, phase, conv, blocked, rows, storage, sends, first, convs>>
  <2> DEFINE a == [ans[m] EXCEPT !.closed = TRUE]
  <2>1. a \in Answers /\ a.got = ans[m].got /\ a.shown = ans[m].shown /\ a.mode = ans[m].mode
    BY <1>1 DEF Answers
  <2>2. ans' = [ans EXCEPT ![m] = a]
    BY <1>1, <1>4 DEF ChatInv, TypeOK
  <2> HIDE DEF a
  <2>5. /\ a.shown <= a.got /\ (a.mode = "typing" => a.got > 0)
        /\ a.mode = "finished" => a.shown = a.got
    BY <1>1, <2>1 DEF ChatInv, Answering
  <2>3. ans' \in [Messages -> Answers] /\ Answering'
    BY <1>1, <1>4, <2>1, <2>2, <2>5, AnswerSet
  <2>4. TypeOK'
    BY <1>4, <2>3, IdleIsRequest DEF ChatInv, TypeOK, Over, storage
  <2> QED BY <1>4, <2>3, <2>4, OverInv
<1> QED BY <1>2, <1>3, <1>4 DEF StreamEnds

LEMMA PlainReplyInv ==
    ASSUME ChatInv, NEW v \in Verdicts, PlainReply(v)
    PROVE  ChatInv'
<1> DEFINE m == req.msg
           c == IF v = "quota" THEN conv ELSE ServerConv
<1>1. /\ req.stage = "plain" /\ m \in Messages /\ m <= sends /\ ans[m] \in Answers
      /\ ans[m].got = 0
  BY InFlight DEF PlainReply, ChatInv, TypeOK, Brought
<1>2. c \in Nat /\ convs' \in Nat
  BY DEF PlainReply, ServerConv, ChatInv, TypeOK, Requests
<1> HIDE DEF c
<1>3. CASE /\ conv' = c
           /\ session' = [conv |-> IF c # 0 THEN c ELSE session.conv,
                          blocked |-> session.blocked \/ Locks(v)]
           /\ AnswerRow(req.msg, v)
           /\ Over
           /\ UNCHANGED <<build, phase, sends, first>>
  <2> DEFINE sc == IF c # 0 THEN c ELSE session.conv
             sb == session.blocked \/ Locks(v)
  <2>1. sc \in Nat /\ sb \in BOOLEAN
    BY <1>2 DEF Locks, ChatInv, TypeOK, Sessions
  <2>2. session' = [conv |-> sc, blocked |-> sb]
    BY <1>3
  <2> HIDE DEF sc, sb
  <2>3. session' \in Sessions
    BY <2>1, <2>2 DEF Sessions
  <2> QED BY <1>1, <1>2, <1>3, <2>3, AnswerRowInv DEF ChatInv, TypeOK
<1>4. CASE Fail
  BY <1>1, <1>2, <1>4, FailInv
<1> QED BY <1>3, <1>4 DEF PlainReply, c

LEMMA ChatStep ==
    ASSUME ChatInv, [Next]_vars
    PROVE  ChatInv'
<1>1. ASSUME NEW b \in Builds, Boot(b) PROVE ChatInv'
  BY <1>1, BootInv
<1>2. CASE Starting
  BY <1>2, ConfigInv, HistoryInvariant DEF Starting
<1>3. CASE Sending
  BY <1>3, SendInv DEF Sending, Send, ChatInv, TypeOK
<1>4. CASE Buttons
  BY <1>4, NewConversationInv DEF Buttons
<1>5. CASE RowButtons
  BY <1>5, RetryInv DEF RowButtons
<1>6. CASE Stream
  <2>1. CASE StreamOpens \/ Meta \/ Token
    BY <2>1, OpensInv, MetaInv, TokenInv
  <2>2. CASE StreamEnds \/ StreamFails \/ StreamTimeout
    BY <2>2, EndsInv, FailsInv, AbortInv DEF StreamTimeout
  <2>3. CASE \E v \in Verdicts : Done(v)
    BY <2>3, DoneInv
  <2>4. CASE Typing
    BY <2>4, PaintInv DEF Typing
  <2> QED BY <1>6, <2>1, <2>2, <2>3, <2>4 DEF Stream
<1>7. CASE Backend
  BY <1>7, PlainReplyInv, FailsInv DEF Backend
<1>8. CASE Leave
  BY <1>8, LeaveInv
<1>9. CASE OtherTab
  BY <1>9, OtherTabInv
<1>10. CASE UNCHANGED vars
  <2>1. TypeOK'
    BY <1>10 DEF vars, page, storage, ChatInv, TypeOK
  <2> QED BY <1>10, <2>1, QuietInv DEF vars, page
<1> QED BY <1>1, <1>2, <1>3, <1>4, <1>5, <1>6, <1>7, <1>8, <1>9, <1>10 DEF Next, Widget

LEMMA ChatInvariant == Spec => []ChatInv
BY ChatInit, ChatStep, PTL DEF Spec

(***************************************************************************)
(* Page and sessionStorage.                                                *)
(***************************************************************************)

\* A step that leaves the session alone, and finishes no answer.
LEMMA SameSession ==
    ASSUME StorageAgrees, UNCHANGED <<build, conv, blocked, session>>,
           Restoring => Restoring',
           \A m \in Messages : ans'[m].mode = "finished" =>
                ans[m].mode = "finished" /\ ans'[m].verdict = ans[m].verdict
    PROVE  StorageAgrees'
<1>1. SessionAgrees'
  BY DEF StorageAgrees, SessionAgrees
<1>2. RefusalIsKept'
  BY DEF StorageAgrees, RefusalIsKept, Locks
<1> QED BY <1>1, <1>2 DEF StorageAgrees

LEMMA FreshPageAgrees ==
    ASSUME FreshPage, Restoring'
    PROVE  StorageAgrees'
<1>1. SessionAgrees'
  BY DEF SessionAgrees
<1>2. RefusalIsKept'
  BY DEF FreshPage, RefusalIsKept, NoAnswer
<1> QED BY <1>1, <1>2 DEF StorageAgrees

LEMMA ConfigAgrees ==
    ASSUME ChatInv, StorageAgrees, ConfigArrives
    PROVE  StorageAgrees'
<1>1. UNCHANGED <<build, ans, session>> /\ conv' = session.conv
      /\ blocked' = (build \in Guarded /\ session.blocked) /\ session \in Sessions
  BY DEF ConfigArrives, ChatInv, TypeOK
<1>2. SessionAgrees'
  BY <1>1 DEF SessionAgrees, Sessions
<1>3. RefusalIsKept'
  BY <1>1 DEF StorageAgrees, RefusalIsKept, Locks
<1> QED BY <1>2, <1>3 DEF StorageAgrees

LEMMA SendAgrees ==
    ASSUME StorageAgrees, NEW rs, SendOn(rs)
    PROVE  StorageAgrees'
<1>1. UNCHANGED <<build, phase, conv, blocked, ans, session>>
  BY DEF SendOn
<1> QED BY <1>1, SameSession DEF Restoring

LEMMA MetaAgrees ==
    ASSUME ChatInv, StorageAgrees, Meta
    PROVE  StorageAgrees'
<1>1. UNCHANGED <<build, blocked, ans, phase>> /\ conv' = ServerConv
      /\ session' = [session EXCEPT !.conv = ServerConv] /\ session \in Sessions
  BY DEF Meta, ChatInv, TypeOK
<1>2. session'.conv = conv' /\ session'.blocked = session.blocked
  BY <1>1 DEF Sessions
<1>3. SessionAgrees'
  BY <1>1, <1>2 DEF StorageAgrees, SessionAgrees, Restoring
<1>4. RefusalIsKept'
  BY <1>1, <1>2 DEF StorageAgrees, RefusalIsKept, Locks
<1> QED BY <1>3, <1>4 DEF StorageAgrees

LEMMA NewConversationAgrees ==
    ASSUME ChatInv, StorageAgrees, NewConversation
    PROVE  StorageAgrees'
<1>1. UNCHANGED <<build, phase, blocked, ans>> /\ conv' = 0
      /\ session' = [session EXCEPT !.conv = 0] /\ session \in Sessions
  BY DEF NewConversation, ForgetSession, ChatInv, TypeOK
<1>2. session'.conv = 0 /\ session'.blocked = session.blocked
  BY <1>1 DEF Sessions
<1>3. SessionAgrees'
  BY <1>1, <1>2 DEF StorageAgrees, SessionAgrees, Restoring
<1>4. RefusalIsKept'
  BY <1>1, <1>2 DEF StorageAgrees, RefusalIsKept, Locks
<1> QED BY <1>3, <1>4 DEF StorageAgrees

\* done finds the answer unfinished: its verdict is not yet that of a refusal shown.
LEMMA DoneAgrees ==
    ASSUME ChatInv, StorageAgrees, NEW v \in Verdicts, Done(v)
    PROVE  StorageAgrees'
<1>1. req.msg \in Messages /\ ans[req.msg].mode # "finished"
  BY InFlight DEF Done, Reading, ChatInv, Brought
<1>2. UNCHANGED <<build, phase, conv, blocked, session>>
      /\ ans' = [ans EXCEPT ![req.msg].closed = TRUE, ![req.msg].verdict = v]
  BY DEF Done, storage
<1>3. ans[req.msg] \in Answers /\ ans \in [Messages -> Answers]
  BY <1>1 DEF ChatInv, TypeOK
<1>4. \A m \in Messages : ans'[m].mode = "finished" =>
          ans[m].mode = "finished" /\ ans'[m].verdict = ans[m].verdict
  BY <1>1, <1>2, <1>3 DEF Answers
<1> QED BY <1>2, <1>4, SameSession DEF Restoring

LEMMA TokenAgrees ==
    ASSUME ChatInv, StorageAgrees, Token
    PROVE  StorageAgrees'
<1>1. req.msg \in Messages
  BY InFlight DEF Token, Reading
<1>2. UNCHANGED <<build, phase, conv, blocked, session>>
      /\ ans' = [ans EXCEPT ![req.msg].got = @ + 1, ![req.msg].mode = "typing"]
  BY DEF Token, storage
<1>3. ans[req.msg] \in Answers /\ ans \in [Messages -> Answers]
  BY <1>1 DEF ChatInv, TypeOK
<1>4. \A m \in Messages : ans'[m].mode = "finished" =>
          ans[m].mode = "finished" /\ ans'[m].verdict = ans[m].verdict
  BY <1>1, <1>2, <1>3 DEF Answers
<1> QED BY <1>2, <1>4, SameSession DEF Restoring

LEMMA FailAgrees ==
    ASSUME ChatInv, StorageAgrees, req.stage # "idle", Fail
    PROVE  StorageAgrees'
<1>1. req.msg \in Messages
  BY InFlight
<1>2. UNCHANGED <<build, phase, conv, blocked, session>>
      /\ ans' = [ans EXCEPT ![req.msg].mode = IF @ = "typing" THEN "dead" ELSE @]
  BY DEF Fail
<1>3. ans[req.msg] \in Answers /\ ans \in [Messages -> Answers]
  BY <1>1 DEF ChatInv, TypeOK
<1>4. \A m \in Messages : ans'[m].mode = "finished" =>
          ans[m].mode = "finished" /\ ans'[m].verdict = ans[m].verdict
  BY <1>1, <1>2, <1>3 DEF Answers
<1> QED BY <1>2, <1>4, SameSession DEF Restoring

\* A bubble is finished: the verdict locks the page and the session alike.
LEMMA FinishAgrees ==
    ASSUME ChatInv, StorageAgrees, NEW m \in Messages, FinishBubble(m), UNCHANGED <<build, phase>>
    PROVE  StorageAgrees'
<1> DEFINE lock == Locks(ans[m].verdict)
<1>1. /\ ans \in [Messages -> Answers] /\ session \in Sessions /\ blocked \in BOOLEAN
      /\ conv' = conv /\ blocked' = (blocked \/ lock) /\ lock \in BOOLEAN
  BY DEF FinishBubble, Finish, ChatInv, TypeOK, Locks
<1>2. session' = [session EXCEPT !.blocked = session.blocked \/ lock]
  BY <1>1 DEF FinishBubble, Finish, Sessions
<1>3. /\ ans'[m].verdict = ans[m].verdict
      /\ \A k \in Messages : k # m => ans'[k] = ans[k]
  BY <1>1 DEF FinishBubble, Finish, Answers
<1>4. lock = TRUE \/ lock = FALSE
  BY <1>1
<1>5. session'.conv = session.conv /\ session'.blocked = (session.blocked \/ lock)
  <2> HIDE DEF lock
  <2> QED BY <1>1, <1>2, <1>4 DEF Sessions
<1>6. SessionAgrees'
  <2> HIDE DEF lock
  <2> QED BY <1>1, <1>4, <1>5 DEF StorageAgrees, SessionAgrees, Restoring
<1>7. RefusalIsKept'
  BY <1>3, <1>5 DEF StorageAgrees, RefusalIsKept, Locks
<1> QED BY <1>6, <1>7 DEF StorageAgrees

\* An answer in a row of its own: page and session come to the same.
LEMMA AnswerRowAgrees ==
    ASSUME ChatInv, StorageAgrees, req.stage # "idle", NEW v \in Verdicts, AnswerRow(req.msg, v),
           UNCHANGED <<build, phase>>,
           ~Restoring => session'.conv = conv',
           session'.blocked = (session.blocked \/ Locks(v))
    PROVE  StorageAgrees'
<1>1. req.msg \in Messages
  BY InFlight
<1>2. ans \in [Messages -> Answers] /\ blocked' = (blocked \/ Locks(v))
  BY DEF AnswerRow, ChatInv, TypeOK
<1>3. /\ ans'[req.msg].verdict = v
      /\ \A k \in Messages : k # req.msg => ans'[k] = ans[k]
  BY <1>1, <1>2 DEF AnswerRow, Answers
<1>4. SessionAgrees'
  BY <1>2, Zenon DEF StorageAgrees, SessionAgrees, Restoring
<1>5. RefusalIsKept'
  BY <1>3 DEF StorageAgrees, RefusalIsKept, Locks
<1> QED BY <1>4, <1>5 DEF StorageAgrees

LEMMA EndsAgrees ==
    ASSUME ChatInv, StorageAgrees, StreamEnds
    PROVE  StorageAgrees'
<1>1. req.stage # "idle" /\ req.msg \in Messages
  BY InFlight DEF StreamEnds, Streaming
<1>2. CASE Fallback
  BY <1>2, SameSession DEF Fallback, storage, Restoring
<1>3. CASE /\ build \in Guarded
           /\ AnswerRow(req.msg, "quota")
           /\ session' = [session EXCEPT !.blocked = TRUE]
           /\ UNCHANGED <<build, phase, conv, sends, first, convs>>
  <2>1. "quota" \in Verdicts /\ Locks("quota")
    BY <1>3 DEF Verdicts, Locking, Locks
  <2>2. session'.conv = session.conv /\ session'.blocked = TRUE
    BY <1>3 DEF ChatInv, TypeOK, Sessions
  <2>3. ~Restoring => session'.conv = conv'
    BY <1>3, <2>2 DEF StorageAgrees, SessionAgrees
  <2>4. session'.blocked = (session.blocked \/ Locks("quota"))
    BY <2>1, <2>2
  <2> QED BY <1>1, <1>3, <2>1, <2>3, <2>4, AnswerRowAgrees
<1>4. CASE /\ ans' = [ans EXCEPT ![req.msg].closed = TRUE]
           /\ UNCHANGED <<build, phase, conv, blocked, rows, storage, sends, first, convs>>
  <2>1. \A m \in Messages : ans'[m].mode = ans[m].mode /\ ans'[m].verdict = ans[m].verdict
    BY <1>1, <1>4 DEF ChatInv, TypeOK, Answers
  <2> QED BY <1>4, <2>1, SameSession DEF storage, Restoring
<1> QED BY <1>2, <1>3, <1>4 DEF StreamEnds

LEMMA PaintAgrees ==
    ASSUME ChatInv, StorageAgrees, NEW m \in Messages, Paint(m)
    PROVE  StorageAgrees'
<1>1. UNCHANGED <<build, phase>>
  BY DEF Paint
<1>2. ASSUME NEW k \in ans[m].shown + 1 .. ans[m].got,
             ans' = [ans EXCEPT ![m].shown = k],
             UNCHANGED <<conv, blocked, rows, storage>>
      PROVE  StorageAgrees'
  <2>1. \A j \in Messages : ans'[j].mode = ans[j].mode /\ ans'[j].verdict = ans[j].verdict
    BY <1>2 DEF ChatInv, TypeOK, Answers
  <2> QED BY <1>1, <1>2, <2>1, SameSession DEF storage, Restoring
<1>3. CASE FinishBubble(m)
  BY <1>1, <1>3, FinishAgrees
<1> QED BY <1>2, <1>3 DEF Paint

\* A closed chat names no conversation: then the page keeps the one it has.
LEMMA PlainReplyAgrees ==
    ASSUME ChatInv, StorageAgrees, NEW v \in Verdicts, PlainReply(v)
    PROVE  StorageAgrees'
<1> DEFINE c == IF v = "quota" THEN conv ELSE ServerConv
<1>1. req.stage # "idle"
  BY DEF PlainReply
<1>2. CASE Fail
  BY <1>1, <1>2, FailAgrees
<1>3. CASE /\ conv' = c
           /\ session' = [conv |-> IF c # 0 THEN c ELSE session.conv,
                          blocked |-> session.blocked \/ Locks(v)]
           /\ AnswerRow(req.msg, v)
           /\ UNCHANGED <<build, phase, sends, first>>
  <2>1. c = 0 => c = conv
    BY DEF ServerConv, ChatInv, TypeOK, Requests
  <2> HIDE DEF c
  <2>2. session'.conv = IF c # 0 THEN c ELSE session.conv
    BY <1>3
  <2>3. session'.blocked = (session.blocked \/ Locks(v))
    BY <1>3
  <2>4. ~Restoring => session'.conv = conv'
    BY <1>3, <2>1, <2>2 DEF StorageAgrees, SessionAgrees
  <2> QED BY <1>1, <1>3, <2>3, <2>4, AnswerRowAgrees
<1> QED BY <1>2, <1>3 DEF PlainReply

LEMMA StorageStep ==
    ASSUME ChatInv, StorageAgrees, [Next]_vars
    PROVE  StorageAgrees'
<1>1. ASSUME NEW b \in Builds, Boot(b) PROVE StorageAgrees'
  BY <1>1, FreshPageAgrees DEF Boot, Restoring
<1>2. CASE Starting
  <2>1. CASE ConfigArrives
    BY <2>1, ConfigAgrees
  <2>2. CASE HistoryArrives
    BY <2>2, SameSession DEF HistoryArrives, page, storage, Restoring
  <2> QED BY <1>2, <2>1, <2>2 DEF Starting
<1>3. CASE Sending
  BY <1>3, SendAgrees DEF Sending, Send
<1>4. CASE Buttons
  BY <1>4, NewConversationAgrees DEF Buttons
<1>5. ASSUME NEW i \in DOMAIN rows, Retry(i) PROVE StorageAgrees'
  <2>1. CASE SendOn(RemoveAt(rows, i))
    BY <2>1, SendAgrees
  <2>2. CASE UNCHANGED <<build, phase, conv, blocked, loading, req, ans, session, saved, sends, first, convs>>
    BY <2>2, SameSession DEF Restoring
  <2> QED BY <1>5, <2>1, <2>2 DEF Retry
<1>6. CASE Stream
  <2>1. CASE StreamOpens
    BY <2>1, SameSession DEF StreamOpens, storage, Restoring
  <2>2. CASE Meta \/ Token \/ StreamEnds
    BY <2>2, MetaAgrees, TokenAgrees, EndsAgrees
  <2>3. CASE StreamFails
    BY <2>3, FailAgrees DEF StreamFails, Streaming
  <2>4. CASE StreamTimeout
    <3>1. req.stage # "idle" /\ req.msg \in Messages
      BY <2>4, InFlight DEF StreamTimeout, Abort, Streaming
    <3> QED BY <2>4, <3>1, FailAgrees, FinishAgrees DEF StreamTimeout, Abort
  <2>5. CASE \E v \in Verdicts : Done(v)
    BY <2>5, DoneAgrees
  <2>6. CASE Typing
    BY <2>6, PaintAgrees DEF Typing
  <2> QED BY <1>6, <2>1, <2>2, <2>3, <2>4, <2>5, <2>6 DEF Stream
<1>7. CASE Backend
  <2>1. CASE PlainFails \/ PlainTimeout
    BY <2>1, FailAgrees DEF PlainFails, PlainTimeout
  <2> QED BY <1>7, <2>1, PlainReplyAgrees DEF Backend
<1>8. CASE Leave
  BY <1>8, FreshPageAgrees DEF Leave, Restoring
<1>9. CASE OtherTab
  BY <1>9, SameSession DEF OtherTab, page, Restoring
<1>10. CASE UNCHANGED vars
  BY <1>10, SameSession DEF vars, page, storage, Restoring
<1> QED BY <1>1, <1>2, <1>3, <1>4, <1>5, <1>6, <1>7, <1>8, <1>9, <1>10 DEF Next, Widget, RowButtons

(***************************************************************************)
(* What a new conversation shows.                                          *)
(***************************************************************************)

\* Every row, or entry, of s is an old one or that of message f or a later one.
From(s, f) == \A i \in DOMAIN s : s[i].msg = 0 \/ s[i].msg >= f

LEMMA FromAppend ==
    ASSUME NEW f \in Nat, NEW rs \in Seq(Rows), From(rs, f), NEW r \in Rows, r.msg >= f
    PROVE  From(Append(rs, r), f)
BY DEF From

LEMMA FromRecent ==
    ASSUME NEW f \in Nat, NEW rs \in Seq(Rows), From(rs, f)
    PROVE  From(Recent(rs), f)
<1> DEFINE n == IF Len(rs) > HistoryLimit THEN Len(rs) - HistoryLimit ELSE 0
<1>1. n \in Nat /\ n <= Len(rs)
  BY TallyFact DEF Tally
<1>2. Recent(rs) = [i \in 1 .. Len(rs) - n |-> [who |-> rs[i + n].who, msg |-> rs[i + n].msg]]
  BY DEF Recent
<1> HIDE DEF n
<1>3. \A i \in DOMAIN Recent(rs) : i + n \in DOMAIN rs /\ Recent(rs)[i].msg = rs[i + n].msg
  BY <1>1, <1>2
<1> QED BY <1>3 DEF From

LEMMA FromRestored ==
    ASSUME NEW f \in Nat, NEW es \in Seq(Entries), From(es, f)
    PROVE  From(Restored(es), f)
BY DEF From, Restored, Row

LEMMA FromWholeText ==
    ASSUME NEW f \in Nat, rows \in Seq(Rows), From(rows, f), NEW m
    PROVE  From(WholeText(m), f)
BY DEF From, WholeText, Row

LEMMA RemoveAtRows ==
    ASSUME NEW rs \in Seq(Rows), NEW i \in DOMAIN rs
    PROVE  /\ DOMAIN RemoveAt(rs, i) = 1 .. Len(rs) - 1
           /\ \A j \in 1 .. Len(rs) - 1 :
                  RemoveAt(rs, i)[j] = rs[IF j < i THEN j ELSE j + 1]
<1> DEFINE s == SubSeq(rs, 1, i - 1)
           u == SubSeq(rs, i + 1, Len(rs))
<1>1. i \in 1 .. Len(rs) /\ Len(rs) \in Nat
  OBVIOUS
<1>2. s \in Seq(Rows) /\ Len(s) = i - 1 /\ \A j \in 1 .. i - 1 : s[j] = rs[j]
  BY <1>1
<1>3. u \in Seq(Rows) /\ Len(u) = Len(rs) - i /\ \A j \in 1 .. Len(rs) - i : u[j] = rs[j + i]
  BY <1>1
<1>4. RemoveAt(rs, i) = s \o u
  BY DEF RemoveAt
<1> HIDE DEF s, u
<1>5. Len(s \o u) = Len(rs) - 1 /\ s \o u \in Seq(Rows)
  BY <1>1, <1>2, <1>3
<1>6. ASSUME NEW j \in 1 .. Len(rs) - 1
      PROVE  (s \o u)[j] = rs[IF j < i THEN j ELSE j + 1]
  <2>1. CASE j < i
    BY <1>1, <1>2, <1>3, <2>1
  <2>2. CASE ~(j < i)
    <3>1. (s \o u)[j] = u[j - (i - 1)]
      BY <1>1, <1>2, <1>3, <2>2
    <3>2. j - (i - 1) \in 1 .. Len(rs) - i
      BY <1>1, <2>2
    <3>3. u[j - (i - 1)] = rs[(j - (i - 1)) + i]
      BY <1>3, <3>2
    <3>4. (j - (i - 1)) + i = j + 1
      BY <1>1
    <3> QED BY <2>2, <3>1, <3>3, <3>4
  <2> QED BY <2>1, <2>2
<1> QED BY <1>4, <1>5, <1>6

LEMMA FromRemoveAt ==
    ASSUME NEW f \in Nat, NEW rs \in Seq(Rows), From(rs, f), NEW i \in DOMAIN rs
    PROVE  From(RemoveAt(rs, i), f)
<1>1. \A j \in 1 .. Len(rs) - 1 : (IF j < i THEN j ELSE j + 1) \in DOMAIN rs
  OBVIOUS
<1> QED BY <1>1, RemoveAtRows DEF From

\* The screen and what is stored of it start at the same message.
Clean == From(rows, first) /\ From(saved, first)

LEMMA SavedClean ==
    ASSUME ChatInv, Clean, NEW rs \in Seq(Rows), From(rs, first), rows' = rs,
           saved' = Recent(rs), UNCHANGED first
    PROVE  Clean'
<1>1. first \in Nat
  BY TallyFact DEF ChatInv, TypeOK, Tally
<1>2. From(Recent(rs), first)
  BY <1>1, FromRecent
<1> QED BY <1>2 DEF Clean

\* A row about the message in flight.
LEMMA InFlightClean ==
    ASSUME ChatInv, Clean, req.stage # "idle", NEW kind \in {"stream", "answer", "error"}
    PROVE  LET rs == Append(rows, Row("bot", req.msg, kind)) IN
           rs \in Seq(Rows) /\ From(rs, first)
<1>1. req.msg = sends /\ first <= sends /\ req.msg \in 0 .. MaxSends
  BY InFlight
<1>2. Row("bot", req.msg, kind) \in Rows
  BY <1>1, RowIsRow
<1>3. Row("bot", req.msg, kind).msg >= first /\ first \in Nat
  BY <1>1, TallyFact DEF Row, ChatInv, TypeOK, Tally
<1>4. From(Append(rows, Row("bot", req.msg, kind)), first)
  BY <1>2, <1>3, FromAppend DEF Clean, ChatInv, TypeOK
<1> QED BY <1>2, <1>4, AppendType DEF ChatInv, TypeOK

LEMMA SendClean ==
    ASSUME ChatInv, Clean, NEW rs \in Seq(Rows), From(rs, first), SendOn(rs)
    PROVE  Clean'
<1> DEFINE m    == sends + 1
           sent == Append(rs, Row("user", m, "sent"))
           fail == Append(sent, Row("bot", m, "error"))
<1>1. m \in 0 .. MaxSends /\ first <= m /\ first \in Nat /\ UNCHANGED first
  BY ConstantsOK, TallyFact DEF SendOn, ChatInv, TypeOK, Flight, Messages, Tally
<1>2. /\ Row("user", m, "sent") \in Rows /\ Row("user", m, "sent").msg >= first
      /\ Row("bot", m, "error") \in Rows /\ Row("bot", m, "error").msg >= first
  BY <1>1, RowIsRow DEF Row
<1>3. sent \in Seq(Rows) /\ From(sent, first)
  BY <1>1, <1>2, AppendType, FromAppend
<1>4. fail \in Seq(Rows) /\ From(fail, first)
  BY <1>1, <1>2, <1>3, AppendType, FromAppend
<1>5. (rows' = fail /\ saved' = Recent(fail)) \/ (rows' = sent /\ saved' = Recent(sent))
  BY DEF SendOn, saveLocalHistory
<1> QED BY <1>1, <1>3, <1>4, <1>5, SavedClean

LEMMA FailClean ==
    ASSUME ChatInv, Clean, req.stage # "idle", Fail
    PROVE  Clean'
<1>1. LET rs == Append(rows, Row("bot", req.msg, "error")) IN
      rs \in Seq(Rows) /\ From(rs, first)
  BY InFlightClean
<1> QED BY <1>1, SavedClean DEF Fail, saveLocalHistory

LEMMA AnswerRowClean ==
    ASSUME ChatInv, Clean, req.stage # "idle", NEW v, AnswerRow(req.msg, v), UNCHANGED first
    PROVE  Clean'
<1>1. LET rs == Append(rows, Row("bot", req.msg, "answer")) IN
      rs \in Seq(Rows) /\ From(rs, first)
  BY InFlightClean
<1> QED BY <1>1, SavedClean DEF AnswerRow, saveLocalHistory

LEMMA FinishClean ==
    ASSUME ChatInv, Clean, NEW m \in Messages, FinishBubble(m), UNCHANGED first
    PROVE  Clean'
<1>1. first \in Nat
  BY TallyFact DEF ChatInv, TypeOK, Tally
<1>2. WholeText(m) \in Seq(Rows) /\ From(WholeText(m), first)
  BY <1>1, WholeTextType, FromWholeText DEF Clean, ChatInv, TypeOK
<1> QED BY <1>2, SavedClean DEF FinishBubble, Finish, saveLocalHistory

LEMMA ConfigClean ==
    ASSUME ChatInv, Clean, ConfigArrives
    PROVE  Clean'
<1>1. first \in Nat /\ UNCHANGED first
  BY TallyFact DEF ConfigArrives, ChatInv, TypeOK, Tally
<1>2. CASE rows' = Restored(saved) /\ saveLocalHistory(Restored(saved))
  <2>1. Restored(saved) \in Seq(Rows) /\ From(Restored(saved), first)
    BY <1>1, RestoredType, FromRestored DEF Clean, ChatInv, TypeOK
  <2> QED BY <1>1, <1>2, <2>1, SavedClean DEF saveLocalHistory
<1>3. CASE UNCHANGED <<rows, saved, kept>>
  BY <1>1, <1>3 DEF Clean
<1> QED BY <1>2, <1>3 DEF ConfigArrives

LEMMA TokenClean ==
    ASSUME ChatInv, Clean, Token
    PROVE  Clean'
<1>1. LET rs == Append(rows, Row("bot", req.msg, "stream")) IN
      rs \in Seq(Rows) /\ From(rs, first)
  BY InFlightClean DEF Token, Reading
<1> QED BY <1>1 DEF Token, storage, Clean

LEMMA EmptyClean ==
    ASSUME rows' = <<>>, saved' = <<>> \/ (UNCHANGED <<saved, first>> /\ Clean)
    PROVE  Clean'
BY DEF Clean, From

LEMMA CleanStep ==
    ASSUME ChatInv, Clean, [Next]_vars
    PROVE  Clean'
<1>1. ASSUME NEW b \in Builds, Boot(b) PROVE Clean'
  BY <1>1, EmptyClean DEF Boot, FreshPage, storage
<1>2. CASE Starting
  BY <1>2, ConfigClean DEF Starting, HistoryArrives, page, storage, Clean
<1>3. CASE Sending
  BY <1>3, SendClean DEF Sending, Send, Clean, ChatInv, TypeOK
<1>4. CASE Buttons
  BY <1>4, EmptyClean DEF Buttons, NewConversation, clearLocalHistory
<1>5. ASSUME NEW i \in DOMAIN rows, Retry(i) PROVE Clean'
  <2>1. RemoveAt(rows, i) \in Seq(Rows) /\ From(RemoveAt(rows, i), first)
    BY RemoveAtType, FromRemoveAt, TallyFact DEF Clean, ChatInv, TypeOK, Tally
  <2>2. CASE SendOn(RemoveAt(rows, i))
    BY <2>1, <2>2, SendClean
  <2>3. CASE rows' = RemoveAt(rows, i) /\ UNCHANGED <<saved, first>>
    BY <2>1, <2>3 DEF Clean
  <2> QED BY <1>5, <2>2, <2>3 DEF Retry
<1>6. CASE Stream
  <2>1. CASE StreamOpens \/ Meta \/ (\E v \in Verdicts : Done(v))
    BY <2>1 DEF StreamOpens, Meta, Done, storage, Clean
  <2>2. CASE Token
    BY <2>2, TokenClean
  <2>3. CASE StreamEnds
    <3>1. req.stage # "idle"
      BY <2>3 DEF StreamEnds, Streaming
    <3>2. CASE UNCHANGED <<rows, storage, first>>
      BY <3>2 DEF storage, Clean
    <3>3. CASE AnswerRow(req.msg, "quota") /\ UNCHANGED first
      BY <3>1, <3>3, AnswerRowClean
    <3> QED BY <2>3, <3>2, <3>3 DEF StreamEnds, Fallback
  <2>4. CASE StreamFails
    BY <2>4, FailClean DEF StreamFails, Streaming
  <2>5. CASE StreamTimeout
    <3>1. req.stage # "idle" /\ req.msg \in Messages
      BY <2>5, InFlight DEF StreamTimeout, Abort, Streaming
    <3> QED BY <2>5, <3>1, FailClean, FinishClean DEF StreamTimeout, Abort
  <2>6. ASSUME NEW m \in Messages, Paint(m) PROVE Clean'
    BY <2>6, FinishClean DEF Paint, storage, Clean
  <2> QED BY <1>6, <2>1, <2>2, <2>3, <2>4, <2>5, <2>6 DEF Stream, Typing
<1>7. CASE Backend
  BY <1>7, FailClean, AnswerRowClean DEF Backend, PlainReply, PlainFails, PlainTimeout
<1>8. CASE Leave
  BY <1>8, EmptyClean DEF Leave, FreshPage
<1>9. CASE OtherTab
  <2>1. From(saved', first)
    BY <1>9 DEF OtherTab, From
  <2> QED BY <1>9, <2>1 DEF OtherTab, page, Clean
<1>10. CASE UNCHANGED vars
  BY <1>10 DEF vars, page, storage, Clean
<1> QED BY <1>1, <1>2, <1>3, <1>4, <1>5, <1>6, <1>7, <1>8, <1>9, <1>10 DEF Next, Widget, RowButtons

(***************************************************************************)
(* The stored history and the screen.                                      *)
(***************************************************************************)

Settled == \A m \in Messages : ans[m].mode # "typing"

LEMMA RecentEmpty ==
    ASSUME NEW rs \in Seq(Rows), Recent(rs) = <<>>
    PROVE  rs = <<>>
<1> DEFINE n == IF Len(rs) > HistoryLimit THEN Len(rs) - HistoryLimit ELSE 0
<1>1. n \in Nat /\ (Len(rs) > 0 => n < Len(rs)) /\ Len(rs) \in Nat
  BY TallyFact DEF Tally
<1>2. Recent(rs) = [i \in 1 .. Len(rs) - n |-> [who |-> rs[i + n].who, msg |-> rs[i + n].msg]]
  BY DEF Recent
<1> HIDE DEF n
<1>3. DOMAIN Recent(rs) = 1 .. Len(rs) - n
  BY <1>2
<1>4. 1 .. Len(rs) - n = {}
  BY <1>3
<1>5. ~(1 \in 1 .. Len(rs) - n)
  BY <1>4
<1>6. Len(rs) = 0
  BY <1>1, <1>5
<1> QED BY <1>6

LEMMA EmptyRecent == Recent(<<>>) = <<>>
BY TallyFact DEF Recent, Tally

\* A step that saves the screen.
LEMMA SavesHistory ==
    ASSUME NEW rs \in Seq(Rows), rows' = rs, saved' = Recent(rs)
    PROVE  HistoryInv'
<1>1. saved' = <<>> => rows' = <<>>
  BY RecentEmpty
<1>2. Recent(rows)' = Recent(rs)
  BY DEF Recent
<1> QED BY <1>1, <1>2 DEF HistoryInv

\* A step that leaves screen and history alone and ends no typing.
LEMMA KeepsHistory ==
    ASSUME HistoryInv, UNCHANGED <<rows, saved>>, kept' => kept,
           Settled' => Settled,
           phase' = phase \/ (phase = "history" /\ phase' = "ready")
    PROVE  HistoryInv'
<1>1. Recent(rows)' = Recent(rows)
  BY DEF Recent
<1>2. Restoring' <=> Restoring
  BY DEF Restoring
<1>3. phase' = "config" => phase = "config"
  OBVIOUS
<1> QED BY <1>1, <1>2, <1>3 DEF HistoryInv, Settled

LEMMA ConfigHistory ==
    ASSUME ChatInv, HistoryInv, ConfigArrives
    PROVE  HistoryInv'
<1>1. CASE rows' = Restored(saved) /\ saveLocalHistory(Restored(saved))
  <2>1. Restored(saved) \in Seq(Rows)
    BY RestoredType DEF ChatInv, TypeOK
  <2> QED BY <1>1, <2>1, SavesHistory DEF saveLocalHistory
<1>2. CASE saved = <<>> /\ UNCHANGED <<rows, saved, kept>>
  <2>1. phase = "config" /\ phase' # "config" /\ UNCHANGED ans
    BY DEF ConfigArrives
  <2>2. Recent(rows)' = Recent(rows)
    BY <1>2 DEF Recent
  <2>3. kept /\ Settled => saved = Recent(rows)
    BY <1>2, <2>1, EmptyRecent DEF HistoryInv, Settled
  <2> QED BY <1>2, <2>1, <2>2, <2>3 DEF HistoryInv, Settled
<1> QED BY <1>1, <1>2 DEF ConfigArrives

LEMMA SendHistory ==
    ASSUME ChatInv, NEW rs \in Seq(Rows), SendOn(rs)
    PROVE  HistoryInv'
<1> DEFINE m    == sends + 1
           sent == Append(rs, Row("user", m, "sent"))
           fail == Append(sent, Row("bot", m, "error"))
<1>1. m \in 0 .. MaxSends
  BY ConstantsOK, TallyFact DEF SendOn, ChatInv, TypeOK, Tally
<1>2. sent \in Seq(Rows) /\ fail \in Seq(Rows)
  BY <1>1, RowIsRow, AppendType
<1>3. (rows' = fail /\ saved' = Recent(fail)) \/ (rows' = sent /\ saved' = Recent(sent))
  BY DEF SendOn, saveLocalHistory
<1> QED BY <1>2, <1>3, SavesHistory

LEMMA FailHistory ==
    ASSUME ChatInv, req.stage # "idle", Fail
    PROVE  HistoryInv'
<1>1. Append(rows, Row("bot", req.msg, "error")) \in Seq(Rows)
  BY InFlight, RowIsRow, AppendType DEF ChatInv, TypeOK
<1> QED BY <1>1, SavesHistory DEF Fail, saveLocalHistory

LEMMA AnswerRowHistory ==
    ASSUME ChatInv, req.stage # "idle", NEW v, AnswerRow(req.msg, v)
    PROVE  HistoryInv'
<1>1. Append(rows, Row("bot", req.msg, "answer")) \in Seq(Rows)
  BY InFlight, RowIsRow, AppendType DEF ChatInv, TypeOK
<1> QED BY <1>1, SavesHistory DEF AnswerRow, saveLocalHistory

LEMMA FinishHistory ==
    ASSUME ChatInv, NEW m \in Messages, FinishBubble(m)
    PROVE  HistoryInv'
<1>1. WholeText(m) \in Seq(Rows)
  BY WholeTextType DEF ChatInv, TypeOK
<1> QED BY <1>1, SavesHistory DEF FinishBubble, Finish, saveLocalHistory

\* A token starts, or goes on with, an answer being typed.
LEMMA TokenHistory ==
    ASSUME ChatInv, Token
    PROVE  HistoryInv'
<1>1. req.msg \in Messages /\ ans \in [Messages -> Answers]
  BY InFlight DEF Token, Reading, ChatInv, TypeOK
<1>2. ans'[req.msg].mode = "typing"
  BY <1>1 DEF Token, Answers
<1> QED BY <1>1, <1>2 DEF HistoryInv

LEMMA ModesKept ==
    ASSUME \A m \in Messages : ans'[m].mode = ans[m].mode
    PROVE  Settled' => Settled
BY DEF Settled

LEMMA StreamHistory ==
    ASSUME ChatInv, HistoryInv, Stream
    PROVE  HistoryInv'
<1>1. CASE StreamOpens \/ Meta
  BY <1>1, KeepsHistory, ModesKept DEF StreamOpens, Meta, storage
<1>2. ASSUME NEW v \in Verdicts, Done(v) PROVE HistoryInv'
  <2>1. req.msg \in Messages /\ ans \in [Messages -> Answers]
    BY <1>2, InFlight DEF Done, Reading, ChatInv, TypeOK
  <2>2. \A m \in Messages : ans'[m].mode = ans[m].mode
    BY <1>2, <2>1 DEF Done, Answers
  <2> QED BY <1>2, <2>2, KeepsHistory, ModesKept DEF Done, storage
<1>3. CASE StreamEnds
  <2>1. req.stage # "idle" /\ req.msg \in Messages /\ ans \in [Messages -> Answers]
    BY <1>3, InFlight DEF StreamEnds, Streaming, ChatInv, TypeOK
  <2>2. CASE Fallback
    BY <2>2, KeepsHistory, ModesKept DEF Fallback, storage
  <2>3. CASE AnswerRow(req.msg, "quota")
    BY <2>1, <2>3, AnswerRowHistory
  <2>4. CASE ans' = [ans EXCEPT ![req.msg].closed = TRUE] /\ UNCHANGED <<phase, rows, storage>>
    <3>1. \A m \in Messages : ans'[m].mode = ans[m].mode
      BY <2>1, <2>4 DEF Answers
    <3> QED BY <2>4, <3>1, KeepsHistory, ModesKept DEF storage
  <2> QED BY <1>3, <2>2, <2>3, <2>4 DEF StreamEnds
<1>4. CASE StreamFails
  BY <1>4, FailHistory DEF StreamFails, Streaming
<1>5. CASE StreamTimeout
  <2>1. req.stage # "idle" /\ req.msg \in Messages
    BY <1>5, InFlight DEF StreamTimeout, Abort, Streaming
  <2> QED BY <1>5, <2>1, FailHistory, FinishHistory DEF StreamTimeout, Abort
<1>6. ASSUME NEW m \in Messages, Paint(m) PROVE HistoryInv'
  <2>1. CASE FinishBubble(m)
    BY <2>1, FinishHistory
  <2>2. ASSUME NEW k \in ans[m].shown + 1 .. ans[m].got,
               ans' = [ans EXCEPT ![m].shown = k], UNCHANGED <<conv, blocked, rows, storage>>
        PROVE  HistoryInv'
    <3>1. \A j \in Messages : ans'[j].mode = ans[j].mode
      BY <2>2 DEF ChatInv, TypeOK, Answers
    <3> QED BY <1>6, <2>2, <3>1, KeepsHistory, ModesKept DEF Paint, storage
  <2> QED BY <1>6, <2>1, <2>2 DEF Paint
<1> QED BY <1>1, <1>2, <1>3, <1>4, <1>5, <1>6, TokenHistory DEF Stream, Typing

LEMMA HistoryStep ==
    ASSUME ChatInv, HistoryInv, [Next]_vars
    PROVE  HistoryInv'
<1>1. ASSUME NEW b \in Builds, Boot(b) PROVE HistoryInv'
  BY <1>1 DEF Boot, FreshPage, HistoryInv, Restoring
<1>2. CASE Starting
  BY <1>2, ConfigHistory, KeepsHistory, ModesKept DEF Starting, HistoryArrives, page, storage
<1>3. CASE Sending
  BY <1>3, SendHistory DEF Sending, Send, ChatInv, TypeOK
<1>4. CASE Buttons
  <2>1. rows' = <<>> /\ saved' = Recent(<<>>) /\ <<>> \in Seq(Rows)
    BY <1>4, EmptyRecent DEF Buttons, NewConversation, clearLocalHistory
  <2> QED BY <2>1, SavesHistory
<1>5. ASSUME NEW i \in DOMAIN rows, Retry(i) PROVE HistoryInv'
  <2>1. RemoveAt(rows, i) \in Seq(Rows)
    BY RemoveAtType DEF ChatInv, TypeOK
  <2>2. CASE SendOn(RemoveAt(rows, i))
    BY <2>1, <2>2, SendHistory
  <2>3. CASE kept' = FALSE
    BY <2>3 DEF HistoryInv
  <2> QED BY <1>5, <2>2, <2>3 DEF Retry
<1>6. CASE Stream
  BY <1>6, StreamHistory
<1>7. CASE Backend
  BY <1>7, FailHistory, AnswerRowHistory DEF Backend, PlainReply, PlainFails, PlainTimeout
<1>8. CASE Leave
  BY <1>8 DEF Leave, HistoryInv, Restoring
<1>9. CASE OtherTab
  BY <1>9 DEF OtherTab, HistoryInv
<1>10. CASE UNCHANGED vars
  BY <1>10, KeepsHistory, ModesKept DEF vars, page, storage
<1> QED BY <1>1, <1>2, <1>3, <1>4, <1>5, <1>6, <1>7, <1>8, <1>9, <1>10 DEF Next, Widget, RowButtons

(***************************************************************************)
(* One answer to a message.                                                *)
(***************************************************************************)

\* The row shows an answer, or the part of it that has been typed.
IsAnswer(r) == r.kind \in {"stream", "answer"}

\* Something of the answer a has been shown.
Told(a) == a.got > 0 \/ a.mode = "finished"

\* A row that answers is that of a message of which something has been shown,
\* and the only one.
Bubbles(rs, as) ==
    /\ \A i \in DOMAIN rs : IsAnswer(rs[i]) => rs[i].msg \in Messages /\ Told(as[rs[i].msg])
    /\ \A i, j \in DOMAIN rs :
          IsAnswer(rs[i]) /\ IsAnswer(rs[j]) /\ rs[i].msg = rs[j].msg => i = j

\* More may come to be shown.
More(as, bs) == \A m \in Messages : Told(as[m]) => Told(bs[m])

LEMMA LaterBubbles ==
    ASSUME NEW rs, NEW as, NEW bs, Bubbles(rs, as), More(as, bs)
    PROVE  Bubbles(rs, bs)
BY DEF Bubbles, More

LEMMA NoRowsBubbles ==
    ASSUME NEW as
    PROVE  Bubbles(<<>>, as)
BY DEF Bubbles

\* The bubble of m gets its whole text where it is.
LEMMA WholeTextBubbles ==
    ASSUME NEW as, Bubbles(rows, as), rows \in Seq(Rows), NEW m \in Messages
    PROVE  Bubbles(WholeText(m), as)
<1> DEFINE ss == WholeText(m)
<1>1. DOMAIN ss = DOMAIN rows
  BY DEF WholeText
<1>2. \A i \in DOMAIN ss : IsAnswer(ss[i]) => IsAnswer(rows[i]) /\ ss[i].msg = rows[i].msg
  BY <1>1 DEF WholeText, Row, IsAnswer
<1> HIDE DEF ss
<1>3. Bubbles(ss, as)
  BY <1>1, <1>2 DEF Bubbles
<1> QED BY <1>3 DEF ss

LEMMA AppendBubbles ==
    ASSUME NEW as, NEW rs \in Seq(Rows), Bubbles(rs, as), NEW r \in Rows, ~IsAnswer(r)
    PROVE  Bubbles(Append(rs, r), as)
<1> DEFINE ss == Append(rs, r)
<1>1. \A i \in DOMAIN ss : IsAnswer(ss[i]) => i \in DOMAIN rs /\ ss[i] = rs[i]
  OBVIOUS
<1> HIDE DEF ss
<1>2. Bubbles(ss, as)
  BY <1>1 DEF Bubbles
<1> QED BY <1>2 DEF ss

LEMMA RemoveAtBubbles ==
    ASSUME NEW as, NEW rs \in Seq(Rows), Bubbles(rs, as), NEW i \in DOMAIN rs
    PROVE  Bubbles(RemoveAt(rs, i), as)
<1> DEFINE ss == RemoveAt(rs, i)
           Old(j) == IF j < i THEN j ELSE j + 1
<1>1. DOMAIN ss = 1 .. Len(rs) - 1 /\ \A j \in DOMAIN ss : ss[j] = rs[Old(j)]
  BY RemoveAtRows
<1>2. \A j \in 1 .. Len(rs) - 1 : Old(j) \in DOMAIN rs
  OBVIOUS
<1>3. \A j, k \in 1 .. Len(rs) - 1 : Old(j) = Old(k) => j = k
  OBVIOUS
<1> HIDE DEF ss, Old
<1>4. ASSUME NEW j \in DOMAIN ss
      PROVE  Old(j) \in DOMAIN rs /\ ss[j] = rs[Old(j)]
  BY <1>1, <1>2
<1>5. ASSUME NEW j \in DOMAIN ss, IsAnswer(ss[j])
      PROVE  ss[j].msg \in Messages /\ Told(as[ss[j].msg])
  BY <1>4, <1>5 DEF Bubbles
<1>6. ASSUME NEW j \in DOMAIN ss, NEW k \in DOMAIN ss,
             IsAnswer(ss[j]), IsAnswer(ss[k]), ss[j].msg = ss[k].msg
      PROVE  j = k
  <2>1. Old(j) = Old(k)
    BY <1>4, <1>6 DEF Bubbles
  <2> QED BY <1>1, <1>3, <2>1
<1>7. Bubbles(ss, as)
  BY <1>5, <1>6 DEF Bubbles
<1> QED BY <1>7 DEF ss

\* The first sign of an answer to m, in a row of its own.
LEMMA NewBubble ==
    ASSUME NEW as, NEW bs, NEW rs \in Seq(Rows), Bubbles(rs, as), More(as, bs),
           NEW m \in Messages, ~Told(as[m]), Told(bs[m]),
           NEW kind \in {"stream", "answer"}
    PROVE  Bubbles(Append(rs, Row("bot", m, kind)), bs)
<1> DEFINE n == Len(rs) + 1
           ss == Append(rs, Row("bot", m, kind))
<1>1. /\ n \in Nat /\ DOMAIN ss = 1 .. n /\ DOMAIN rs = 1 .. n - 1
      /\ \A i \in 1 .. n - 1 : ss[i] = rs[i]
      /\ ss[n] = Row("bot", m, kind)
  OBVIOUS
<1>2. ss[n].msg = m
  BY <1>1 DEF Row
<1> HIDE DEF n, ss
<1>3. \A i \in 1 .. n - 1 : IsAnswer(rs[i]) => rs[i].msg # m
  BY <1>1 DEF Bubbles
<1>4. ASSUME NEW i \in DOMAIN ss, IsAnswer(ss[i])
      PROVE  ss[i].msg \in Messages /\ Told(bs[ss[i].msg])
  <2>1. CASE i = n
    BY <1>2, <2>1
  <2>2. CASE i # n
    <3>1. i \in 1 .. n - 1 /\ ss[i] = rs[i]
      BY <1>1, <2>2
    <3> QED BY <1>1, <1>4, <3>1 DEF Bubbles, More
  <2> QED BY <2>1, <2>2
<1>5. ASSUME NEW i \in DOMAIN ss, NEW j \in DOMAIN ss,
             IsAnswer(ss[i]), IsAnswer(ss[j]), ss[i].msg = ss[j].msg
      PROVE  i = j
  <2>1. (i = n \/ i \in 1 .. n - 1) /\ (j = n \/ j \in 1 .. n - 1)
    BY <1>1
  <2> QED BY <1>1, <1>2, <1>3, <1>5, <2>1 DEF Bubbles
<1>6. Bubbles(ss, bs)
  BY <1>4, <1>5 DEF Bubbles
<1> QED BY <1>6 DEF ss

\* The step in terms of the variables.
Single == Bubbles(rows, ans)

LEMMA SingleStep ==
    ASSUME NEW rs, rows' = rs, Bubbles(rs, ans), More(ans, ans')
    PROVE  Single'
<1>1. Bubbles(rows', ans')
  BY LaterBubbles
<1> QED BY <1>1 DEF Single, Bubbles

LEMMA SingleNew ==
    ASSUME ChatInv, Single, NEW m \in Messages, ~Told(ans[m]), Told(ans'[m]), More(ans, ans'),
           NEW kind \in {"stream", "answer"}, rows' = Append(rows, Row("bot", m, kind))
    PROVE  Single'
<1>1. Bubbles(rows', ans')
  BY NewBubble DEF Single, ChatInv, TypeOK
<1> QED BY <1>1 DEF Single, Bubbles

LEMMA SendSingle ==
    ASSUME ChatInv, NEW rs \in Seq(Rows), Bubbles(rs, ans), SendOn(rs)
    PROVE  Single'
<1> DEFINE m    == sends + 1
           sent == Append(rs, Row("user", m, "sent"))
           fail == Append(sent, Row("bot", m, "error"))
<1>1. m \in 0 .. MaxSends /\ UNCHANGED ans
  BY ConstantsOK, TallyFact DEF SendOn, ChatInv, TypeOK, Tally
<1>2. /\ Row("user", m, "sent") \in Rows /\ ~IsAnswer(Row("user", m, "sent"))
      /\ Row("bot", m, "error") \in Rows /\ ~IsAnswer(Row("bot", m, "error"))
  BY <1>1, RowIsRow DEF Row, IsAnswer
<1>3. sent \in Seq(Rows) /\ Bubbles(sent, ans)
  BY <1>2, AppendType, AppendBubbles
<1>4. Bubbles(fail, ans)
  BY <1>2, <1>3, AppendBubbles
<1>5. rows' = fail \/ rows' = sent
  BY DEF SendOn
<1>6. More(ans, ans')
  BY <1>1 DEF More
<1> HIDE DEF sent, fail
<1> QED BY <1>3, <1>4, <1>5, <1>6, SingleStep

LEMMA ConfigSingle ==
    ASSUME ChatInv, Single, ConfigArrives
    PROVE  Single'
<1>1. More(ans, ans')
  BY DEF ConfigArrives, More
<1>2. Bubbles(Restored(saved), ans)
  BY DEF Bubbles, Restored, Row, IsAnswer
<1> QED BY <1>1, <1>2, SingleStep DEF ConfigArrives, Single

LEMMA FailSingle ==
    ASSUME ChatInv, Single, req.stage # "idle", Fail
    PROVE  Single'
<1> DEFINE r == Row("bot", req.msg, "error")
<1>1. req.msg \in Messages /\ ans[req.msg] \in Answers /\ ans \in [Messages -> Answers]
  BY InFlight DEF ChatInv, TypeOK
<1>2. r \in Rows /\ ~IsAnswer(r)
  BY InFlight, RowIsRow DEF Row, IsAnswer
<1>3. Bubbles(Append(rows, r), ans)
  BY <1>2, AppendBubbles DEF Single, ChatInv, TypeOK
<1>4. \A k \in Messages : ans'[k].got = ans[k].got /\ (ans[k].mode = "finished" => ans'[k].mode = "finished")
  BY <1>1 DEF Fail, Answers
<1>5. More(ans, ans')
  BY <1>4 DEF More, Told
<1>6. rows' = Append(rows, r)
  BY DEF Fail
<1> QED BY <1>3, <1>5, <1>6, SingleStep

LEMMA AnswerRowSingle ==
    ASSUME ChatInv, Single, req.stage # "idle", ~Told(ans[req.msg]), NEW v, AnswerRow(req.msg, v)
    PROVE  Single'
<1>1. req.msg \in Messages /\ ans \in [Messages -> Answers]
  BY InFlight DEF ChatInv, TypeOK
<1>2. ans'[req.msg].mode = "finished" /\ \A k \in Messages : k # req.msg => ans'[k] = ans[k]
  BY <1>1 DEF AnswerRow, Answers
<1>3. Told(ans'[req.msg]) /\ More(ans, ans')
  BY <1>2 DEF More, Told
<1>4. rows' = Append(rows, Row("bot", req.msg, "answer"))
  BY DEF AnswerRow
<1> QED BY <1>1, <1>3, <1>4, SingleNew

LEMMA TokenSingle ==
    ASSUME ChatInv, Single, Token
    PROVE  Single'
<1>1. req.msg \in Messages /\ ans \in [Messages -> Answers] /\ ans[req.msg].mode # "finished"
  BY InFlight DEF Token, Reading, ChatInv, TypeOK, Brought
<1>2. ans[req.msg].got \in Nat /\ ans'[req.msg].got = ans[req.msg].got + 1
      /\ \A k \in Messages : k # req.msg => ans'[k] = ans[k]
  BY <1>1, TallyFact DEF Token, Answers, Tally
<1>3. Told(ans'[req.msg]) /\ More(ans, ans')
  BY <1>2 DEF More, Told
<1>4. CASE ans[req.msg].got = 0 /\ rows' = Append(rows, Row("bot", req.msg, "stream"))
  <2>1. ~Told(ans[req.msg])
    BY <1>1, <1>4 DEF Told
  <2> QED BY <1>1, <1>3, <1>4, <2>1, SingleNew
<1>5. CASE rows' = rows
  BY <1>3, <1>5, SingleStep DEF Single
<1> QED BY <1>4, <1>5 DEF Token

LEMMA FinishSingle ==
    ASSUME ChatInv, Single, NEW m \in Messages, FinishBubble(m)
    PROVE  Single'
<1>1. Bubbles(WholeText(m), ans)
  BY WholeTextBubbles DEF Single, ChatInv, TypeOK
<1>2. ans'[m].mode = "finished" /\ \A k \in Messages : k # m => ans'[k] = ans[k]
  BY DEF FinishBubble, Finish, ChatInv, TypeOK, Answers
<1>3. More(ans, ans')
  BY <1>2 DEF More, Told
<1>4. rows' = WholeText(m)
  BY DEF FinishBubble, Finish
<1> QED BY <1>1, <1>3, <1>4, SingleStep

LEMMA StreamSingle ==
    ASSUME ChatInv, Single, Stream
    PROVE  Single'
<1>1. CASE StreamOpens \/ Meta
  <2>1. rows' = rows /\ More(ans, ans')
    BY <1>1 DEF StreamOpens, Meta, More
  <2> QED BY <2>1, SingleStep DEF Single
<1>2. ASSUME NEW v \in Verdicts, Done(v) PROVE Single'
  <2>1. req.msg \in Messages /\ ans \in [Messages -> Answers]
    BY <1>2, InFlight DEF Done, Reading, ChatInv, TypeOK
  <2>2. \A k \in Messages : ans'[k].mode = ans[k].mode /\ ans'[k].got = ans[k].got
    BY <1>2, <2>1 DEF Done, Answers
  <2>3. rows' = rows /\ More(ans, ans')
    BY <1>2, <2>2 DEF Done, More, Told
  <2> QED BY <2>3, SingleStep DEF Single
<1>3. CASE StreamEnds
  <2>1. req.stage # "idle" /\ req.msg \in Messages /\ ans \in [Messages -> Answers] /\ Streaming
    BY <1>3, InFlight DEF StreamEnds, Streaming, ChatInv, TypeOK
  <2>2. CASE Fallback
    <3>1. rows' = rows /\ More(ans, ans')
      BY <2>2 DEF Fallback, More
    <3> QED BY <3>1, SingleStep DEF Single
  <2>3. CASE ans[req.msg].verdict = "quota" /\ AnswerRow(req.msg, "quota")
    <3>1. ans[req.msg].got = 0 /\ ans[req.msg].mode # "finished"
      BY <2>1, <2>3 DEF ChatInv, Brought, NoAnswer, Streaming
    <3>2. ~Told(ans[req.msg])
      BY <3>1 DEF Told
    <3> QED BY <2>1, <2>3, <3>2, AnswerRowSingle
  <2>4. CASE ans' = [ans EXCEPT ![req.msg].closed = TRUE] /\ UNCHANGED rows
    <3>1. \A k \in Messages : ans'[k].mode = ans[k].mode /\ ans'[k].got = ans[k].got
      BY <2>1, <2>4 DEF Answers
    <3>2. rows' = rows /\ More(ans, ans')
      BY <2>4, <3>1 DEF More, Told
    <3> QED BY <3>2, SingleStep DEF Single
  <2> QED BY <1>3, <2>2, <2>3, <2>4 DEF StreamEnds
<1>4. CASE StreamFails
  BY <1>4, FailSingle DEF StreamFails, Streaming
<1>5. CASE StreamTimeout
  <2>1. req.stage # "idle" /\ req.msg \in Messages
    BY <1>5, InFlight DEF StreamTimeout, Abort, Streaming
  <2> QED BY <1>5, <2>1, FailSingle, FinishSingle DEF StreamTimeout, Abort
<1>6. ASSUME NEW m \in Messages, Paint(m) PROVE Single'
  <2>1. CASE FinishBubble(m)
    BY <2>1, FinishSingle
  <2>2. ASSUME NEW n \in ans[m].shown + 1 .. ans[m].got,
               ans' = [ans EXCEPT ![m].shown = n], UNCHANGED <<conv, blocked, rows, storage>>
        PROVE  Single'
    <3>1. \A k \in Messages : ans'[k].mode = ans[k].mode /\ ans'[k].got = ans[k].got
      BY <2>2 DEF ChatInv, TypeOK, Answers
    <3>2. rows' = rows /\ More(ans, ans')
      BY <2>2, <3>1 DEF More, Told
    <3> QED BY <3>2, SingleStep DEF Single
  <2> QED BY <1>6, <2>1, <2>2 DEF Paint
<1> QED BY <1>1, <1>2, <1>3, <1>4, <1>5, <1>6, TokenSingle DEF Stream, Typing

LEMMA BackendSingle ==
    ASSUME ChatInv, Single, Backend
    PROVE  Single'
<1>1. req.stage # "idle"
  BY DEF Backend, PlainReply, PlainFails, PlainTimeout
<1>2. CASE Fail
  BY <1>1, <1>2, FailSingle
<1>3. ASSUME NEW v \in Verdicts, PlainReply(v), AnswerRow(req.msg, v) PROVE Single'
  <2>1. ~Told(ans[req.msg])
    BY <1>3 DEF PlainReply, ChatInv, Brought, Told
  <2> QED BY <1>1, <1>3, <2>1, AnswerRowSingle
<1> QED BY <1>2, <1>3 DEF Backend, PlainReply, PlainFails, PlainTimeout

LEMMA SingleInv ==
    ASSUME ChatInv, Single, [Next]_vars
    PROVE  Single'
<1>1. ASSUME rows' = <<>> PROVE Single'
  BY <1>1 DEF Single, Bubbles
<1>2. CASE (\E b \in Builds : Boot(b)) \/ Leave \/ Buttons
  BY <1>1, <1>2 DEF Boot, Leave, FreshPage, Buttons, NewConversation
<1>3. CASE HistoryArrives \/ OtherTab \/ UNCHANGED vars
  <2>1. rows' = rows /\ More(ans, ans')
    BY <1>3 DEF HistoryArrives, OtherTab, vars, page, More
  <2> QED BY <2>1, SingleStep DEF Single
<1>4. CASE Sending
  BY <1>4, SendSingle DEF Sending, Send, Single, ChatInv, TypeOK
<1>5. ASSUME NEW i \in DOMAIN rows, Retry(i) PROVE Single'
  <2>1. RemoveAt(rows, i) \in Seq(Rows) /\ Bubbles(RemoveAt(rows, i), ans)
    BY RemoveAtType, RemoveAtBubbles DEF Single, ChatInv, TypeOK
  <2>2. CASE SendOn(RemoveAt(rows, i))
    BY <2>1, <2>2, SendSingle
  <2>3. CASE rows' = RemoveAt(rows, i) /\ UNCHANGED ans
    <3>1. More(ans, ans')
      BY <2>3 DEF More
    <3> QED BY <2>1, <2>3, <3>1, SingleStep
  <2> QED BY <1>5, <2>2, <2>3 DEF Retry
<1> QED BY <1>2, <1>3, <1>4, <1>5, ConfigSingle, StreamSingle, BackendSingle
        DEF Next, Widget, RowButtons, Starting

(***************************************************************************)
(* The theorems.                                                           *)
(***************************************************************************)

\* Every variable of the chat keeps its type: no answer has more text shown
\* than the page may hold, and no request is for a message beyond the last.
THEOREM ChatTypeOK == Spec => []TypeOK
<1>1. ChatInv => TypeOK
  BY DEF ChatInv
<1> QED BY <1>1, ChatInvariant, PTL

\* isLoading is the request in flight, always the latest message, posted again
\* only by callBackend after a stream that brought nothing.
THEOREM OneRequestAtATime == Spec => []OneRequest
<1>1. ChatInv => OneRequest
  <2> SUFFICES ASSUME ChatInv PROVE OneRequest
    OBVIOUS
  <2>1. (loading <=> req.stage # "idle") /\ (loading => req.msg = sends)
    BY DEF ChatInv, Flight
  <2>2. ASSUME req.posts = 2 PROVE req.stage = "plain" /\ ans[req.msg].got = 0
    <3>1. req.stage \in {"idle", "plain"}
      BY <2>2 DEF ChatInv, TypeOK, Requests, Flight, Streaming
    <3> QED BY <2>2, <3>1 DEF ChatInv, Flight, Brought
  <2> QED BY <2>1, <2>2 DEF OneRequest
<1> QED BY <1>1, ChatInvariant, PTL

\* However late an answer or the configuration comes, and whatever is clicked
\* in between, page and sessionStorage name the same conversation and a refusal
\* that was shown is kept there.
THEOREM StorageAgreement == Spec => []StorageAgrees
<1>1. Init => StorageAgrees
  BY DEF Init, StorageAgrees, SessionAgrees, Restoring, RefusalIsKept, NoAnswer
<1> QED BY <1>1, ChatInvariant, StorageStep, PTL DEF Spec

\* After "new conversation" nothing sent before it comes back, on this page or
\* a later one, but the answer that was on its way.
THEOREM NewChatClean == Spec => []NewStartsClean
<1>1. Init => Clean
  BY DEF Init, Clean, From
<1>2. Clean => NewStartsClean
  BY DEF Clean, From, NewStartsClean
<1> QED BY <1>1, <1>2, ChatInvariant, CleanStep, PTL DEF Spec

\* Wherever a message, an answer, a cut or an error comes from, it is in the
\* stored history as soon as nothing is being typed.
THEOREM HistoryKept == Spec => []HistoryIsScreen
<1>1. Init => HistoryInv
  BY DEF Init, HistoryInv, Restoring
<1>2. HistoryInv => HistoryIsScreen
  BY DEF HistoryInv, HistoryIsScreen
<1> QED BY <1>1, <1>2, ChatInvariant, HistoryStep, PTL DEF Spec

\* An answer that is finished is all that came of it, and no message is answered
\* twice on the screen, though streams are cut, aborted and repeated.
THEOREM AnswersWhole == Spec => []AnswerIsWhole
<1>1. Init => Single
  BY DEF Init, Single, Bubbles
<1>2. ChatInv /\ Single => AnswerIsWhole
  <2> SUFFICES ASSUME ChatInv, Single PROVE AnswerIsWhole
    OBVIOUS
  <2>1. ASSUME NEW m \in Messages, ans[m].mode = "finished"
        PROVE  ans[m].shown = ans[m].got /\ (Reading => req.msg # m)
    BY <2>1 DEF ChatInv, Answering, Brought, Reading
  <2>2. \A i, j \in DOMAIN rows :
            /\ rows[i].kind \in {"stream", "answer"} /\ rows[j].kind \in {"stream", "answer"}
            /\ rows[i].msg = rows[j].msg
            => i = j
    BY DEF Single, Bubbles, IsAnswer
  <2> QED BY <2>1, <2>2 DEF AnswerIsWhole
<1> QED BY <1>1, <1>2, ChatInvariant, SingleInv, PTL DEF Spec

\* Every step of a file that a page loads is a step of the chat: what holds of
\* WidgetChat holds of each of the twelve copies.
THEOREM BuildsImplement == BuildsSpec => Spec
<1>1. BuildsNext => Next
  <2> SUFFICES ASSUME BuildsNext PROVE Next
    OBVIOUS
  <2>1. \A b \in Themes : Boot(b) => Next
    BY ThemesAreBuilds DEF Next
  <2>2. Starting \/ Sending \/ Buttons \/ RowButtons \/ Stream \/ Backend => Next
    BY DEF Next, Widget
  <2>3. CASE Classic \/ Onyx \/ Linen
    BY <2>1, <2>2, <2>3 DEF Themes, Classic, ClassicBoot, ClassicStart, ClassicSend, ClassicNew,
       ClassicRow, ClassicStream, ClassicBackend, Onyx, OnyxBoot, OnyxStart, OnyxSend, OnyxNew,
       OnyxRow, OnyxStream, OnyxBackend, Linen, LinenBoot, LinenStart, LinenSend, LinenNew,
       LinenRow, LinenStream, LinenBackend
  <2>4. CASE Clay \/ Atomic \/ Fluen
    BY <2>1, <2>2, <2>4 DEF Themes, Clay, ClayBoot, ClayStart, ClaySend, ClayNew,
       ClayRow, ClayStream, ClayBackend, Atomic, AtomicBoot, AtomicStart, AtomicSend, AtomicNew,
       AtomicRow, AtomicStream, AtomicBackend, Fluen, FluenBoot, FluenStart, FluenSend, FluenNew,
       FluenRow, FluenStream, FluenBackend
  <2>5. CASE Glassmo \/ Md3 \/ Minimal
    BY <2>1, <2>2, <2>5 DEF Themes, Glassmo, GlassmoBoot, GlassmoStart, GlassmoSend, GlassmoNew,
       GlassmoRow, GlassmoStream, GlassmoBackend, Md3, Md3Boot, Md3Start, Md3Send, Md3New,
       Md3Row, Md3Stream, Md3Backend, Minimal, MinimalBoot, MinimalStart, MinimalSend, MinimalNew,
       MinimalRow, MinimalStream, MinimalBackend
  <2>6. CASE Neu \/ Skuermo \/ Legacy
    BY <2>1, <2>2, <2>6 DEF Themes, Neu, NeuBoot, NeuStart, NeuSend, NeuNew,
       NeuRow, NeuStream, NeuBackend, Skuermo, SkuermoBoot, SkuermoStart, SkuermoSend, SkuermoNew,
       SkuermoRow, SkuermoStream, SkuermoBackend, Legacy, LegacyBoot, LegacyStart, LegacySend,
       LegacyNew, LegacyRow, LegacyStream, LegacyBackend
  <2> QED BY <2>3, <2>4, <2>5, <2>6 DEF BuildsNext, AnyBuild, Next
<1> QED BY <1>1, PTL DEF BuildsSpec, Spec

=============================================================================

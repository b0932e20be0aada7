------------------------------- MODULE WidgetChat -------------------------------
(***************************************************************************)
(* The chat of the widget on one browser tab: src/static/widget/widget.js  *)
(* and its copies with another skin.  A page load runs initialize(), which *)
(* awaits the configuration and perhaps the history while the visitor can  *)
(* already type; a message is sent as an SSE stream, repeated as a plain   *)
(* request when the stream brought nothing, and typed out frame by frame,  *)
(* which may go on when the request is over.  The tab's session survives a *)
(* page load; the local history is shared with the other tabs of the site. *)
(*                                                                         *)
(* JavaScript runs to completion: every callback, and every stretch of an  *)
(* async function between two awaits of something outside, is one action.  *)
(***************************************************************************)
EXTENDS Naturals, Sequences, SequencesExt

CONSTANTS
    Builds,        \* the files a page may load, widget.js and the skins
    Guarded,       \* the builds that know a blocked visitor and a closed chat
    MaxSends,      \* bound: messages sent
    Depth,         \* bound: messages sent when the page has this build, but for retries
    MaxTokens,     \* bound: token events of one stream
    HistoryLimit   \* rows kept in localStorage (22 in the code)

ASSUME ConstantsOK ==
    /\ Builds # {} /\ Guarded \subseteq Builds
    /\ MaxSends \in Nat /\ MaxTokens \in Nat
    /\ Depth \in [Builds -> 0 .. MaxSends]
    /\ HistoryLimit \in Nat \ {0}

VARIABLES
    build,     \* the file the page loaded
    phase,     \* how far initialize() is: away (no page), config, history, ready
    conv,      \* this.conversationId, 0 for ""; the token comes and goes with it
    blocked,   \* this._blocked
    rows,      \* the rows of the message list
    loading,   \* this.isLoading
    req,       \* the request that streamChat or callBackend awaits
    ans,       \* what streamChat's closure holds for each message
    session,   \* sessionStorage: asw_conversation_id and asw_blocked
    saved,     \* localStorage: asw_history_<host>
    kept,      \* ghost: since this tab saved its screen no other tab has written
               \* saved and no refused retry has taken a row away
    sends,     \* messages sent so far; the latest one is _lastUserMessage
    first,     \* ghost: the oldest message that may still show in this chat
    convs      \* conversations the server has created

page    == <<conv, blocked, rows, loading, req, ans>>
storage == <<session, saved, kept>>
vars == <<build, phase, page, storage, sends, first, convs>>

Messages == 1 .. MaxSends
Locking  == {"blocked", "quota"}
Verdicts == {"none", "answer"} \cup Locking

Rows    == [who : {"user", "bot"}, msg : 0 .. MaxSends,
            kind : {"sent", "stream", "answer", "error", "old"}]
Entries == [who : {"user", "bot"}, msg : 0 .. MaxSends]
Sessions == [conv : Nat, blocked : BOOLEAN]
Requests == [stage : {"idle", "stream", "reading", "plain"}, msg : 0 .. MaxSends,
             conv : Nat, meta : BOOLEAN, posts : 0 .. 2]
Answers  == [got : 0 .. MaxTokens, shown : 0 .. MaxTokens, closed : BOOLEAN,
             verdict : Verdicts, mode : {"none", "typing", "finished", "dead"}]

Idle     == [stage |-> "idle", msg |-> 0, conv |-> 0, meta |-> FALSE, posts |-> 0]
NoAnswer == [got |-> 0, shown |-> 0, closed |-> FALSE, verdict |-> "none", mode |-> "none"]
NoSession == [conv |-> 0, blocked |-> FALSE]

Row(who, m, kind) == [who |-> who, msg |-> m, kind |-> kind]

(***************************************************************************)
(* Local history.                                                          *)
(***************************************************************************)

\* Mistake: rows are stored, not their role and text.
RecentRows(rs) == SubSeq(rs, IF Len(rs) > HistoryLimit THEN Len(rs) - HistoryLimit + 1 ELSE 1, Len(rs))

\* The last HistoryLimit rows of the screen, each as its role and its text.
Recent(rs) ==
    LET n == IF Len(rs) > HistoryLimit THEN Len(rs) - HistoryLimit ELSE 0
    IN  [i \in 1 .. Len(rs) - n |-> [who |-> rs[i + n].who, msg |-> rs[i + n].msg]]

saveLocalHistory(rs) == saved' = Recent(rs) /\ kept' = TRUE

\* Mistake: "new conversation" empties the screen only.
LeaveLocalHistory == UNCHANGED saved /\ kept' = TRUE

clearLocalHistory == saved' = <<>> /\ kept' = TRUE

\* The rows restoreLocalHistory makes of the stored entries.
Restored(entries) == [i \in DOMAIN entries |-> Row(entries[i].who, entries[i].msg, "old")]

(***************************************************************************)
(* Loading and leaving a page.                                             *)
(***************************************************************************)

FreshPage ==
    /\ conv' = 0 /\ blocked' = FALSE /\ rows' = <<>> /\ loading' = FALSE
    /\ req' = Idle /\ ans' = [m \in Messages |-> NoAnswer]

\* The script runs: the constructor mounts the widget, whose buttons work at
\* once, and initialize() requests the configuration.
Boot(b) ==
    /\ phase = "away"
    /\ build' = b /\ phase' = "config"
    /\ FreshPage
    /\ UNCHANGED <<storage, sends, first, convs>>

\* The configuration is here, or its request failed, which is the same: the
\* session is restored, then the local history or else the server's.
ConfigArrives ==
    /\ phase = "config"
    /\ conv' = session.conv
    /\ blocked' = (build \in Guarded /\ session.blocked)
    /\ \/ /\ saved # <<>>
          /\ rows' = Restored(saved) /\ saveLocalHistory(Restored(saved))
          /\ phase' = "ready"
       \/ /\ saved = <<>>
          /\ phase' = IF session.conv # 0 /\ Len(rows) <= 1 THEN "history" ELSE "ready"
          /\ UNCHANGED <<rows, saved, kept>>
    /\ UNCHANGED <<build, loading, req, ans, session, sends, first, convs>>

\* The answer to restoreHistory.  The endpoint wants the conversation's token
\* and getHeaders() does not send it: the response is a 403 and nothing is done.
HistoryArrives ==
    /\ phase = "history"
    /\ phase' = "ready"
    /\ UNCHANGED <<build, page, storage, sends, first, convs>>

\* The visitor follows a link, reloads, or closes the tab and its session.
Leave ==
    /\ phase # "away"
    /\ phase' = "away"
    /\ FreshPage
    /\ session' \in {session, NoSession}
    /\ UNCHANGED <<build, saved, kept, sends, first, convs>>

(***************************************************************************)
(* Sending.                                                                *)
(***************************************************************************)

\* Mistake: only a block refuses a message.
RefusedIfBlocked == blocked

Refused == blocked \/ loading

\* sendText on the screen rs: the message, then an error row if the browser is
\* offline, else a request.
SendOn(rs) ==
    LET m    == sends + 1
        sent == Append(rs, Row("user", m, "sent"))
        fail == Append(sent, Row("bot", m, "error"))
    IN  /\ ~Refused
        /\ sends < MaxSends /\ sends' = m
        /\ \/ rows' = fail /\ saveLocalHistory(fail) /\ UNCHANGED <<loading, req>>
           \/ /\ rows' = sent /\ saveLocalHistory(sent)
              /\ loading' = TRUE
              /\ \E stage \in {"stream", "plain"} :
                    req' = [stage |-> stage, msg |-> m, conv |-> conv, meta |-> FALSE, posts |-> 1]
        /\ UNCHANGED <<build, phase, conv, blocked, ans, session, first, convs>>

\* From the input, a suggestion or a card of the greeting.
Send == phase # "away" /\ sends < Depth[build] /\ SendOn(rows)

\* The retry button of an error row: the row goes, whether or not sendText then
\* refuses.
Retry(i) ==
    LET rest == RemoveAt(rows, i) IN
    /\ i \in DOMAIN rows /\ rows[i].kind = "error"
    /\ \/ SendOn(rest)
       \/ /\ Refused
          /\ rows' = rest /\ kept' = FALSE
          /\ UNCHANGED <<build, phase, conv, blocked, loading, req, ans, session, saved, sends, first, convs>>

\* Mistake: the session keeps the conversation.
KeepSession == UNCHANGED session

ForgetSession == session' = [session EXCEPT !.conv = 0]

\* The "new conversation" button.  A request in flight goes on.
NewConversation ==
    /\ phase # "away"
    /\ clearLocalHistory
    /\ ForgetSession /\ conv' = 0
    /\ rows' = <<>>
    /\ first' = IF loading THEN sends ELSE sends + 1
    /\ UNCHANGED <<build, phase, blocked, loading, req, ans, sends, convs>>

(***************************************************************************)
(* The end of a request.                                                   *)
(***************************************************************************)

\* The finally of sendText.
Over == loading' = FALSE /\ req' = Idle

\* The verdict v locks the widget: _setBlocked(true) and asw_blocked.
Locks(v) == build \in Guarded /\ v \in Locking

\* handleAnswerResult: the answer to m in a row of its own.
AnswerRow(m, v) ==
    LET rs == Append(rows, Row("bot", m, "answer")) IN
    /\ rows' = rs /\ saveLocalHistory(rs)
    /\ blocked' = (blocked \/ Locks(v))
    /\ ans' = [ans EXCEPT ![m].verdict = v, ![m].mode = "finished"]

\* The rows once the bubble of m has its whole text.  Nothing is seen of it if
\* the list has been emptied since.
WholeText(m) ==
    [i \in DOMAIN rows |->
        IF rows[i].msg = m /\ rows[i].kind = "stream" THEN Row("bot", m, "answer") ELSE rows[i]]

Finish(m) ==
    /\ rows' = WholeText(m)
    /\ blocked' = (blocked \/ Locks(ans[m].verdict))
    /\ session' = [session EXCEPT !.blocked = @ \/ Locks(ans[m].verdict)]
    /\ ans' = [ans EXCEPT ![m].shown = ans[m].got, ![m].mode = "finished"]
    /\ UNCHANGED conv

\* Mistake: the history is not saved.
FinishUnsaved(m) == Finish(m) /\ UNCHANGED <<saved, kept>>

\* handleAnswerResultFromEl.
FinishBubble(m) == Finish(m) /\ saveLocalHistory(WholeText(m))

\* The catch of sendText: an error row with a retry button.  A bubble that was
\* being typed stays as it is.
Fail ==
    LET rs == Append(rows, Row("bot", req.msg, "error")) IN
    /\ rows' = rs /\ saveLocalHistory(rs)
    /\ ans' = [ans EXCEPT ![req.msg].mode = IF @ = "typing" THEN "dead" ELSE @]
    /\ Over
    /\ UNCHANGED <<build, phase, conv, blocked, session, sends, first>>

(***************************************************************************)
(* The stream: meta, token*, then done or error; a closed chat sends only  *)
(* done.  The connection may break or close anywhere.                      *)
(***************************************************************************)

Streaming == req.stage \in {"stream", "reading"}
Reading   == req.stage = "reading" /\ ~ans[req.msg].closed

\* The conversation the server answers in.
ServerConv == IF req.conv # 0 THEN req.conv ELSE convs + 1

StreamOpens ==
    /\ req.stage = "stream"
    /\ req' = [req EXCEPT !.stage = "reading"]
    /\ UNCHANGED <<build, phase, conv, blocked, rows, loading, ans, storage, sends, first, convs>>

Meta ==
    /\ Reading /\ ~req.meta
    /\ req' = [req EXCEPT !.meta = TRUE]
    /\ conv' = ServerConv
    /\ session' = [session EXCEPT !.conv = ServerConv]
    /\ convs' = IF req.conv # 0 THEN convs ELSE convs + 1
    /\ UNCHANGED <<build, phase, blocked, rows, loading, ans, saved, kept, sends, first>>

\* The first token adds the bubble, and starts the typewriter.  A token brings
\* text: the server sends none without (but for an answer of white space that a
\* plain request has cached), and the bubble of one such is not modelled.
Token ==
    LET m == req.msg IN
    /\ Reading /\ req.meta /\ ans[m].got < MaxTokens
    /\ ans' = [ans EXCEPT ![m].got = @ + 1, ![m].mode = "typing"]
    /\ rows' = IF ans[m].got = 0 THEN Append(rows, Row("bot", m, "stream")) ELSE rows
    /\ UNCHANGED <<build, phase, conv, blocked, loading, req, storage, sends, first, convs>>

\* done carries the verdict of the injection guard, or of the closed chat.  The
\* model may bring no token at all.
Done(v) ==
    LET m == req.msg IN
    /\ Reading
    /\ \/ req.meta /\ v = "answer"
       \/ req.meta /\ v = "blocked" /\ ans[m].got > 0
       \/ ~req.meta /\ v = "quota"
    /\ ans' = [ans EXCEPT ![m].closed = TRUE, ![m].verdict = v]
    /\ UNCHANGED <<build, phase, conv, blocked, rows, loading, req, storage, sends, first, convs>>

\* callBackend, after a stream without text: the same message once more.
Fallback ==
    /\ req' = [req EXCEPT !.stage = "plain", !.conv = conv, !.posts = @ + 1]
    /\ UNCHANGED <<build, phase, conv, blocked, rows, loading, ans, storage, sends, first, convs>>

\* The connection closes, or the browser cannot read a stream at all.
StreamEnds ==
    LET m == req.msg IN
    \/ /\ Streaming /\ ans[m].got = 0
       /\ ~(ans[m].verdict = "quota" /\ build \in Guarded)
       /\ Fallback
    \/ /\ Streaming /\ ans[m].verdict = "quota" /\ build \in Guarded
       /\ AnswerRow(m, "quota")
       /\ session' = [session EXCEPT !.blocked = TRUE]
       /\ Over
       /\ UNCHANGED <<build, phase, conv, sends, first, convs>>
    \/ /\ Streaming /\ ans[m].got > 0
       /\ ans' = [ans EXCEPT ![m].closed = TRUE]
       /\ Over
       /\ UNCHANGED <<build, phase, conv, blocked, rows, storage, sends, first, convs>>

\* An HTTP error, an error event, or a network failure.
StreamFails == Streaming /\ Fail /\ UNCHANGED convs

\* AbortError: what has arrived is the answer, if anything has.
Abort ==
    /\ Streaming
    /\ \/ /\ ans[req.msg].got > 0
          /\ FinishBubble(req.msg)
          /\ Over
          /\ UNCHANGED <<build, phase, sends, first, convs>>
       \/ /\ ans[req.msg].got = 0
          /\ Fail /\ UNCHANGED convs

\* The timer of streamChat.  The send button, which is to stop the stream too,
\* is disabled as long as the request lasts (setLoading, updateSendState).
StreamTimeout == Abort

\* Mistake: all that has arrived so far has been typed.
CaughtUp(m) == ans[m].shown = ans[m].got

Drained(m) == ans[m].shown = ans[m].got /\ ans[m].closed

\* paintStep: a few more characters, then finishUp.  The frames go on after
\* the request.
Paint(m) ==
    /\ ans[m].mode = "typing"
    /\ \/ \E k \in ans[m].shown + 1 .. ans[m].got :
            /\ ans' = [ans EXCEPT ![m].shown = k]
            /\ UNCHANGED <<conv, blocked, rows, storage>>
       \/ /\ Drained(m)
          /\ FinishBubble(m)
    /\ UNCHANGED <<build, phase, loading, req, sends, first, convs>>

(***************************************************************************)
(* The plain request.                                                      *)
(***************************************************************************)

\* An answer.  A refusal is a 403 with an answer in it, which only the guarded
\* builds show; a closed chat names no conversation.
PlainReply(v) ==
    LET c == IF v = "quota" THEN conv ELSE ServerConv IN
    /\ req.stage = "plain" /\ v # "none"
    /\ convs' = IF v = "quota" \/ req.conv # 0 THEN convs ELSE convs + 1
    /\ \/ /\ v = "answer" \/ build \in Guarded
          /\ conv' = c
          /\ session' = [conv |-> IF c # 0 THEN c ELSE session.conv,
                         blocked |-> session.blocked \/ Locks(v)]
          /\ AnswerRow(req.msg, v)
          /\ Over
          /\ UNCHANGED <<build, phase, sends, first>>
       \/ /\ v # "answer" /\ build \notin Guarded
          /\ Fail

\* Another HTTP error, an empty answer, a network failure; the timer of callBackend.
PlainFails   == req.stage = "plain" /\ Fail /\ UNCHANGED convs

\* Mistake: the request has no timer.
PlainHangs   == req.stage = "plain" /\ UNCHANGED vars

PlainTimeout == req.stage = "plain" /\ Fail /\ UNCHANGED convs

(***************************************************************************)
(* Other tabs of the site write the local history, or clear it.  The page  *)
(* reads it only in ConfigArrives: letting them do so until then loses no  *)
(* behaviour of this tab.                                                  *)
(***************************************************************************)

OtherTab ==
    /\ phase \in {"away", "config"}
    /\ saved' \in {<<>>, <<[who |-> "user", msg |-> 0]>>}
    /\ kept' = FALSE
    /\ UNCHANGED <<build, phase, page, session, sends, first, convs>>

(***************************************************************************)
(* The steps of a page by the part of the class they are in.               *)
(***************************************************************************)

Starting   == ConfigArrives \/ HistoryArrives
Sending    == Send
Buttons    == NewConversation
RowButtons == \E i \in DOMAIN rows : Retry(i)
Typing     == \E m \in Messages : Paint(m)
Stream     ==
    \/ StreamOpens \/ Meta \/ Token \/ StreamEnds \/ StreamFails \/ StreamTimeout
    \/ \E v \in Verdicts : Done(v)
    \/ Typing
Backend    == (\E v \in Verdicts : PlainReply(v)) \/ PlainFails \/ PlainTimeout

Widget == Starting \/ Sending \/ Buttons \/ RowButtons \/ Stream \/ Backend

Init ==
    /\ build \in Builds /\ phase = "away"
    /\ conv = 0 /\ blocked = FALSE /\ rows = <<>> /\ loading = FALSE
    /\ req = Idle /\ ans = [m \in Messages |-> NoAnswer]
    /\ session = NoSession /\ saved = <<>> /\ kept = TRUE
    /\ sends = 0 /\ first = 1
    /\ convs = 0

Next == (\E b \in Builds : Boot(b)) \/ Widget \/ Leave \/ OtherTab

Spec == Init /\ [][Next]_vars

\* A request of either kind has an abort timer, and a visible page gets frames.
Fairness == WF_vars(StreamTimeout \/ PlainTimeout) /\ WF_vars(Typing)

FairSpec == Spec /\ Fairness

(***************************************************************************)
(* Properties.                                                             *)
(***************************************************************************)

\* Every variable has its type.
TypeOK ==
    /\ build \in Builds
    /\ phase \in {"away", "config", "history", "ready"}
    /\ conv \in Nat /\ blocked \in BOOLEAN
    /\ rows \in Seq(Rows)
    /\ loading \in BOOLEAN
    /\ req \in Requests
    /\ ans \in [Messages -> Answers]
    /\ session \in Sessions
    /\ saved \in Seq(Entries) /\ kept \in BOOLEAN
    /\ sends \in 0 .. MaxSends /\ first \in 1 .. MaxSends + 1
    /\ convs \in Nat

Restoring == phase \in {"away", "config"}

\* Once initialize() has restored the session, the page and sessionStorage name
\* the same conversation, and a guarded build is blocked exactly when
\* sessionStorage says so.
SessionAgrees ==
    ~Restoring =>
        /\ session.conv = conv
        /\ build \in Guarded => session.blocked = blocked

\* A refusal that has been shown is kept: a guarded build has asw_blocked set.
RefusalIsKept ==
    \A m \in Messages :
        ans[m].mode = "finished" /\ Locks(ans[m].verdict) => session.blocked

\* Neither a page load nor an answer that comes late, before initialize() has
\* read sessionStorage or after the request is over, parts page and session.
StorageAgrees == SessionAgrees /\ RefusalIsKept

\* isLoading tells that a request is in flight, of the latest message; it is
\* repeated once at most, and only if nothing of an answer has arrived.
OneRequest ==
    /\ loading <=> req.stage # "idle"
    /\ loading => req.msg = sends
    /\ req.posts = 2 => req.stage = "plain" /\ ans[req.msg].got = 0

\* A finished answer shows all that has arrived of it and nothing arrives after;
\* no message has two answers on the screen, be it streamed, cut or repeated.
AnswerIsWhole ==
    /\ \A m \in Messages : ans[m].mode = "finished" =>
            /\ ans[m].shown = ans[m].got
            /\ Reading => req.msg # m
    /\ \A i, j \in DOMAIN rows :
            /\ rows[i].kind \in {"stream", "answer"} /\ rows[j].kind \in {"stream", "answer"}
            /\ rows[i].msg = rows[j].msg
            => i = j

\* While no answer is being typed the stored history is the end of the screen:
\* every way a message, an answer or an error comes or ends saves it.  Only
\* another tab and the retry button of a page that refuses to send part them.
HistoryIsScreen ==
    ~Restoring /\ kept /\ (\A m \in Messages : ans[m].mode # "typing") => saved = Recent(rows)

\* After "new conversation" neither the screen nor the history, nor a page
\* loaded later, shows a message that was sent before, except the one that was
\* in flight at the click.
NewStartsClean ==
    /\ \A i \in DOMAIN rows : rows[i].msg = 0 \/ rows[i].msg >= first
    /\ \A i \in DOMAIN saved : saved[i].msg = 0 \/ saved[i].msg >= first

\* The message m is in flight or its answer is being typed.
Pending(m) == (loading /\ req.msg = m) \/ ans[m].mode = "typing"

\* Every message comes to its end, request and typewriter, whatever the server
\* and the network do and whatever is sent meanwhile.
AnswersSettle == \A m \in Messages : Pending(m) ~> ~Pending(m)

=============================================================================

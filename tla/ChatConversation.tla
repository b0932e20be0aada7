--------------------------- MODULE ChatConversation ---------------------------
(***************************************************************************)
(* Chat requests and the injection guard (chat and chat_stream of          *)
(* chat/views.py, the unblock buttons of chat/panel.py).  A request loads  *)
(* its Conversation row once and works on that copy; every save names the  *)
(* columns it writes.  A visitor is known by a fingerprint of address and  *)
(* browser; a block is kept in the row and, for the fingerprint of the     *)
(* request that ran into it, in the cache shared by all processes.         *)
(* The switch that closes the chat for everybody only keeps requests from  *)
(* entering, and which text is an injection attempt is left open.          *)
(***************************************************************************)
EXTENDS Naturals, FiniteSets

CONSTANTS
    Conversations,   \* conversation_id values
    Visitors,        \* fingerprints (_visitor_key)
    Handlers,        \* chat requests in flight
    Operators,       \* panel users
    Threshold,       \* GuardSettings.block_threshold
    MaxRequests,     \* bound: chat requests in a behaviour
    MaxOps,          \* bound: panel operations, failures and losses of the cache
    Nobody, NoRow

ASSUME ChatAssumption ==
    /\ Threshold \in 2..20
    /\ Nobody \notin Conversations \cup Visitors
    /\ NoRow \notin [visitor : Visitors, attempts : Nat, blocked : BOOLEAN, count : Nat]
    /\ MaxRequests \in Nat /\ MaxOps \in Nat

VARIABLES
    row,       \* the Conversation rows
    messages,  \* how many Message rows each conversation has
    sticky,    \* fingerprints with a guard:visitor-block key in the cache
    handler,   \* where each request is, and what it needs of its copy of the row
    operator,  \* where each panel user is
    tried,     \* history: injection attempts ever made in each conversation
    barred,    \* history: requests that were blocked when they came, and since
    requests, ops

database == <<row, messages>>
history == <<tried, barred>>
bounds == <<requests, ops>>
vars == <<database, sticky, handler, operator, history, bounds>>

NewRow(v) == [visitor |-> v, attempts |-> 0, blocked |-> FALSE, count |-> 0]
NoRequest == [pc |-> "idle", visitor |-> Nobody, conv |-> Nobody, attempts |-> 0, count |-> 0,
              attack |-> FALSE, reply |-> "none"]
AtDesk == [pc |-> "idle", conv |-> Nobody, keys |-> {}, copy |-> NoRow]

Init ==
    /\ row = [c \in Conversations |-> NoRow]
    /\ messages = [c \in Conversations |-> 0]
    /\ sticky = {}
    /\ handler = [h \in Handlers |-> NoRequest]
    /\ operator = [o \in Operators |-> AtDesk]
    /\ tried = [c \in Conversations |-> 0]
    /\ barred = {}
    /\ requests = 0 /\ ops = 0

Exists(c) == row[c] # NoRow
BlockedRows == {c \in Conversations : Exists(c) /\ row[c].blocked}
BlockedRowOf(v) == \E c \in BlockedRows : row[c].visitor = v

\* What the guard would find of a request of visitor v in conversation c.
Barred(v, c) == c \in BlockedRows \/ v \in sticky \/ BlockedRowOf(v)

Operation == ops < MaxOps /\ ops' = ops + 1

Goto(h, pc) == handler' = [handler EXCEPT ![h].pc = pc]
Respond(h, reply) ==
    handler' = [handler EXCEPT ![h].pc = "user", ![h].reply = reply,
                               ![h].attempts = 0, ![h].attack = FALSE]
Leave(h) ==
    /\ handler' = [handler EXCEPT ![h] = NoRequest]
    /\ barred' = barred \ {h}

(***************************************************************************)
(* The request: guard.                                                     *)
(***************************************************************************)

\* The conversation is loaded, or created for this visitor; a block found in
\* the row loaded ends the request with the block message.
Enter(h, v, c, attack) ==
    LET copy == IF Exists(c) THEN row[c] ELSE NewRow(v) IN
    /\ requests < MaxRequests /\ requests' = requests + 1
    /\ handler[h] = NoRequest
    /\ row' = [row EXCEPT ![c] = copy]
    /\ handler' = [handler EXCEPT ![h] =
            [pc |-> IF copy.blocked THEN "user" ELSE "cache", visitor |-> v, conv |-> c,
             attempts |-> IF copy.blocked THEN 0 ELSE copy.attempts, count |-> copy.count,
             attack |-> attack /\ ~copy.blocked,
             reply |-> IF copy.blocked THEN "blocked" ELSE "none"]]
    /\ barred' = IF Barred(v, c) THEN barred \cup {h} ELSE barred
    /\ UNCHANGED <<messages, sticky, operator, tried, ops>>

\* _visitor_is_blocked: first the cache, ...
CheckCache(h) ==
    /\ handler[h].pc = "cache"
    /\ IF handler[h].visitor \in sticky THEN Respond(h, "blocked") ELSE Goto(h, "rows")
    /\ UNCHANGED <<database, sticky, operator, history, bounds>>

\* Mistake: the visitor's other conversations are not looked at.
CheckRowsNever(h) ==
    /\ handler[h].pc = "rows"
    /\ IF handler[h].attack THEN Goto(h, "attempt") ELSE Respond(h, "answer")
    /\ UNCHANGED <<database, sticky, operator, history, bounds>>

\* ... then any blocked conversation that was opened with this fingerprint.
CheckRows(h) ==
    /\ handler[h].pc = "rows"
    /\ IF BlockedRowOf(handler[h].visitor) THEN Respond(h, "blocked")
       ELSE IF handler[h].attack THEN Goto(h, "attempt") ELSE Respond(h, "answer")
    /\ UNCHANGED <<database, sticky, operator, history, bounds>>

\* Cache or database cannot be asked: the visitor counts as not blocked.
CheckFails(h) ==
    /\ Operation
    /\ handler[h].pc \in {"cache", "rows"}
    /\ IF handler[h].attack THEN Goto(h, "attempt") ELSE Respond(h, "answer")
    /\ barred' = barred \ {h}
    /\ UNCHANGED <<database, sticky, operator, tried, requests>>

\* One more attempt in the conversation; the guard refuses it or blocks.
Judge(h, over) ==
    /\ handler' = [handler EXCEPT ![h].pc = IF over THEN "stick" ELSE "user",
                                  ![h].reply = IF over THEN "blockedNow" ELSE "refused",
                                  ![h].attempts = 0, ![h].attack = FALSE]
    /\ tried' = [tried EXCEPT ![handler[h].conv] = @ + 1]

\* Mistakes: save() writes every column of the copy, which was not blocked, ...
AttemptWholeRow(h) ==
    LET n == handler[h].attempts + 1
        over == n >= Threshold
    IN
    /\ handler[h].pc = "attempt"
    /\ row' = [row EXCEPT ![handler[h].conv].attempts = n, ![handler[h].conv].blocked = over,
                          ![handler[h].conv].count = handler[h].count]
    /\ Judge(h, over)
    /\ UNCHANGED <<messages, sticky, operator, barred, bounds>>

\* ... or the block comes with the attempt before the last.
AttemptEarly(h) ==
    LET n == handler[h].attempts + 1
        over == n + 1 >= Threshold
    IN
    /\ handler[h].pc = "attempt"
    /\ row' = [row EXCEPT ![handler[h].conv].attempts = n, ![handler[h].conv].blocked = @ \/ over]
    /\ Judge(h, over)
    /\ UNCHANGED <<messages, sticky, operator, barred, bounds>>

\* A row with n attempts saved, and the block if it is due.  A block of the
\* row is not undone.
Tried(r, n, over) == [r EXCEPT !.attempts = n, !.blocked = r.blocked \/ over]

\* _guard_on_attempt: the copy's count goes up by one and is saved, with the
\* block if it reaches the threshold.
Attempt(h) ==
    LET n == handler[h].attempts + 1
        over == n >= Threshold
    IN
    /\ handler[h].pc = "attempt"
    /\ row' = [row EXCEPT ![handler[h].conv] = Tried(@, n, over)]
    /\ Judge(h, over)
    /\ UNCHANGED <<messages, sticky, operator, barred, bounds>>

\* Mistake: the key is made of the conversation.
StickConversation(h) ==
    /\ handler[h].pc = "stick"
    /\ sticky' = sticky \cup {handler[h].conv}
    /\ Goto(h, "user")
    /\ UNCHANGED <<database, operator, history, bounds>>

\* block_visitor, with the fingerprint of the request.
Stick(h) ==
    /\ handler[h].pc = "stick"
    /\ sticky' = sticky \cup {handler[h].visitor}
    /\ Goto(h, "user")
    /\ UNCHANGED <<database, operator, history, bounds>>

\* The attempt cannot be saved: it is refused and not counted.
AttemptFails(h) ==
    /\ Operation
    /\ handler[h].pc = "attempt"
    /\ Respond(h, "refused")
    /\ tried' = [tried EXCEPT ![handler[h].conv] = @ + 1]
    /\ UNCHANGED <<database, sticky, operator, barred, requests>>

(***************************************************************************)
(* The request: messages and answer.                                       *)
(***************************************************************************)

\* Mistake: what the guard replies is counted and not stored.
InsertAnswers(h) ==
    LET c == handler[h].conv IN
    /\ handler[h].pc \in {"user", "assistant"}
    /\ messages' = [messages EXCEPT ![c] = IF handler[h].reply = "answer" THEN @ + 1 ELSE @]
    /\ Goto(h, IF handler[h].pc = "user" THEN "userCount" ELSE "assistantCount")
    /\ UNCHANGED <<row, sticky, operator, history, bounds>>

\* _persist_user_message and _persist_assistant_message insert the message ...
Insert(h) ==
    /\ handler[h].pc \in {"user", "assistant"}
    /\ messages' = [messages EXCEPT ![handler[h].conv] = @ + 1]
    /\ Goto(h, IF handler[h].pc = "user" THEN "userCount" ELSE "assistantCount")
    /\ UNCHANGED <<row, sticky, operator, history, bounds>>

\* ... and save the copy's count plus one.  Blocked and refused requests get
\* their reply without the assistant being asked.
Count(h) ==
    LET n == handler[h].count + 1 IN
    /\ handler[h].pc \in {"userCount", "assistantCount"}
    /\ row' = [row EXCEPT ![handler[h].conv].count = n]
    /\ \/ /\ handler[h].pc = "userCount"
          /\ handler' = [handler EXCEPT ![h].count = n,
                            ![h].pc = IF handler[h].reply = "answer" THEN "asking" ELSE "assistant"]
          /\ UNCHANGED barred
       \/ handler[h].pc = "assistantCount" /\ Leave(h)
    /\ UNCHANGED <<messages, sticky, operator, tried, bounds>>

Answered(h) ==
    /\ handler[h].pc = "asking"
    /\ Goto(h, "assistant")
    /\ UNCHANGED <<database, sticky, operator, history, bounds>>

\* The assistant or the database fails, or the client closes the stream.
Abort(h) ==
    /\ Operation
    /\ \/ handler[h].pc \in {"asking", "assistant", "assistantCount"}
       \/ handler[h].pc \in {"user", "userCount"} /\ handler[h].reply \in {"answer", "blocked"}
    /\ Leave(h)
    /\ UNCHANGED <<database, sticky, operator, tried, requests>>

\* An exception while the guard's reply is stored is swallowed, and the
\* request goes on as if it were none of the guard's.
GuardFails(h) ==
    LET counted == handler[h].pc \in {"userCount", "assistantCount"} IN
    /\ Operation
    /\ handler[h].pc \in {"user", "userCount", "assistant", "assistantCount"}
    /\ handler[h].reply \in {"refused", "blockedNow"}
    /\ handler' = [handler EXCEPT ![h].pc = "user", ![h].reply = "answer",
                                  ![h].count = IF counted THEN @ + 1 ELSE @]
    /\ UNCHANGED <<database, sticky, operator, history, requests>>

(***************************************************************************)
(* The panel and the Django admin.                                         *)
(***************************************************************************)

Cleared(r) == [r EXCEPT !.attempts = 0, !.blocked = FALSE]

\* Requests in conversations cs, or of visitors vs, may go through from now on.
Excuse(cs, vs) ==
    barred' = {h \in barred : handler[h].conv \notin cs /\ handler[h].visitor \notin vs}

\* guard_unblock: the row, and then the keys of its visitor and of the
\* fingerprint of the panel user, which may be nobody's among the visitors.
Unblock(o, c, own) ==
    /\ Operation
    /\ operator[o] = AtDesk /\ Exists(c)
    /\ row' = [row EXCEPT ![c] = Cleared(@)]
    /\ operator' = [operator EXCEPT ![o].pc = "clear",
                                       ![o].keys = {row[c].visitor, own} \ {Nobody}]
    /\ Excuse({c}, {row[c].visitor})
    /\ UNCHANGED <<messages, sticky, handler, tried, requests>>

\* guard_unblock_all: the visitors of the blocked rows are listed, ...
UnblockAll(o) ==
    /\ Operation
    /\ operator[o] = AtDesk
    /\ operator' = [operator EXCEPT ![o].pc = "update",
            ![o].keys = {row[c].visitor : c \in BlockedRows}]
    /\ UNCHANGED <<database, sticky, handler, history, requests>>

\* ... every row blocked by now is cleared, ...
UpdateAll(o) ==
    /\ operator[o].pc = "update"
    /\ row' = [c \in Conversations |-> IF c \in BlockedRows THEN Cleared(row[c]) ELSE row[c]]
    /\ operator' = [operator EXCEPT ![o].pc = "clear"]
    /\ Excuse(BlockedRows, {row[c].visitor : c \in BlockedRows})
    /\ UNCHANGED <<messages, sticky, handler, tried, bounds>>

\* ... and the keys of the listed visitors are deleted.
ClearKeys(o) ==
    /\ operator[o].pc = "clear"
    /\ sticky' = sticky \ operator[o].keys
    /\ operator' = [operator EXCEPT ![o] = AtDesk]
    /\ Excuse({}, operator[o].keys)
    /\ UNCHANGED <<database, handler, tried, bounds>>

\* The form of the Django admin is filled from the row ...
AdminLoad(o, c) ==
    /\ Operation
    /\ operator[o] = AtDesk /\ Exists(c)
    /\ operator' = [operator EXCEPT ![o].pc = "form", ![o].conv = c, ![o].copy = row[c]]
    /\ UNCHANGED <<database, sticky, handler, history, requests>>

\* ... and saves every column as it was filled in.
AdminSave(o) ==
    /\ operator[o].pc = "form"
    /\ row' = [row EXCEPT ![operator[o].conv] = operator[o].copy]
    /\ operator' = [operator EXCEPT ![o] = AtDesk]
    /\ Excuse({operator[o].conv}, {operator[o].copy.visitor})
    /\ UNCHANGED <<messages, sticky, handler, tried, bounds>>

\* A key expires after seven days, or the cache is emptied.
CacheLost(v) ==
    /\ Operation
    /\ v \in sticky
    /\ sticky' = sticky \ {v}
    /\ barred' = {h \in barred :
                    handler[h].pc = "cache" /\ handler[h].visitor = v => BlockedRowOf(v)}
    /\ UNCHANGED <<database, handler, operator, tried, requests>>

-----------------------------------------------------------------------------

HandlerStep(h) ==
    \/ \E v \in Visitors, c \in Conversations, attack \in BOOLEAN : Enter(h, v, c, attack)
    \/ CheckCache(h)
    \/ CheckRows(h)
    \/ CheckFails(h)
    \/ Attempt(h)
    \/ AttemptFails(h)
    \/ Stick(h)
    \/ Insert(h)
    \/ Count(h)
    \/ Answered(h)
    \/ Abort(h)
    \/ GuardFails(h)

OperatorStep(o) ==
    \/ \E c \in Conversations, own \in Visitors \cup {Nobody} : Unblock(o, c, own)
    \/ \E c \in Conversations : AdminLoad(o, c)
    \/ UnblockAll(o)
    \/ UpdateAll(o)
    \/ ClearKeys(o)
    \/ AdminSave(o)

Next ==
    \/ \E h \in Handlers : HandlerStep(h)
    \/ \E o \in Operators : OperatorStep(o)
    \/ \E v \in Visitors : CacheLost(v)

Spec == Init /\ [][Next]_vars

(***************************************************************************)
(* Properties.                                                             *)
(***************************************************************************)

Row == [visitor : Visitors, attempts : Nat, blocked : BOOLEAN, count : Nat]

Request == [
    pc : {"idle", "cache", "rows", "attempt", "stick", "user", "userCount",
          "asking", "assistant", "assistantCount"},
    visitor : Visitors \cup {Nobody}, conv : Conversations \cup {Nobody},
    attempts : Nat, count : Nat, attack : BOOLEAN,
    reply : {"none", "blocked", "blockedNow", "refused", "answer"}]

Desk == [
    pc : {"idle", "update", "clear", "form"}, conv : Conversations \cup {Nobody},
    keys : SUBSET Visitors, copy : Row \cup {NoRow}]

\* Every variable has its type.
TypeOK ==
    /\ row \in [Conversations -> Row \cup {NoRow}]
    /\ messages \in [Conversations -> Nat]
    /\ sticky \subseteq Visitors
    /\ handler \in [Handlers -> Request]
    /\ operator \in [Operators -> Desk]
    /\ tried \in [Conversations -> Nat]
    /\ barred \subseteq Handlers
    /\ requests \in Nat /\ ops \in Nat

\* A request that comes while its conversation or its visitor is blocked never
\* reaches the assistant, also with a new conversation and after the cache
\* lost its keys, unless an operator unblocks in the meantime or the check
\* cannot ask cache or database.
BlockedIsNotAnswered == \A h \in barred : handler[h].pc # "asking"

\* Only an operator unblocks a conversation: the saves of requests that loaded
\* the row before the block leave it blocked.
OnlyOperatorsUnblock ==
    [][\A c \in Conversations :
          c \in BlockedRows /\ ~row'[c].blocked =>
              \E o \in Operators : operator'[o] # operator[o]]_row

\* A conversation is never blocked before as many injection attempts as the
\* threshold were made in it, however requests and unblocking overlap.
NeverBlockedEarly ==
    \A c \in BlockedRows : tried[c] >= Threshold

\* The message count of a conversation never runs ahead of its messages;
\* overlapping requests lose counts and never invent them.
CountNeverAhead == \A c \in Conversations : Exists(c) => row[c].count <= messages[c]

\* views.py:1180-1181, "the sticky visitor cache must not outlive the DB
\* rows": when an unblock button has deleted its keys, no row is blocked and
\* no request is under way, no key is left.
NoKeyOutlivesRows ==
    [][\A o \in Operators :
          /\ ClearKeys(o)
          /\ BlockedRows = {}
          /\ \A h \in Handlers : handler[h] = NoRequest
          => sticky' = {}]_vars

=============================================================================

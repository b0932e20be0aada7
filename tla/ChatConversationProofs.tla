------------------------- MODULE ChatConversationProofs -------------------------
(***************************************************************************)
(* The guard of ChatConversation for any number of conversations,          *)
(* visitors, overlapping requests and panel users.                         *)
(***************************************************************************)
EXTENDS ChatConversation, TLAPS

\* A request works on a conversation that exists, and a filled-in form is
\* that of a row that exists, with the row's visitor.
InHand ==
    /\ \A h \in Handlers : handler[h].pc # "idle" =>
        /\ handler[h].visitor \in Visitors
        /\ handler[h].conv \in Conversations
        /\ Exists(handler[h].conv)
    /\ \A o \in Operators : operator[o].pc = "form" =>
        /\ operator[o].conv \in Conversations
        /\ Exists(operator[o].conv)
        /\ operator[o].copy \in Row
        /\ operator[o].copy.visitor = row[operator[o].conv].visitor

TypeInv == TypeOK /\ InHand

LEMMA TypeInit == Init => TypeInv
BY ChatAssumption DEF Init, TypeInv, TypeOK, InHand, Exists, NoRequest, AtDesk, Request, Desk

\* Rows that stay rows of the same visitor, and requests and forms of the
\* same conversation, keep what they have in hand.
LEMMA InHandKept ==
    ASSUME InHand,
           \A c \in Conversations : Exists(c) =>
               row'[c] # NoRow /\ row'[c].visitor = row[c].visitor,
           \A h \in Handlers : handler'[h].pc # "idle" =>
               /\ handler[h].pc # "idle"
               /\ handler'[h].conv = handler[h].conv /\ handler'[h].visitor = handler[h].visitor,
           \A o \in Operators : operator'[o].pc = "form" => operator'[o] = operator[o]
    PROVE  InHand'
BY DEF InHand, Exists

\* A request that moves on keeps its type, conversation and visitor.
LEMMA MoveOn ==
    ASSUME TypeInv, NEW h \in Handlers, NEW rec \in Request,
           handler' = [handler EXCEPT ![h] = rec],
           rec.pc # "idle" => /\ handler[h].pc # "idle"
                              /\ rec.conv = handler[h].conv /\ rec.visitor = handler[h].visitor
    PROVE  /\ handler' \in [Handlers -> Request]
           /\ \A g \in Handlers : handler'[g].pc # "idle" =>
               /\ handler[g].pc # "idle"
               /\ handler'[g].conv = handler[g].conv /\ handler'[g].visitor = handler[g].visitor
BY DEF TypeInv, TypeOK

\* Setting attempts, block or count of a row that exists.
LEMMA RowSet ==
    ASSUME TypeInv, NEW c \in Conversations, Exists(c),
           NEW rec \in Row, rec.visitor = row[c].visitor,
           row' = [row EXCEPT ![c] = rec]
    PROVE  /\ row' \in [Conversations -> Row \cup {NoRow}]
           /\ \A d \in Conversations : Exists(d) => row'[d] # NoRow /\ row'[d].visitor = row[d].visitor
BY ChatAssumption DEF TypeInv, TypeOK, Exists, Row

LEMMA EnterType ==
    ASSUME TypeInv, NEW h \in Handlers, NEW v \in Visitors, NEW c \in Conversations,
           NEW attack \in BOOLEAN, Enter(h, v, c, attack)
    PROVE  TypeInv'
<1> DEFINE copy == IF Exists(c) THEN row[c] ELSE NewRow(v)
           rec == [pc |-> IF copy.blocked THEN "user" ELSE "cache", visitor |-> v, conv |-> c,
                   attempts |-> IF copy.blocked THEN 0 ELSE copy.attempts, count |-> copy.count,
                   attack |-> attack /\ ~copy.blocked,
                   reply |-> IF copy.blocked THEN "blocked" ELSE "none"]
<1>1. copy \in Row
  BY ChatAssumption DEF TypeInv, TypeOK, Exists, NewRow, Row
<1>2. rec \in Request
  BY <1>1 DEF Row, Request
<1>3. row' = [row EXCEPT ![c] = copy] /\ handler' = [handler EXCEPT ![h] = rec]
  BY DEF Enter
<1> HIDE DEF copy
<1>4. TypeOK'
  <2>1. requests' \in Nat /\ barred' \subseteq Handlers
    BY DEF Enter, TypeInv, TypeOK
  <2>2. row' \in [Conversations -> Row \cup {NoRow}] /\ handler' \in [Handlers -> Request]
    BY <1>1, <1>2, <1>3 DEF TypeInv, TypeOK
  <2> QED BY <2>1, <2>2 DEF Enter, TypeInv, TypeOK
<1>5. /\ row'[c] # NoRow
      /\ \A d \in Conversations : Exists(d) => row'[d] # NoRow /\ row'[d].visitor = row[d].visitor
  BY <1>1, <1>3, ChatAssumption DEF TypeInv, TypeOK, Exists, Row, copy
<1>6. handler'[h].visitor = v /\ handler'[h].conv = c
      /\ \A g \in Handlers \ {h} : handler'[g] = handler[g]
  BY <1>3 DEF TypeInv, TypeOK
<1>7. InHand'
  BY <1>5, <1>6 DEF Enter, TypeInv, InHand, Exists
<1> QED BY <1>4, <1>7 DEF TypeInv

\* What a step of a request leaves of the handlers: the others, and a typed
\* record of the same conversation and visitor, or none.
HandlerMoved(h) ==
    /\ handler' \in [Handlers -> Request]
    /\ handler'[h].pc # "idle" =>
        /\ handler'[h].conv = handler[h].conv /\ handler'[h].visitor = handler[h].visitor
        /\ handler'[h].attempts \in {handler[h].attempts, 0}
    /\ \A g \in Handlers \ {h} : handler'[g] = handler[g]

LEMMA GotoMoves ==
    ASSUME TypeOK, NEW h \in Handlers, NEW pc \in {"rows", "attempt", "user", "userCount",
               "asking", "assistant", "assistantCount"}, Goto(h, pc)
    PROVE  /\ HandlerMoved(h) /\ handler'[h].pc = pc
           /\ handler'[h].count = handler[h].count /\ handler'[h].reply = handler[h].reply
<1>1. [handler[h] EXCEPT !.pc = pc] \in Request
  BY DEF TypeOK, Request
<1> QED BY <1>1 DEF Goto, HandlerMoved, TypeOK, Request

LEMMA RespondMoves ==
    ASSUME TypeOK, NEW h \in Handlers, NEW reply \in {"blocked", "refused", "answer"},
           Respond(h, reply)
    PROVE  /\ HandlerMoved(h)
           /\ handler'[h].pc = "user" /\ handler'[h].reply = reply
           /\ handler'[h].count = handler[h].count
<1> DEFINE rec == [handler[h] EXCEPT !.pc = "user", !.reply = reply, !.attempts = 0, !.attack = FALSE]
<1>1. rec \in Request
  BY DEF TypeOK, Request
<1>2. /\ rec.pc = "user" /\ rec.reply = reply /\ rec.count = handler[h].count
      /\ rec.conv = handler[h].conv /\ rec.visitor = handler[h].visitor
  BY DEF TypeOK, Request
<1>3. handler' = [handler EXCEPT ![h] = rec]
  BY DEF Respond, TypeOK
<1> QED BY <1>1, <1>2, <1>3 DEF HandlerMoved, TypeOK

LEMMA LeaveMoves ==
    ASSUME TypeOK, NEW h \in Handlers, Leave(h)
    PROVE  HandlerMoved(h) /\ handler'[h] = NoRequest /\ barred' = barred \ {h}
<1>1. NoRequest \in Request
  BY DEF NoRequest, Request
<1> QED BY <1>1 DEF Leave, HandlerMoved, TypeOK, NoRequest

LEMMA JudgeMoves ==
    ASSUME TypeInv, NEW h \in Handlers, handler[h].pc # "idle", NEW over \in BOOLEAN, Judge(h, over)
    PROVE  /\ HandlerMoved(h)
           /\ handler'[h].pc \in {"stick", "user"} /\ handler'[h].count = handler[h].count
           /\ handler'[h].reply \in {"refused", "blockedNow"}
           /\ tried' = [tried EXCEPT ![handler[h].conv] = tried[handler[h].conv] + 1]
<1> DEFINE rec == [handler[h] EXCEPT !.pc = IF over THEN "stick" ELSE "user",
                                     !.reply = IF over THEN "blockedNow" ELSE "refused",
                                     !.attempts = 0, !.attack = FALSE]
<1>1. /\ rec \in Request
      /\ rec.pc \in {"stick", "user"} /\ rec.reply \in {"refused", "blockedNow"}
      /\ rec.count = handler[h].count
      /\ rec.conv = handler[h].conv /\ rec.visitor = handler[h].visitor
  BY DEF TypeInv, TypeOK, Request
<1>2. handler' = [handler EXCEPT ![h] = rec]
  BY DEF Judge, TypeInv, TypeOK
<1>3. tried' = [tried EXCEPT ![handler[h].conv] = tried[handler[h].conv] + 1]
  BY DEF Judge, TypeInv, TypeOK
<1> QED BY <1>1, <1>2, <1>3 DEF HandlerMoved, TypeInv, TypeOK

LEMMA TypeAfterMove ==
    ASSUME TypeInv, NEW h \in Handlers, handler[h].pc # "idle", HandlerMoved(h),
           row' \in [Conversations -> Row \cup {NoRow}],
           \A c \in Conversations : Exists(c) => row'[c] # NoRow /\ row'[c].visitor = row[c].visitor,
           messages' \in [Conversations -> Nat], sticky' \subseteq Visitors,
           operator' = operator, tried' \in [Conversations -> Nat],
           barred' \subseteq barred, requests' = requests, ops' \in Nat
    PROVE  TypeInv'
<1>1. TypeOK'
  BY DEF TypeInv, TypeOK, HandlerMoved
<1>2. InHand'
  BY InHandKept DEF TypeInv, HandlerMoved
<1> QED BY <1>1, <1>2 DEF TypeInv

\* The same of a step that leaves the rows alone.
LEMMA TypeAfterQuietMove ==
    ASSUME TypeInv, NEW h \in Handlers, handler[h].pc # "idle", HandlerMoved(h), row' = row,
           messages' \in [Conversations -> Nat], sticky' \subseteq Visitors,
           operator' = operator, tried' \in [Conversations -> Nat],
           barred' \subseteq barred, requests' = requests, ops' \in Nat
    PROVE  TypeInv'
<1>1. /\ row' \in [Conversations -> Row \cup {NoRow}]
      /\ \A c \in Conversations : Exists(c) => row'[c] # NoRow /\ row'[c].visitor = row[c].visitor
  BY DEF TypeInv, TypeOK, Exists
<1> QED BY <1>1, TypeAfterMove

LEMMA TriedRow ==
    ASSUME NEW r \in Row, NEW n \in Nat, NEW over \in BOOLEAN
    PROVE  /\ Tried(r, n, over) \in Row
           /\ Tried(r, n, over).visitor = r.visitor /\ Tried(r, n, over).count = r.count
           /\ Tried(r, n, over).attempts = n
           /\ Tried(r, n, over).blocked <=> r.blocked \/ over
<1> DEFINE b == r.blocked \/ over
<1>1. b \in BOOLEAN
  OBVIOUS
<1>2. Tried(r, n, over) = [r EXCEPT !.attempts = n, !.blocked = b]
  BY DEF Tried
<1> HIDE DEF b
<1>3. /\ Tried(r, n, over) \in Row
      /\ Tried(r, n, over).visitor = r.visitor /\ Tried(r, n, over).count = r.count
      /\ Tried(r, n, over).attempts = n /\ Tried(r, n, over).blocked = b
  BY <1>1, <1>2 DEF Row
<1> QED BY <1>3 DEF b

\* What Attempt makes of the row of a request.
LEMMA AttemptSets ==
    ASSUME TypeInv, NEW h \in Handlers, handler[h].pc # "idle", Attempt(h)
    PROVE  LET c == handler[h].conv
               n == handler[h].attempts + 1
               over == n >= Threshold
           IN  /\ c \in Conversations /\ row[c] \in Row /\ n \in Nat /\ over \in BOOLEAN
               /\ row' = [row EXCEPT ![c] = Tried(row[c], n, over)]
               /\ Judge(h, over)
<1>1. /\ handler[h].conv \in Conversations /\ row[handler[h].conv] \in Row
      /\ handler[h].attempts \in Nat
  BY DEF TypeInv, TypeOK, InHand, Exists, Request
<1> QED BY <1>1, ChatAssumption DEF Attempt

\* What Count makes of it.
LEMMA CountSets ==
    ASSUME TypeInv, NEW h \in Handlers, handler[h].pc # "idle", Count(h)
    PROVE  LET c == handler[h].conv
               n == handler[h].count + 1
               rec == [row[c] EXCEPT !.count = n]
           IN  /\ c \in Conversations /\ row[c] \in Row
               /\ row' = [row EXCEPT ![c] = rec]
               /\ rec \in Row
               /\ rec.visitor = row[c].visitor /\ rec.attempts = row[c].attempts
               /\ rec.blocked = row[c].blocked /\ rec.count = n
<1>1. /\ handler[h].conv \in Conversations /\ row[handler[h].conv] \in Row
      /\ handler[h].count \in Nat
  BY DEF TypeInv, TypeOK, InHand, Exists, Request
<1> QED BY <1>1 DEF Count, Row

LEMMA CountMoves ==
    ASSUME TypeInv, NEW h \in Handlers, handler[h].pc # "idle", Count(h)
    PROVE  /\ HandlerMoved(h)
           /\ \/ /\ handler'[h].count = handler[h].count + 1
                 /\ handler'[h].reply = handler[h].reply
                 /\ handler'[h].pc \in {"asking", "assistant"}
                 /\ handler'[h].pc = "asking" => handler[h].reply = "answer"
                 /\ barred' = barred
              \/ handler'[h] = NoRequest /\ barred' = barred \ {h}
<1>1. CASE handler[h].pc = "userCount"
  <2> DEFINE pc == IF handler[h].reply = "answer" THEN "asking" ELSE "assistant"
             n == handler[h].count + 1
             rec == [handler[h] EXCEPT !.count = n, !.pc = pc]
  <2>0. pc \in {"asking", "assistant"} /\ (pc = "asking" => handler[h].reply = "answer")
    OBVIOUS
  <2>n. n \in Nat
    BY DEF TypeInv, TypeOK, Request
  <2>2. handler' = [handler EXCEPT ![h] = rec] /\ barred' = barred
    BY <1>1 DEF Count, TypeInv, TypeOK
  <2> HIDE DEF pc, n
  <2>1. /\ rec \in Request
        /\ rec.count = n /\ rec.reply = handler[h].reply
        /\ rec.pc = pc
        /\ rec.conv = handler[h].conv /\ rec.visitor = handler[h].visitor
    BY <2>0, <2>n DEF TypeInv, TypeOK, Request
  <2> QED BY <2>0, <2>1, <2>2 DEF n, HandlerMoved, TypeInv, TypeOK
<1>2. CASE handler[h].pc = "assistantCount"
  BY <1>2, LeaveMoves DEF Count, TypeInv
<1> QED BY <1>1, <1>2 DEF Count

LEMMA GuardFailsMoves ==
    ASSUME TypeOK, NEW h \in Handlers, GuardFails(h)
    PROVE  /\ HandlerMoved(h) /\ handler[h].pc # "idle"
           /\ handler'[h].pc = "user" /\ handler'[h].reply = "answer"
           /\ handler'[h].count = IF handler[h].pc \in {"userCount", "assistantCount"}
                                  THEN handler[h].count + 1 ELSE handler[h].count
<1> DEFINE n == IF handler[h].pc \in {"userCount", "assistantCount"}
                THEN handler[h].count + 1 ELSE handler[h].count
           rec == [handler[h] EXCEPT !.pc = "user", !.reply = "answer", !.count = n]
<1>1. n \in Nat
  BY DEF TypeOK, Request
<1>2. handler' = [handler EXCEPT ![h] = rec] /\ handler[h].pc # "idle"
  BY DEF GuardFails, TypeOK
<1> HIDE DEF n
<1>3. /\ rec \in Request
      /\ rec.pc = "user" /\ rec.reply = "answer" /\ rec.count = n
      /\ rec.conv = handler[h].conv /\ rec.visitor = handler[h].visitor
  BY <1>1 DEF TypeOK, Request
<1>4. HandlerMoved(h) /\ handler'[h] = rec
  BY <1>2, <1>3 DEF HandlerMoved, TypeOK
<1> QED BY <1>2, <1>3, <1>4 DEF n

LEMMA Bump ==
    ASSUME NEW f \in [Conversations -> Nat], NEW c \in Conversations
    PROVE  /\ [f EXCEPT ![c] = f[c] + 1] \in [Conversations -> Nat]
           /\ [f EXCEPT ![c] = f[c] + 1][c] = f[c] + 1
           /\ \A d \in Conversations : f[d] <= [f EXCEPT ![c] = f[c] + 1][d]
OBVIOUS

LEMMA HandlerType ==
    ASSUME TypeInv, NEW h \in Handlers, HandlerStep(h)
    PROVE  TypeInv'
<1> USE DEF database, history, bounds
<1>0. /\ TypeOK
      /\ messages \in [Conversations -> Nat] /\ sticky \subseteq Visitors
      /\ tried \in [Conversations -> Nat] /\ barred \subseteq Handlers
      /\ handler[h] \in Request /\ requests \in Nat /\ ops \in Nat
      /\ handler[h].pc # "idle" => handler[h].conv \in Conversations
  BY DEF TypeInv, TypeOK, InHand
<1>1. ASSUME NEW v \in Visitors, NEW c \in Conversations, NEW attack \in BOOLEAN,
             Enter(h, v, c, attack)
      PROVE  TypeInv'
  BY <1>1, EnterType
<1>2. CASE CheckCache(h)
  <2>1. HandlerMoved(h) /\ handler[h].pc # "idle"
    BY <1>0, <1>2, GotoMoves, RespondMoves DEF CheckCache
  <2> QED BY <1>0, <1>2, <2>1, TypeAfterQuietMove DEF CheckCache
<1>3. CASE CheckRows(h)
  <2>1. HandlerMoved(h) /\ handler[h].pc # "idle"
    BY <1>0, <1>3, GotoMoves, RespondMoves DEF CheckRows
  <2> QED BY <1>0, <1>3, <2>1, TypeAfterQuietMove DEF CheckRows
<1>4. CASE CheckFails(h)
  <2>1. HandlerMoved(h) /\ handler[h].pc # "idle"
    BY <1>0, <1>4, GotoMoves, RespondMoves DEF CheckFails
  <2> QED BY <1>0, <1>4, <2>1, TypeAfterQuietMove DEF CheckFails, Operation
<1>5. CASE Attempt(h)
  <2>1. handler[h].pc # "idle"
    BY <1>5 DEF Attempt
  <2> DEFINE c == handler[h].conv
             n == handler[h].attempts + 1
             over == n >= Threshold
  <2>2. /\ c \in Conversations /\ row[c] \in Row /\ n \in Nat /\ over \in BOOLEAN
        /\ row' = [row EXCEPT ![c] = Tried(row[c], n, over)] /\ Judge(h, over)
    BY <1>5, <2>1, AttemptSets
  <2>3. Exists(c)
    BY <2>1 DEF TypeInv, InHand
  <2>4. /\ row' \in [Conversations -> Row \cup {NoRow}]
        /\ \A d \in Conversations : Exists(d) => row'[d] # NoRow /\ row'[d].visitor = row[d].visitor
    <3> HIDE DEF n, over
    <3>1. Tried(row[c], n, over) \in Row /\ Tried(row[c], n, over).visitor = row[c].visitor
      BY <2>2, TriedRow
    <3> QED BY <2>2, <2>3, <3>1, RowSet
  <2>5. HandlerMoved(h) /\ tried' = [tried EXCEPT ![c] = tried[c] + 1]
    <3> HIDE DEF n, over
    <3> QED BY <2>1, <2>2, JudgeMoves
  <2>6. tried' \in [Conversations -> Nat]
    BY <1>0, <2>2, <2>5, Bump
  <2> QED BY <1>0, <1>5, <2>1, <2>4, <2>5, <2>6, TypeAfterMove DEF Attempt
<1>6. CASE AttemptFails(h)
  <2>1. HandlerMoved(h) /\ handler[h].pc # "idle"
    BY <1>0, <1>6, RespondMoves DEF AttemptFails
  <2>2. tried' \in [Conversations -> Nat]
    BY <1>0, <1>6, <2>1, Bump DEF AttemptFails
  <2> QED BY <1>0, <1>6, <2>1, <2>2, TypeAfterQuietMove DEF AttemptFails, Operation
<1>7. CASE Stick(h)
  <2>1. HandlerMoved(h) /\ handler[h].pc # "idle"
    BY <1>0, <1>7, GotoMoves DEF Stick
  <2>2. sticky' \subseteq Visitors
    BY <1>0, <1>7, <2>1 DEF Stick, TypeInv, InHand
  <2> QED BY <1>0, <1>7, <2>1, <2>2, TypeAfterQuietMove DEF Stick
<1>8. CASE Insert(h)
  <2>1. HandlerMoved(h) /\ handler[h].pc # "idle"
    BY <1>0, <1>8, GotoMoves DEF Insert
  <2>2. messages' \in [Conversations -> Nat]
    BY <1>0, <1>8, <2>1, Bump DEF Insert
  <2> QED BY <1>0, <1>8, <2>1, <2>2, TypeAfterQuietMove DEF Insert
<1>9. CASE Count(h)
  <2>1. handler[h].pc # "idle"
    BY <1>9 DEF Count
  <2> DEFINE c == handler[h].conv
             rec == [row[c] EXCEPT !.count = handler[h].count + 1]
  <2>2. /\ c \in Conversations /\ row' = [row EXCEPT ![c] = rec]
        /\ rec \in Row /\ rec.visitor = row[c].visitor
    BY <1>9, <2>1, CountSets
  <2>3. Exists(c)
    BY <2>1 DEF TypeInv, InHand
  <2> HIDE DEF rec
  <2>4. /\ row' \in [Conversations -> Row \cup {NoRow}]
        /\ \A d \in Conversations : Exists(d) => row'[d] # NoRow /\ row'[d].visitor = row[d].visitor
    BY <2>2, <2>3, RowSet
  <2>5. HandlerMoved(h) /\ barred' \subseteq barred
    BY <1>9, <2>1, CountMoves
  <2> QED BY <1>0, <1>9, <2>1, <2>4, <2>5, TypeAfterMove DEF Count
<1>10. CASE Answered(h)
  <2>1. HandlerMoved(h) /\ handler[h].pc # "idle"
    BY <1>0, <1>10, GotoMoves DEF Answered
  <2> QED BY <1>0, <1>10, <2>1, TypeAfterQuietMove DEF Answered
<1>11. CASE Abort(h)
  <2>1. HandlerMoved(h) /\ handler[h].pc # "idle" /\ barred' \subseteq barred
    BY <1>0, <1>11, LeaveMoves DEF Abort
  <2> QED BY <1>0, <1>11, <2>1, TypeAfterQuietMove DEF Abort, Operation
<1>12. CASE GuardFails(h)
  <2>1. HandlerMoved(h) /\ handler[h].pc # "idle"
    BY <1>12, GuardFailsMoves DEF TypeInv
  <2> QED BY <1>0, <1>12, <2>1, TypeAfterQuietMove DEF GuardFails, Operation
<1> QED BY <1>1, <1>2, <1>3, <1>4, <1>5, <1>6, <1>7, <1>8, <1>9, <1>10, <1>11, <1>12
    DEF HandlerStep

LEMMA ClearedRow ==
    ASSUME NEW r \in Row
    PROVE  /\ Cleared(r) \in Row
           /\ Cleared(r).visitor = r.visitor /\ Cleared(r).count = r.count
           /\ Cleared(r).attempts = 0 /\ ~Cleared(r).blocked
BY DEF Cleared, Row

LEMMA OperatorType ==
    ASSUME TypeInv, NEW o \in Operators, OperatorStep(o)
    PROVE  TypeInv'
<1> USE DEF database, history, bounds
<1>0. /\ TypeOK
      /\ operator[o] \in Desk /\ requests \in Nat /\ ops \in Nat /\ barred \subseteq Handlers
      /\ \A c \in BlockedRows : c \in Conversations /\ row[c] \in Row
      /\ \A c \in Conversations : Exists(c) => row[c] \in Row /\ row[c].visitor \in Visitors
  BY DEF TypeInv, TypeOK, BlockedRows, Exists, Row
<1>1. ASSUME NEW c \in Conversations, NEW own \in Visitors \cup {Nobody}, Unblock(o, c, own)
      PROVE  TypeInv'
  <2> DEFINE rec == [operator[o] EXCEPT !.pc = "clear", !.keys = {row[c].visitor, own} \ {Nobody}]
  <2>1. Exists(c) /\ row' = [row EXCEPT ![c] = Cleared(row[c])]
    BY <1>1 DEF Unblock
  <2>2. /\ row' \in [Conversations -> Row \cup {NoRow}]
        /\ \A d \in Conversations : Exists(d) => row'[d] # NoRow /\ row'[d].visitor = row[d].visitor
    BY <1>0, <2>1, ClearedRow, RowSet
  <2>3. rec \in Desk /\ rec.pc = "clear"
    BY <1>0, <2>1 DEF Desk
  <2>4. operator' = [operator EXCEPT ![o] = rec]
    BY <1>1 DEF Unblock, TypeInv, TypeOK
  <2>5. /\ operator' \in [Operators -> Desk]
        /\ \A p \in Operators : operator'[p].pc = "form" => operator'[p] = operator[p]
    BY <1>0, <2>3, <2>4 DEF TypeOK
  <2>6. TypeOK'
    BY <1>0, <1>1, <2>2, <2>5 DEF Unblock, Operation, Excuse, TypeOK
  <2>7. InHand'
    BY <1>1, <2>2, <2>5, InHandKept DEF Unblock, TypeInv
  <2> QED BY <2>6, <2>7 DEF TypeInv
<1>2. ASSUME NEW c \in Conversations, AdminLoad(o, c)
      PROVE  TypeInv'
  <2> DEFINE rec == [operator[o] EXCEPT !.pc = "form", !.conv = c, !.copy = row[c]]
  <2>1. rec \in Desk /\ rec.conv = c /\ rec.copy = row[c] /\ rec.pc = "form"
    BY <1>0, <1>2 DEF Desk, AdminLoad
  <2>2. operator' = [operator EXCEPT ![o] = rec]
    BY <1>2 DEF AdminLoad, TypeInv, TypeOK
  <2>3. /\ operator' \in [Operators -> Desk] /\ operator'[o] = rec
        /\ \A p \in Operators \ {o} : operator'[p] = operator[p]
    BY <1>0, <2>1, <2>2 DEF TypeOK
  <2>4. TypeOK'
    BY <1>0, <1>2, <2>3 DEF AdminLoad, Operation, TypeOK
  <2>5. InHand'
    BY <1>0, <1>2, <2>1, <2>3 DEF AdminLoad, TypeInv, InHand, Exists
  <2> QED BY <2>4, <2>5 DEF TypeInv
<1>3. CASE UnblockAll(o)
  <2> DEFINE keys == {row[c].visitor : c \in BlockedRows}
             rec == [operator[o] EXCEPT !.pc = "update", !.keys = keys]
  <2>0. keys \subseteq Visitors
    BY <1>0 DEF Row
  <2>2. /\ operator' = [operator EXCEPT ![o] = rec]
        /\ UNCHANGED <<row, messages, sticky, handler, tried, barred, requests>>
        /\ ops' = ops + 1
    BY <1>3 DEF UnblockAll, Operation, TypeInv, TypeOK
  <2> HIDE DEF keys
  <2>1. rec \in Desk /\ rec.pc = "update"
    BY <1>0, <2>0 DEF Desk
  <2> HIDE DEF rec
  <2>3. /\ operator' \in [Operators -> Desk]
        /\ \A p \in Operators : operator'[p].pc = "form" => operator'[p] = operator[p]
    BY <1>0, <2>1, <2>2 DEF TypeOK
  <2>4. TypeOK'
    BY <1>0, <2>2, <2>3 DEF TypeOK
  <2>5. InHand'
    BY <2>2, <2>3, InHandKept DEF TypeInv, Exists
  <2> QED BY <2>4, <2>5 DEF TypeInv
<1>4. CASE UpdateAll(o)
  <2>1. /\ row' \in [Conversations -> Row \cup {NoRow}]
        /\ \A d \in Conversations : Exists(d) => row'[d] # NoRow /\ row'[d].visitor = row[d].visitor
    <3>1. \A c \in Conversations :
              row'[c] = IF c \in BlockedRows THEN Cleared(row[c]) ELSE row[c]
      BY <1>4 DEF UpdateAll
    <3>2. \A c \in BlockedRows : Cleared(row[c]) \in Row /\ Cleared(row[c]).visitor = row[c].visitor
      BY <1>0, ClearedRow
    <3>3. \A r \in Row : r # NoRow
      BY ChatAssumption DEF Row
    <3>4. row' \in [Conversations -> Row \cup {NoRow}]
      <4>1. \A c \in Conversations : row[c] \in Row \cup {NoRow}
        BY <1>0 DEF TypeOK
      <4>2. row' = [c \in Conversations |-> IF c \in BlockedRows THEN Cleared(row[c]) ELSE row[c]]
        BY <1>4 DEF UpdateAll
      <4> QED BY <4>1, <4>2, <3>2
    <3> QED BY <3>1, <3>2, <3>3, <3>4 DEF Exists
  <2>2. /\ operator' \in [Operators -> Desk]
        /\ \A p \in Operators : operator'[p].pc = "form" => operator'[p] = operator[p]
    <3> DEFINE rec == [operator[o] EXCEPT !.pc = "clear"]
    <3>1. rec \in Desk /\ rec.pc = "clear"
      BY <1>0 DEF Desk
    <3>2. operator' = [operator EXCEPT ![o] = rec]
      BY <1>4 DEF UpdateAll
    <3> HIDE DEF rec
    <3> QED BY <1>0, <3>1, <3>2 DEF TypeOK
  <2>3. TypeOK'
    BY <1>0, <1>4, <2>1, <2>2 DEF UpdateAll, Excuse, TypeOK
  <2>4. InHand'
    BY <1>4, <2>1, <2>2, InHandKept DEF UpdateAll, TypeInv
  <2> QED BY <2>3, <2>4 DEF TypeInv
<1>5. CASE ClearKeys(o)
  <2>1. AtDesk \in Desk
    BY DEF AtDesk, Desk
  <2>2. /\ operator' \in [Operators -> Desk]
        /\ \A p \in Operators : operator'[p].pc = "form" => operator'[p] = operator[p]
    BY <1>0, <1>5, <2>1 DEF ClearKeys, TypeOK, AtDesk
  <2>3. TypeOK'
    BY <1>0, <1>5, <2>2 DEF ClearKeys, Excuse, TypeOK
  <2>4. InHand'
    BY <1>5, <2>2, InHandKept DEF ClearKeys, TypeInv, Exists
  <2> QED BY <2>3, <2>4 DEF TypeInv
<1>6. CASE AdminSave(o)
  <2>1. /\ operator[o].conv \in Conversations /\ Exists(operator[o].conv)
        /\ operator[o].copy \in Row /\ operator[o].copy.visitor = row[operator[o].conv].visitor
        /\ row' = [row EXCEPT ![operator[o].conv] = operator[o].copy]
    BY <1>6 DEF AdminSave, TypeInv, InHand
  <2>2. /\ row' \in [Conversations -> Row \cup {NoRow}]
        /\ \A d \in Conversations : Exists(d) => row'[d] # NoRow /\ row'[d].visitor = row[d].visitor
    BY <2>1, RowSet
  <2>3. AtDesk \in Desk
    BY DEF AtDesk, Desk
  <2>4. /\ operator' \in [Operators -> Desk]
        /\ \A p \in Operators : operator'[p].pc = "form" => operator'[p] = operator[p]
    BY <1>0, <1>6, <2>3 DEF AdminSave, TypeOK, AtDesk
  <2>5. TypeOK'
    BY <1>0, <1>6, <2>2, <2>4 DEF AdminSave, Excuse, TypeOK
  <2>6. InHand'
    BY <1>6, <2>2, <2>4, InHandKept DEF AdminSave, TypeInv
  <2> QED BY <2>5, <2>6 DEF TypeInv
<1> QED BY <1>1, <1>2, <1>3, <1>4, <1>5, <1>6 DEF OperatorStep

LEMMA TypeStep == TypeInv /\ [Next]_vars => TypeInv'
<1> SUFFICES ASSUME TypeInv, [Next]_vars PROVE TypeInv'
  OBVIOUS
<1>1. ASSUME NEW v \in Visitors, CacheLost(v) PROVE TypeInv'
  BY <1>1 DEF CacheLost, Operation, TypeInv, TypeOK, InHand, Exists, database
<1>2. CASE UNCHANGED vars
  BY <1>2 DEF vars, database, history, bounds, TypeInv, TypeOK, InHand, Exists
<1> QED BY <1>1, <1>2, HandlerType, OperatorType DEF Next

LEMMA TypeInvariant == Spec => []TypeInv
BY TypeInit, TypeStep, PTL DEF Spec

\* Every variable has its type, for any number of overlapping requests.
THEOREM ChatTypeCorrect == Spec => []TypeOK
<1>1. TypeInv => TypeOK
  BY DEF TypeInv
<1> QED BY <1>1, TypeInvariant, PTL

-----------------------------------------------------------------------------

\* No row, no copy a request has of it and no form carries more attempts than
\* were made in its conversation, or a block that is not due.
Due(c, r) ==
    /\ r.attempts <= tried[c]
    /\ r.blocked => tried[c] >= Threshold

AttemptInv ==
    /\ \A c \in Conversations : Exists(c) => Due(c, row[c])
    /\ \A h \in Handlers : handler[h].pc # "idle" =>
            handler[h].attempts <= tried[handler[h].conv]
    /\ \A o \in Operators : operator[o].pc = "form" => Due(operator[o].conv, operator[o].copy)

LEMMA AttemptInit == Init => AttemptInv
BY DEF Init, AttemptInv, Exists, NoRequest, AtDesk

\* Attempts are only ever added, so what was due stays due.
LEMMA DueStays ==
    ASSUME TypeInv, NEW c \in Conversations, NEW r \in Row, Due(c, r),
           tried' \in [Conversations -> Nat], tried[c] <= tried'[c]
    PROVE  r.attempts <= tried'[c] /\ (r.blocked => tried'[c] >= Threshold)
BY ChatAssumption DEF TypeInv, TypeOK, Due, Row

LEMMA AttemptAfterMove ==
    ASSUME TypeInv, AttemptInv, NEW h \in Handlers, handler[h].pc # "idle", HandlerMoved(h),
           operator' = operator, tried' \in [Conversations -> Nat],
           \A c \in Conversations : tried[c] <= tried'[c],
           \A c \in Conversations : Exists(c)' =>
                \/ Due(c, row[c])'
                \/ Exists(c) /\ row'[c].attempts = row[c].attempts /\ row'[c].blocked = row[c].blocked
    PROVE  AttemptInv'
<1>1. ASSUME NEW c \in Conversations, Exists(c)' PROVE Due(c, row[c])'
  <2>1. CASE Exists(c) /\ row'[c].attempts = row[c].attempts /\ row'[c].blocked = row[c].blocked
    <3>1. row[c] \in Row /\ Due(c, row[c])
      BY <2>1 DEF TypeInv, TypeOK, AttemptInv, Exists
    <3>2. row[c].attempts <= tried'[c] /\ (row[c].blocked => tried'[c] >= Threshold)
      BY <3>1, DueStays
    <3> QED BY <2>1, <3>2 DEF Due
  <2> QED BY <1>1, <2>1
<1>2. ASSUME NEW g \in Handlers, handler'[g].pc # "idle"
      PROVE  handler'[g].attempts <= tried'[handler'[g].conv]
  <2>1. handler[g].pc # "idle" /\ handler'[g].conv = handler[g].conv
        /\ handler'[g].attempts \in {handler[g].attempts, 0}
    BY <1>2 DEF HandlerMoved
  <2>2. handler[g].conv \in Conversations /\ handler[g].attempts \in Nat
        /\ handler[g].attempts <= tried[handler[g].conv]
    BY <2>1 DEF TypeInv, TypeOK, InHand, Request, AttemptInv
  <2>3. tried[handler[g].conv] \in Nat /\ tried'[handler[g].conv] \in Nat
    BY <2>2 DEF TypeInv, TypeOK
  <2> QED BY <2>1, <2>2, <2>3
<1>3. ASSUME NEW o \in Operators, operator'[o].pc = "form"
      PROVE  Due(operator[o].conv, operator[o].copy)'
  <2>1. /\ operator[o].conv \in Conversations /\ operator[o].copy \in Row
        /\ Due(operator[o].conv, operator[o].copy)
    BY <1>3 DEF TypeInv, InHand, AttemptInv
  <2> QED BY <2>1, DueStays DEF Due
<1> QED BY <1>1, <1>2, <1>3 DEF AttemptInv

\* The same of a step that leaves the rows alone.
LEMMA AttemptAfterQuietMove ==
    ASSUME TypeInv, AttemptInv, NEW h \in Handlers, handler[h].pc # "idle", HandlerMoved(h),
           operator' = operator, row' = row, tried' \in [Conversations -> Nat],
           \A c \in Conversations : tried[c] <= tried'[c]
    PROVE  AttemptInv'
<1>1. \A c \in Conversations : Exists(c)' => Exists(c) /\ Due(c, row[c]) /\ row'[c] = row[c]
  BY DEF Exists, AttemptInv
<1> QED BY <1>1, AttemptAfterMove

\* The steps of a request after the first.
LaterStep(h) ==
    \/ CheckCache(h) \/ CheckRows(h) \/ CheckFails(h)
    \/ Attempt(h) \/ AttemptFails(h) \/ Stick(h)
    \/ Insert(h) \/ Count(h) \/ Answered(h) \/ Abort(h) \/ GuardFails(h)

\* How each of them moves the request and the history.
LEMMA HandlerMoves ==
    ASSUME TypeInv, NEW h \in Handlers, LaterStep(h)
    PROVE  /\ HandlerMoved(h) /\ handler[h].pc # "idle" /\ operator' = operator
           /\ tried' \in [Conversations -> Nat]
           /\ \A c \in Conversations : tried[c] <= tried'[c]
           /\ Attempt(h) \/ Count(h) \/ row' = row
<1> USE DEF database, history, bounds
<1>0. /\ TypeOK /\ tried \in [Conversations -> Nat]
      /\ handler[h].pc # "idle" => handler[h].conv \in Conversations
      /\ \A c \in Conversations : tried[c] \in Nat
  BY DEF TypeInv, TypeOK, InHand
<1>q. ASSUME tried' = tried PROVE \A c \in Conversations : tried[c] <= tried'[c]
  BY <1>0, <1>q
<1>1. CASE CheckCache(h) \/ CheckRows(h) \/ CheckFails(h)
  BY <1>0, <1>1, <1>q, GotoMoves, RespondMoves DEF CheckCache, CheckRows, CheckFails
<1>2. CASE Attempt(h)
  <2>1. handler[h].pc # "idle"
    BY <1>2 DEF Attempt
  <2> DEFINE c == handler[h].conv
             n == handler[h].attempts + 1
             over == n >= Threshold
  <2>2. c \in Conversations /\ over \in BOOLEAN /\ Judge(h, over)
    BY <1>2, <2>1, AttemptSets
  <2> HIDE DEF n, over
  <2>3. HandlerMoved(h) /\ tried' = [tried EXCEPT ![c] = tried[c] + 1]
    BY <2>1, <2>2, JudgeMoves
  <2> QED BY <1>0, <1>2, <2>1, <2>2, <2>3, Bump DEF Attempt
<1>3. CASE AttemptFails(h)
  <2>1. HandlerMoved(h) /\ handler[h].pc # "idle"
    BY <1>0, <1>3, RespondMoves DEF AttemptFails
  <2> QED BY <1>0, <1>3, <2>1, Bump DEF AttemptFails
<1>4. CASE Stick(h) \/ Insert(h) \/ Answered(h)
  BY <1>0, <1>4, <1>q, GotoMoves DEF Stick, Insert, Answered
<1>5. CASE Count(h)
  <2>1. handler[h].pc # "idle"
    BY <1>5 DEF Count
  <2> QED BY <1>0, <1>5, <1>q, <2>1, CountMoves DEF Count
<1>6. CASE Abort(h)
  BY <1>0, <1>6, <1>q, LeaveMoves DEF Abort
<1>7. CASE GuardFails(h)
  BY <1>0, <1>7, <1>q, GuardFailsMoves DEF GuardFails
<1> QED BY <1>1, <1>2, <1>3, <1>4, <1>5, <1>6, <1>7 DEF LaterStep

LEMMA HandlerDue ==
    ASSUME TypeInv, AttemptInv, NEW h \in Handlers, HandlerStep(h)
    PROVE  AttemptInv'
<1>1. ASSUME NEW v \in Visitors, NEW c \in Conversations, NEW attack \in BOOLEAN,
             Enter(h, v, c, attack)
      PROVE  AttemptInv'
  <2> DEFINE copy == IF Exists(c) THEN row[c] ELSE NewRow(v)
  <2>1. copy \in Row /\ Due(c, copy)
    BY ChatAssumption DEF TypeInv, TypeOK, Exists, NewRow, Row, AttemptInv, Due
  <2>2. row' = [row EXCEPT ![c] = copy] /\ tried' = tried /\ operator' = operator
    BY <1>1 DEF Enter
  <2>3. /\ handler'[h].conv = c /\ handler'[h].attempts \in {0, copy.attempts}
        /\ \A g \in Handlers \ {h} : handler'[g] = handler[g]
    BY <1>1 DEF Enter, TypeInv, TypeOK
  <2> HIDE DEF copy
  <2>4. ASSUME NEW d \in Conversations, Exists(d)' PROVE Due(d, row[d])'
    BY <2>1, <2>2, <2>4 DEF AttemptInv, Due, Exists, TypeInv, TypeOK
  <2>5. \A g \in Handlers : handler'[g].pc # "idle" =>
            handler'[g].attempts <= tried'[handler'[g].conv]
    <3>1. tried[c] \in Nat /\ copy.attempts <= tried[c] /\ 0 <= tried[c]
      BY <2>1 DEF TypeInv, TypeOK, Due
    <3> QED BY <2>2, <2>3, <3>1 DEF AttemptInv
  <2>6. \A o \in Operators : operator'[o].pc = "form" =>
            Due(operator[o].conv, operator[o].copy)'
    BY <2>2 DEF AttemptInv, Due
  <2> QED BY <2>4, <2>5, <2>6 DEF AttemptInv
<1>2. CASE Attempt(h)
  <2>1. handler[h].pc # "idle"
    BY <1>2 DEF Attempt
  <2> DEFINE c == handler[h].conv
             n == handler[h].attempts + 1
             over == n >= Threshold
  <2>2. /\ c \in Conversations /\ row[c] \in Row /\ n \in Nat /\ over \in BOOLEAN
        /\ row' = [row EXCEPT ![c] = Tried(row[c], n, over)] /\ Judge(h, over)
    BY <1>2, <2>1, AttemptSets
  <2>3. handler[h].attempts <= tried[c] /\ handler[h].attempts \in Nat
    BY <2>1 DEF AttemptInv, TypeInv, TypeOK, Request
  <2>4. n <= tried[c] + 1 /\ (over => n >= Threshold)
    BY <2>2, <2>3 DEF TypeInv, TypeOK
  <2> HIDE DEF n, over
  <2>5. HandlerMoved(h) /\ tried' = [tried EXCEPT ![c] = tried[c] + 1] /\ operator' = operator
    BY <1>2, <2>1, <2>2, JudgeMoves DEF Attempt
  <2>6. /\ tried' \in [Conversations -> Nat] /\ tried'[c] = tried[c] + 1
        /\ \A d \in Conversations : tried[d] <= tried'[d]
    BY <2>2, <2>5, Bump DEF TypeInv, TypeOK
  <2>7. row'[c].attempts <= tried'[c] /\ (row'[c].blocked => tried'[c] >= Threshold)
    <3>1. row'[c] = Tried(row[c], n, over)
      BY <2>2 DEF TypeInv, TypeOK
    <3>4. row'[c].attempts = n
      BY <2>2, <3>1, TriedRow
    <3>5. ASSUME row'[c].blocked PROVE row[c].blocked \/ over
      BY <2>2, <3>1, <3>5, TriedRow
    <3>2. row[c].blocked => tried[c] >= Threshold
      BY <2>1 DEF AttemptInv, Due, TypeInv, InHand
    <3>3. tried[c] \in Nat /\ Threshold \in Nat
      BY <2>2, ChatAssumption DEF TypeInv, TypeOK
    <3>6. row'[c].attempts <= tried'[c]
      BY <2>4, <2>6, <3>4
    <3>7. ASSUME row'[c].blocked PROVE tried'[c] >= Threshold
      BY <2>2, <2>4, <2>6, <3>2, <3>3, <3>5, <3>7
    <3> QED BY <3>6, <3>7
  <2>8. \A d \in Conversations : d # c => row'[d] = row[d]
    BY <2>2 DEF TypeInv, TypeOK
  <2>9. \A d \in Conversations : Exists(d)' =>
            \/ Due(d, row[d])'
            \/ Exists(d) /\ row'[d].attempts = row[d].attempts /\ row'[d].blocked = row[d].blocked
    BY <2>7, <2>8 DEF Exists, Due
  <2> QED BY <2>1, <2>5, <2>6, <2>9, AttemptAfterMove
<1>3. CASE Count(h)
  <2>1. handler[h].pc # "idle" /\ tried' = tried /\ operator' = operator
    BY <1>3 DEF Count, bounds
  <2> DEFINE c == handler[h].conv
             rec == [row[c] EXCEPT !.count = handler[h].count + 1]
  <2>2. /\ c \in Conversations /\ row' = [row EXCEPT ![c] = rec]
        /\ rec.attempts = row[c].attempts /\ rec.blocked = row[c].blocked
    BY <1>3, <2>1, CountSets
  <2>3. Exists(c)
    BY <2>1 DEF TypeInv, InHand
  <2> HIDE DEF rec
  <2>4. \A d \in Conversations : Exists(d)' =>
            Exists(d) /\ row'[d].attempts = row[d].attempts /\ row'[d].blocked = row[d].blocked
    BY <2>2, <2>3 DEF Exists, TypeInv, TypeOK
  <2>5. /\ HandlerMoved(h) /\ tried' \in [Conversations -> Nat]
        /\ \A d \in Conversations : tried[d] <= tried'[d]
    BY <1>3, <2>1, CountMoves DEF TypeInv, TypeOK
  <2> QED BY <2>1, <2>4, <2>5, AttemptAfterMove
<1>4. CASE LaterStep(h) /\ ~Attempt(h) /\ ~Count(h)
  BY <1>4, HandlerMoves, AttemptAfterQuietMove
<1> QED BY <1>1, <1>2, <1>3, <1>4 DEF HandlerStep, LaterStep

LEMMA OperatorDue ==
    ASSUME TypeInv, AttemptInv, NEW o \in Operators, OperatorStep(o)
    PROVE  AttemptInv'
<1> USE DEF database, history, bounds
<1>0. /\ handler' = handler /\ tried' = tried
      /\ \A c \in Conversations : tried[c] \in Nat
      /\ \A g \in Handlers : handler'[g].pc # "idle" =>
            handler'[g].attempts <= tried'[handler'[g].conv]
  <2>1. handler' = handler /\ tried' = tried
    BY DEF OperatorStep, Unblock, AdminLoad, UnblockAll, UpdateAll, ClearKeys, AdminSave
  <2> QED BY <2>1 DEF AttemptInv, TypeInv, TypeOK
\* The row and the form of nobody but this operator change, to what is due.
<1>1. ASSUME \A c \in Conversations : Exists(c)' => Due(c, row'[c]),
             \A p \in Operators : operator'[p].pc = "form" =>
                 operator'[p] = operator[p] \/ Due(operator'[p].conv, operator'[p].copy)
      PROVE  AttemptInv'
  BY <1>0, <1>1 DEF AttemptInv, Due
<1>2. ASSUME NEW c \in Conversations, Exists(c) PROVE Due(c, Cleared(row[c])) /\ Due(c, row[c])
  <2>1. row[c] \in Row
    BY <1>2 DEF TypeInv, TypeOK, Exists
  <2>2. Due(c, row[c]) /\ tried[c] \in Nat
    BY <1>0, <1>2 DEF AttemptInv
  <2>3. Cleared(row[c]).attempts = 0 /\ ~Cleared(row[c]).blocked
    BY <2>1, ClearedRow
  <2>4. Due(c, Cleared(row[c]))
    BY <2>2, <2>3 DEF Due
  <2> QED BY <2>2, <2>4
<1>3. ASSUME NEW c \in Conversations, NEW own \in Visitors \cup {Nobody}, Unblock(o, c, own)
      PROVE  AttemptInv'
  <2>1. \A d \in Conversations : Exists(d)' => Due(d, row'[d])
    BY <1>2, <1>3 DEF Unblock, Exists, TypeInv, TypeOK
  <2>2. \A p \in Operators : operator'[p].pc = "form" => operator'[p] = operator[p]
    BY <1>3 DEF Unblock, TypeInv, TypeOK, Desk
  <2> QED BY <1>1, <2>1, <2>2
<1>4. ASSUME NEW c \in Conversations, AdminLoad(o, c)
      PROVE  AttemptInv'
  <2>1. Exists(c) /\ row' = row
    BY <1>4 DEF AdminLoad
  <2>2. operator'[o].conv = c /\ operator'[o].copy = row[c]
        /\ \A p \in Operators \ {o} : operator'[p] = operator[p]
    BY <1>4 DEF AdminLoad, TypeInv, TypeOK, Desk
  <2>3. \A d \in Conversations : Exists(d)' => Due(d, row'[d])
    BY <1>2, <2>1 DEF Exists
  <2> QED BY <1>1, <1>2, <2>1, <2>2, <2>3
<1>5. CASE UnblockAll(o)
  <2>1. row' = row /\ operator[o] = AtDesk
    BY <1>5 DEF UnblockAll
  <2>2. \A p \in Operators : operator'[p].pc = "form" => operator'[p] = operator[p]
    BY <1>5, <2>1 DEF UnblockAll, TypeInv, TypeOK, Desk
  <2> QED BY <1>1, <1>2, <2>1, <2>2 DEF Exists
<1>6. CASE UpdateAll(o)
  <2>1. \A d \in Conversations : Exists(d)' => Due(d, row'[d])
    BY <1>2, <1>6 DEF UpdateAll, Exists, BlockedRows
  <2>2. \A p \in Operators : operator'[p].pc = "form" => operator'[p] = operator[p]
    BY <1>6 DEF UpdateAll, TypeInv, TypeOK, Desk
  <2> QED BY <1>1, <2>1, <2>2
<1>7. CASE ClearKeys(o)
  <2>1. row' = row /\ \A p \in Operators : operator'[p].pc = "form" => operator'[p] = operator[p]
    BY <1>7 DEF ClearKeys, TypeInv, TypeOK, AtDesk
  <2> QED BY <1>1, <1>2, <2>1 DEF Exists
<1>8. CASE AdminSave(o)
  <2>1. /\ Due(operator[o].conv, operator[o].copy)
        /\ row' = [row EXCEPT ![operator[o].conv] = operator[o].copy]
    BY <1>8 DEF AdminSave, AttemptInv
  <2>2. \A d \in Conversations : Exists(d)' => Due(d, row'[d])
    BY <1>2, <2>1 DEF Exists, TypeInv, TypeOK
  <2>3. \A p \in Operators : operator'[p].pc = "form" => operator'[p] = operator[p]
    BY <1>8 DEF AdminSave, TypeInv, TypeOK, AtDesk
  <2> QED BY <1>1, <2>2, <2>3
<1> QED BY <1>3, <1>4, <1>5, <1>6, <1>7, <1>8 DEF OperatorStep

LEMMA AttemptStep == TypeInv /\ AttemptInv /\ [Next]_vars => AttemptInv'
<1> SUFFICES ASSUME TypeInv, AttemptInv, [Next]_vars PROVE AttemptInv'
  OBVIOUS
<1>1. ASSUME NEW v \in Visitors, CacheLost(v) PROVE AttemptInv'
  BY <1>1 DEF CacheLost, AttemptInv, Due, Exists, database
<1>2. CASE UNCHANGED vars
  BY <1>2 DEF vars, database, history, AttemptInv, Due, Exists
<1> QED BY <1>1, <1>2, HandlerDue, OperatorDue DEF Next

\* However requests, unblocking and stale forms overlap, no conversation is
\* blocked before the threshold of attempts was reached in it.
THEOREM BlockedWhenDue == Spec => []NeverBlockedEarly
<1>1. AttemptInv => NeverBlockedEarly
  BY DEF AttemptInv, Due, NeverBlockedEarly, BlockedRows
<1> QED BY <1>1, AttemptInit, AttemptStep, TypeInvariant, PTL DEF Spec

-----------------------------------------------------------------------------

\* The count a request has, with the message it has inserted and not counted.
Claimed(h) ==
    handler[h].count + IF handler[h].pc \in {"userCount", "assistantCount"} THEN 1 ELSE 0

\* No row, request or form claims more messages than the conversation has.
CountInv ==
    /\ \A c \in Conversations : Exists(c) => row[c].count <= messages[c]
    /\ \A h \in Handlers : handler[h].pc # "idle" => Claimed(h) <= messages[handler[h].conv]
    /\ \A o \in Operators : operator[o].pc = "form" =>
            operator[o].copy.count <= messages[operator[o].conv]

LEMMA CountInit == Init => CountInv
BY DEF Init, CountInv, Exists, NoRequest, AtDesk

\* Messages are only ever added; rows must be shown to be fine, and what the
\* request that moved claims.
LEMMA CountAfterMove ==
    ASSUME TypeInv, CountInv, NEW h \in Handlers, handler[h].pc # "idle", HandlerMoved(h),
           operator' = operator, messages' \in [Conversations -> Nat],
           \A c \in Conversations : messages[c] <= messages'[c],
           \A c \in Conversations : Exists(c)' => row'[c].count <= messages'[c],
           handler'[h].pc # "idle" => Claimed(h)' <= messages'[handler[h].conv]
    PROVE  CountInv'
<1>1. ASSUME NEW g \in Handlers, handler'[g].pc # "idle"
      PROVE  Claimed(g)' <= messages'[handler'[g].conv]
  <2>1. CASE g = h
    BY <1>1, <2>1 DEF HandlerMoved
  <2>2. CASE g # h
    <3>1. handler'[g] = handler[g] /\ Claimed(g)' = Claimed(g)
      BY <2>2 DEF HandlerMoved, Claimed
    <3>2. handler[g].conv \in Conversations /\ Claimed(g) <= messages[handler[g].conv]
      BY <1>1, <3>1 DEF CountInv, TypeInv, InHand
    <3>3. Claimed(g) \in Nat /\ messages[handler[g].conv] \in Nat /\ messages'[handler[g].conv] \in Nat
      BY <3>2 DEF Claimed, TypeInv, TypeOK, Request
    <3> QED BY <3>1, <3>2, <3>3
  <2> QED BY <2>1, <2>2
<1>2. ASSUME NEW o \in Operators, operator'[o].pc = "form"
      PROVE  operator'[o].copy.count <= messages'[operator'[o].conv]
  <2>1. /\ operator[o].conv \in Conversations /\ operator[o].copy.count \in Nat
        /\ operator[o].copy.count <= messages[operator[o].conv]
    BY <1>2 DEF CountInv, TypeInv, InHand, Row
  <2>2. messages[operator[o].conv] \in Nat /\ messages'[operator[o].conv] \in Nat
    BY <2>1 DEF TypeInv, TypeOK
  <2> QED BY <2>1, <2>2
<1> QED BY <1>1, <1>2 DEF CountInv

\* The same of a step that adds no message, nor a claim, and leaves the counts
\* of the rows alone.
LEMMA CountAfterQuietMove ==
    ASSUME TypeInv, CountInv, NEW h \in Handlers, handler[h].pc # "idle", HandlerMoved(h),
           operator' = operator, messages' = messages,
           \A c \in Conversations : Exists(c)' => Exists(c) /\ row'[c].count = row[c].count,
           handler'[h].pc # "idle" => Claimed(h)' = Claimed(h)
    PROVE  CountInv'
<1>1. \A c \in Conversations : messages[c] <= messages'[c]
  BY DEF TypeInv, TypeOK
<1>2. /\ \A c \in Conversations : Exists(c)' => row'[c].count <= messages'[c]
      /\ handler'[h].pc # "idle" => Claimed(h)' <= messages'[handler[h].conv]
  BY DEF CountInv
<1> QED BY <1>1, <1>2, CountAfterMove DEF TypeInv, TypeOK

LEMMA HandlerCounts ==
    ASSUME TypeInv, CountInv, NEW h \in Handlers, HandlerStep(h)
    PROVE  CountInv'
<1> USE DEF database, history, bounds
<1>0. /\ TypeOK
      /\ handler[h].count \in Nat
      /\ handler[h].pc # "idle" => handler[h].conv \in Conversations
  BY DEF TypeInv, TypeOK, InHand, Request
<1>1. ASSUME NEW v \in Visitors, NEW c \in Conversations, NEW attack \in BOOLEAN,
             Enter(h, v, c, attack)
      PROVE  CountInv'
  <2> DEFINE copy == IF Exists(c) THEN row[c] ELSE NewRow(v)
  <2>1. copy \in Row /\ copy.count <= messages[c] /\ messages[c] \in Nat
    BY ChatAssumption DEF TypeInv, TypeOK, Exists, NewRow, Row, CountInv
  <2>2. row' = [row EXCEPT ![c] = copy] /\ messages' = messages /\ operator' = operator
    BY <1>1 DEF Enter
  <2>3. /\ handler'[h].conv = c /\ handler'[h].count = copy.count
        /\ handler'[h].pc \in {"user", "cache"}
        /\ \A g \in Handlers \ {h} : handler'[g] = handler[g]
    BY <1>1 DEF Enter, TypeInv, TypeOK
  <2> HIDE DEF copy
  <2>4. \A d \in Conversations : Exists(d)' => row'[d].count <= messages'[d]
    BY <2>1, <2>2 DEF CountInv, Exists, TypeInv, TypeOK
  <2>5. Claimed(h)' <= messages'[handler'[h].conv]
    BY <2>1, <2>2, <2>3 DEF Claimed, Row
  <2>6. \A g \in Handlers : handler'[g].pc # "idle" => Claimed(g)' <= messages'[handler'[g].conv]
    BY <2>2, <2>3, <2>5 DEF Claimed, CountInv
  <2> QED BY <2>2, <2>4, <2>6 DEF CountInv
<1>2. CASE CheckCache(h) \/ CheckRows(h) \/ CheckFails(h) \/ Stick(h) \/ Answered(h)
           \/ AttemptFails(h)
  <2>1. /\ HandlerMoved(h) /\ handler[h].pc # "idle" /\ operator' = operator
        /\ row' = row /\ messages' = messages
    BY <1>2, HandlerMoves
       DEF LaterStep, CheckCache, CheckRows, CheckFails, Stick, Answered, AttemptFails
  <2>2. Claimed(h)' = Claimed(h)
    BY <1>0, <1>2, GotoMoves, RespondMoves
       DEF CheckCache, CheckRows, CheckFails, Stick, Answered, AttemptFails, Claimed
  <2> QED BY <2>1, <2>2, CountAfterQuietMove DEF Exists
<1>3. CASE Attempt(h)
  <2>1. handler[h].pc = "attempt" /\ operator' = operator /\ messages' = messages
    BY <1>3 DEF Attempt
  <2> DEFINE c == handler[h].conv
             n == handler[h].attempts + 1
             over == n >= Threshold
  <2>2. /\ c \in Conversations /\ row[c] \in Row /\ n \in Nat /\ over \in BOOLEAN
        /\ row' = [row EXCEPT ![c] = Tried(row[c], n, over)] /\ Judge(h, over)
    BY <1>3, <2>1, AttemptSets
  <2>3. Exists(c)
    BY <2>1 DEF TypeInv, InHand
  <2> HIDE DEF n, over
  <2>4. /\ HandlerMoved(h) /\ handler'[h].pc \in {"stick", "user"}
        /\ handler'[h].count = handler[h].count
    BY <2>1, <2>2, JudgeMoves
  <2>5. \A d \in Conversations : Exists(d)' => Exists(d) /\ row'[d].count = row[d].count
    BY <2>2, <2>3, TriedRow DEF Exists, TypeInv, TypeOK
  <2>6. Claimed(h)' = Claimed(h)
    BY <2>1, <2>4 DEF Claimed
  <2> QED BY <2>1, <2>4, <2>5, <2>6, CountAfterQuietMove
<1>4. CASE Insert(h)
  <2> DEFINE c == handler[h].conv
  <2>1. /\ handler[h].pc \in {"user", "assistant"} /\ row' = row /\ operator' = operator
        /\ messages' = [messages EXCEPT ![c] = messages[c] + 1]
    BY <1>4 DEF Insert
  <2>2. HandlerMoved(h) /\ handler'[h].count = handler[h].count
    BY <1>0, <1>4, GotoMoves DEF Insert
  <2>3. /\ c \in Conversations /\ messages[c] \in Nat
        /\ messages' \in [Conversations -> Nat] /\ messages'[c] = messages[c] + 1
        /\ \A d \in Conversations : messages[d] <= messages'[d]
    BY <1>0, <2>1, Bump DEF TypeOK
  <2>4. \A d \in Conversations : Exists(d)' => row'[d].count <= messages'[d]
    <3>1. \A d \in Conversations : messages[d] \in Nat /\ messages'[d] \in Nat
      BY <1>0, <2>3 DEF TypeOK
    <3>2. \A d \in Conversations : Exists(d) => row[d].count \in Nat
      BY <1>0 DEF TypeOK, Exists, Row
    <3> QED BY <2>1, <2>3, <3>1, <3>2 DEF CountInv, Exists
  <2>5. Claimed(h)' <= messages'[handler[h].conv]
    BY <1>0, <2>1, <2>2, <2>3 DEF Claimed, CountInv
  <2> QED BY <2>1, <2>2, <2>3, <2>4, <2>5, CountAfterMove
<1>5. CASE Count(h)
  <2>1. /\ handler[h].pc \in {"userCount", "assistantCount"}
        /\ operator' = operator /\ messages' = messages
    BY <1>5 DEF Count
  <2> DEFINE c == handler[h].conv
             rec == [row[c] EXCEPT !.count = handler[h].count + 1]
  <2>2. /\ c \in Conversations /\ row' = [row EXCEPT ![c] = rec]
        /\ rec.count = handler[h].count + 1
    BY <1>5, <2>1, CountSets
  <2> HIDE DEF rec
  <2>3. handler[h].count + 1 <= messages[c]
    BY <2>1 DEF CountInv, Claimed
  <2>4. \A d \in Conversations : Exists(d)' => row'[d].count <= messages'[d]
    BY <1>0, <2>1, <2>2, <2>3 DEF CountInv, Exists, TypeOK
  <2>5. /\ HandlerMoved(h)
        /\ handler'[h].pc # "idle" => /\ handler'[h].count = handler[h].count + 1
                                      /\ handler'[h].pc \in {"asking", "assistant"}
    BY <1>5, <2>1, CountMoves DEF NoRequest
  <2>6. handler'[h].pc # "idle" => Claimed(h)' <= messages'[handler[h].conv]
    BY <1>0, <2>1, <2>3, <2>5 DEF Claimed
  <2>7. /\ messages' \in [Conversations -> Nat]
        /\ \A d \in Conversations : messages[d] <= messages'[d]
    BY <1>0, <2>1 DEF TypeOK
  <2> QED BY <2>1, <2>4, <2>5, <2>6, <2>7, CountAfterMove
<1>6. CASE Abort(h)
  <2>1. /\ HandlerMoved(h) /\ handler[h].pc # "idle" /\ operator' = operator
        /\ row' = row /\ messages' = messages /\ handler'[h].pc = "idle"
    BY <1>0, <1>6, LeaveMoves DEF Abort, NoRequest
  <2> QED BY <2>1, CountAfterQuietMove DEF Exists
<1>7. CASE GuardFails(h)
  <2>1. /\ operator' = operator /\ row' = row /\ messages' = messages
    BY <1>7 DEF GuardFails
  <2>2. /\ HandlerMoved(h) /\ handler[h].pc # "idle" /\ handler'[h].pc = "user"
        /\ handler'[h].count = IF handler[h].pc \in {"userCount", "assistantCount"}
                               THEN handler[h].count + 1 ELSE handler[h].count
    BY <1>0, <1>7, GuardFailsMoves
  <2>3. Claimed(h)' = Claimed(h)
    BY <1>0, <2>2 DEF Claimed
  <2> QED BY <2>1, <2>2, <2>3, CountAfterQuietMove DEF Exists
<1> QED BY <1>1, <1>2, <1>3, <1>4, <1>5, <1>6, <1>7 DEF HandlerStep

\* Only AdminLoad fills in a form.
LEMMA FormsKept ==
    ASSUME TypeInv, NEW o \in Operators,
           UnblockAll(o) \/ UpdateAll(o) \/ ClearKeys(o) \/ AdminSave(o)
    PROVE  \A p \in Operators : operator'[p].pc = "form" => operator'[p] = operator[p]
BY DEF UnblockAll, UpdateAll, ClearKeys, AdminSave, TypeInv, TypeOK, AtDesk, Desk

LEMMA OperatorCounts ==
    ASSUME TypeInv, CountInv, NEW o \in Operators, OperatorStep(o)
    PROVE  CountInv'
<1> USE DEF database, history, bounds
<1>0. handler' = handler /\ messages' = messages
  BY DEF OperatorStep, Unblock, AdminLoad, UnblockAll, UpdateAll, ClearKeys, AdminSave
<1>1. ASSUME \A c \in Conversations : Exists(c)' => row'[c].count <= messages[c],
             \A p \in Operators : operator'[p].pc = "form" =>
                 \/ operator'[p] = operator[p]
                 \/ operator'[p].copy.count <= messages[operator'[p].conv]
      PROVE  CountInv'
  BY <1>0, <1>1 DEF CountInv, Claimed
<1>2. \A c \in Conversations : Exists(c) =>
          Cleared(row[c]).count <= messages[c] /\ row[c].count <= messages[c]
  BY ClearedRow DEF CountInv, Exists, TypeInv, TypeOK
<1>3. ASSUME NEW c \in Conversations, NEW own \in Visitors \cup {Nobody}, Unblock(o, c, own)
      PROVE  CountInv'
  <2>1. \A d \in Conversations : Exists(d)' => row'[d].count <= messages[d]
    BY <1>2, <1>3 DEF Unblock, Exists, TypeInv, TypeOK
  <2>2. \A p \in Operators : operator'[p].pc = "form" => operator'[p] = operator[p]
    BY <1>3 DEF Unblock, TypeInv, TypeOK, Desk
  <2> QED BY <1>1, <2>1, <2>2
<1>4. ASSUME NEW c \in Conversations, AdminLoad(o, c)
      PROVE  CountInv'
  <2>1. Exists(c) /\ row' = row
    BY <1>4 DEF AdminLoad
  <2>2. operator'[o].conv = c /\ operator'[o].copy = row[c]
        /\ \A p \in Operators \ {o} : operator'[p] = operator[p]
    BY <1>4 DEF AdminLoad, TypeInv, TypeOK, Desk
  <2>3. \A d \in Conversations : Exists(d)' => row'[d].count <= messages[d]
    BY <1>2, <2>1 DEF Exists
  <2> QED BY <1>1, <1>2, <2>1, <2>2, <2>3
<1>5. CASE UnblockAll(o) \/ ClearKeys(o)
  <2>1. row' = row
    BY <1>5 DEF UnblockAll, ClearKeys
  <2>2. \A p \in Operators : operator'[p].pc = "form" => operator'[p] = operator[p]
    BY <1>5, FormsKept
  <2> QED BY <1>1, <1>2, <2>1, <2>2 DEF Exists
<1>6. CASE UpdateAll(o)
  <2>1. \A d \in Conversations : Exists(d)' => row'[d].count <= messages[d]
    BY <1>2, <1>6 DEF UpdateAll, Exists, BlockedRows
  <2> QED BY <1>1, <1>6, <2>1, FormsKept
<1>7. CASE AdminSave(o)
  <2>1. /\ operator[o].copy.count <= messages[operator[o].conv]
        /\ row' = [row EXCEPT ![operator[o].conv] = operator[o].copy]
    BY <1>7 DEF AdminSave, CountInv
  <2>2. \A d \in Conversations : Exists(d)' => row'[d].count <= messages[d]
    BY <1>2, <2>1 DEF Exists, TypeInv, TypeOK
  <2> QED BY <1>1, <1>7, <2>2, FormsKept
<1> QED BY <1>3, <1>4, <1>5, <1>6, <1>7 DEF OperatorStep

LEMMA CountStep == TypeInv /\ CountInv /\ [Next]_vars => CountInv'
<1> SUFFICES ASSUME TypeInv, CountInv, [Next]_vars PROVE CountInv'
  OBVIOUS
<1>1. ASSUME NEW v \in Visitors, CacheLost(v) PROVE CountInv'
  BY <1>1 DEF CacheLost, CountInv, Claimed, Exists, database
<1>2. CASE UNCHANGED vars
  BY <1>2 DEF vars, database, CountInv, Claimed, Exists
<1> QED BY <1>1, <1>2, HandlerCounts, OperatorCounts DEF Next

\* Overlapping requests lose counts and never invent them.
THEOREM CountsNotInvented == Spec => []CountNeverAhead
<1>1. CountInv => CountNeverAhead
  BY DEF CountInv, CountNeverAhead
<1> QED BY <1>1, CountInit, CountStep, TypeInvariant, PTL DEF Spec

-----------------------------------------------------------------------------

\* A request leaves a blocked row blocked, and its visitor the same.
LEMMA HandlerKeepsBlocks ==
    ASSUME TypeInv, NEW h \in Handlers, HandlerStep(h), NEW c \in BlockedRows
    PROVE  /\ c \in Conversations /\ row'[c] # NoRow
           /\ row'[c].visitor = row[c].visitor /\ row'[c].blocked
<1>0. /\ c \in Conversations /\ row[c] \in Row /\ row[c] # NoRow /\ row[c].blocked
      /\ row \in [Conversations -> Row \cup {NoRow}]
      /\ \A r \in Row : r # NoRow
  BY ChatAssumption DEF BlockedRows, Exists, TypeInv, TypeOK, Row
<1>1. ASSUME NEW v \in Visitors, NEW d \in Conversations, NEW attack \in BOOLEAN,
             Enter(h, v, d, attack)
      PROVE  row'[c] = row[c]
  BY <1>0, <1>1 DEF Enter, Exists
<1>2. CASE Attempt(h)
  <2>1. handler[h].pc # "idle"
    BY <1>2 DEF Attempt
  <2> DEFINE d == handler[h].conv
             n == handler[h].attempts + 1
             over == n >= Threshold
  <2>2. /\ d \in Conversations /\ row[d] \in Row /\ n \in Nat /\ over \in BOOLEAN
        /\ row' = [row EXCEPT ![d] = Tried(row[d], n, over)]
    BY <1>2, <2>1, AttemptSets
  <2> HIDE DEF n, over
  <2>3. CASE c = d
    <3>1. row'[c] = Tried(row[c], n, over)
      BY <1>0, <2>2, <2>3
    <3>2. row'[c] \in Row /\ row'[c].visitor = row[c].visitor
      BY <1>0, <2>2, <3>1, TriedRow
    <3>3. row'[c].blocked
      BY <1>0, <2>2, <3>1, TriedRow
    <3> QED BY <1>0, <3>2, <3>3
  <2>4. CASE c # d
    BY <1>0, <2>2, <2>4
  <2> QED BY <2>3, <2>4
<1>3. CASE Count(h)
  <2>1. handler[h].pc # "idle"
    BY <1>3 DEF Count
  <2> DEFINE d == handler[h].conv
             rec == [row[d] EXCEPT !.count = handler[h].count + 1]
  <2>2. /\ d \in Conversations /\ row' = [row EXCEPT ![d] = rec]
        /\ rec \in Row /\ rec.visitor = row[d].visitor /\ rec.blocked = row[d].blocked
    BY <1>3, <2>1, CountSets
  <2> HIDE DEF rec
  <2> QED BY <1>0, <2>2
<1>4. CASE LaterStep(h) /\ ~Attempt(h) /\ ~Count(h)
  BY <1>0, <1>4, HandlerMoves
<1> QED BY <1>0, <1>1, <1>2, <1>3, <1>4 DEF HandlerStep, LaterStep

\* A visitor with a blocked conversation keeps it through a request's step.
LEMMA HandlerKeepsBarrier ==
    ASSUME TypeInv, NEW h \in Handlers, HandlerStep(h), NEW v, BlockedRowOf(v)
    PROVE  BlockedRowOf(v)'
<1>1. PICK c \in BlockedRows : row[c].visitor = v
  BY DEF BlockedRowOf
<1>2. /\ c \in Conversations /\ row'[c] # NoRow
      /\ row'[c].visitor = v /\ row'[c].blocked
  BY <1>1, HandlerKeepsBlocks
<1> QED BY <1>2 DEF BlockedRowOf, BlockedRows, Exists

\* A blocked conversation is unblocked by nobody but an operator, also when
\* requests save the copy they loaded before the block.
THEOREM UnblockedByOperators == Spec => OnlyOperatorsUnblock
<1> DEFINE Kept == \A c \in Conversations :
                        c \in BlockedRows /\ ~row'[c].blocked =>
                            \E o \in Operators : operator'[o] # operator[o]
<1>1. ASSUME TypeInv, [Next]_vars PROVE [Kept]_row
  <2>1. ASSUME NEW h \in Handlers, HandlerStep(h) PROVE Kept
    <3>1. ASSUME NEW c \in BlockedRows PROVE row'[c].blocked
      BY <1>1, <2>1, HandlerKeepsBlocks
    <3> QED BY <3>1
  <2>2. ASSUME NEW o \in Operators, OperatorStep(o) PROVE row' = row \/ operator'[o] # operator[o]
    <3>1. operator \in [Operators -> Desk]
      BY <1>1 DEF TypeInv, TypeOK
    <3>2. ASSUME NEW c \in Conversations, NEW own \in Visitors \cup {Nobody}, Unblock(o, c, own)
      PROVE  operator'[o] # operator[o]
      <4> DEFINE keys == {row[c].visitor, own} \ {Nobody}
      <4>1. operator[o].pc = "idle"
            /\ operator' = [operator EXCEPT ![o].pc = "clear", ![o].keys = keys]
        BY <3>2 DEF Unblock, AtDesk
      <4> HIDE DEF keys
      <4>2. operator'[o].pc = "clear"
        BY <3>1, <4>1 DEF Desk
      <4> QED BY <4>1, <4>2
    <3>3. CASE UpdateAll(o)
      BY <3>1, <3>3 DEF UpdateAll, Desk
    <3>4. CASE AdminSave(o)
      BY <3>1, <3>4 DEF AdminSave, AtDesk, Desk
    <3> QED BY <2>2, <3>2, <3>3, <3>4
            DEF OperatorStep, AdminLoad, UnblockAll, ClearKeys, database
  <2>3. ASSUME NEW v \in Visitors, CacheLost(v) PROVE row' = row
    BY <2>3 DEF CacheLost, database
  <2>4. CASE UNCHANGED vars
    BY <2>4 DEF vars, database
  <2> QED BY <1>1, <2>1, <2>2, <2>3, <2>4 DEF Next
<1>2. TypeInv /\ [Next]_vars => [Kept]_row
  BY <1>1
<1> QED BY <1>2, TypeInvariant, PTL DEF Spec, OnlyOperatorsUnblock

-----------------------------------------------------------------------------

\* A barred request either has the block still to find where the guard will
\* look for it next, or has been told that it is blocked.
Held(h) ==
    /\ handler[h].pc # "idle"
    /\ handler[h].pc = "cache" => handler[h].visitor \in sticky \/ BlockedRowOf(handler[h].visitor)
    /\ handler[h].pc = "rows" => BlockedRowOf(handler[h].visitor)
    /\ handler[h].pc \notin {"cache", "rows"} =>
        /\ handler[h].reply = "blocked"
        /\ handler[h].pc \in {"user", "userCount", "assistant", "assistantCount"}

BarredInv == \A h \in barred : Held(h)

LEMMA BarredInit == Init => BarredInv
BY DEF Init, BarredInv

\* A request's step as the requests of others see it.
LEMMA OthersHeld ==
    ASSUME TypeInv, BarredInv, NEW h \in Handlers, HandlerStep(h),
           sticky \subseteq sticky', barred' \subseteq barred \cup {h},
           \A g \in Handlers \ {h} : handler'[g] = handler[g],
           h \in barred' => Held(h)'
    PROVE  BarredInv'
<1>1. ASSUME NEW g \in barred', g # h PROVE Held(g)'
  <2>1. g \in barred /\ g \in Handlers
    BY <1>1 DEF TypeInv, TypeOK
  <2>2. Held(g) /\ handler'[g] = handler[g]
    BY <1>1, <2>1 DEF BarredInv
  <2>3. ASSUME NEW v, BlockedRowOf(v) PROVE BlockedRowOf(v)'
    BY <2>3, HandlerKeepsBarrier
  <2> QED BY <2>2, <2>3 DEF Held
<1> QED BY <1>1 DEF BarredInv

LEMMA HandlerHeld ==
    ASSUME TypeInv, BarredInv, NEW h \in Handlers, HandlerStep(h)
    PROVE  BarredInv'
<1> USE DEF database, history, bounds
<1>0. /\ TypeOK /\ handler \in [Handlers -> Request]
      /\ h \in barred => Held(h)
      /\ \A v : BlockedRowOf(v) => BlockedRowOf(v)'
  BY HandlerKeepsBarrier DEF TypeInv, TypeOK, BarredInv
<1>1. ASSUME NEW v \in Visitors, NEW c \in Conversations, NEW attack \in BOOLEAN,
             Enter(h, v, c, attack)
      PROVE  BarredInv'
  <2> DEFINE copy == IF Exists(c) THEN row[c] ELSE NewRow(v)
             rec == [pc |-> IF copy.blocked THEN "user" ELSE "cache", visitor |-> v, conv |-> c,
                     attempts |-> IF copy.blocked THEN 0 ELSE copy.attempts, count |-> copy.count,
                     attack |-> attack /\ ~copy.blocked,
                     reply |-> IF copy.blocked THEN "blocked" ELSE "none"]
  <2>1. /\ handler' = [handler EXCEPT ![h] = rec] /\ sticky' = sticky
        /\ handler[h].pc = "idle"
        /\ barred' = IF Barred(v, c) THEN barred \cup {h} ELSE barred
    BY <1>1 DEF Enter, NoRequest
  <2>2. h \notin barred
    BY <1>0, <2>1 DEF Held
  <2>3. c \in BlockedRows => copy.blocked
    BY DEF BlockedRows
  <2> HIDE DEF copy
  <2>4. /\ rec.visitor = v
        /\ copy.blocked => rec.pc = "user" /\ rec.reply = "blocked"
        /\ ~copy.blocked => rec.pc = "cache"
    BY Zenon
  <2> HIDE DEF rec
  <2>5. handler'[h] = rec
    BY <1>0, <2>1
  <2>6. ASSUME h \in barred' PROVE Held(h)'
    <3>1. c \in BlockedRows \/ v \in sticky \/ BlockedRowOf(v)
      BY <2>1, <2>2, <2>6 DEF Barred
    <3> QED BY <1>0, <2>1, <2>3, <2>4, <2>5, <3>1 DEF Held
  <2>7. /\ \A g \in Handlers \ {h} : handler'[g] = handler[g]
        /\ barred' \subseteq barred \cup {h}
    BY <1>0, <2>1
  <2> QED BY <2>1, <2>6, <2>7, OthersHeld
\* What the later steps leave alone, so that only the request itself is left.
<1>2. ASSUME LaterStep(h), h \in barred' => Held(h)' PROVE BarredInv'
  <2>1. \A g \in Handlers \ {h} : handler'[g] = handler[g]
    BY <1>2, HandlerMoves DEF HandlerMoved
  <2>2. sticky \subseteq sticky' /\ barred' \subseteq barred
    BY <1>2 DEF LaterStep, CheckCache, CheckRows, CheckFails, Attempt, AttemptFails, Stick,
                Insert, Count, Answered, Abort, GuardFails, Leave
  <2> QED BY <1>2, <2>1, <2>2, OthersHeld
<1>3. ASSUME CheckCache(h), h \in barred' PROVE Held(h)'
  <2>1. Held(h) /\ handler[h].pc = "cache"
    BY <1>0, <1>3 DEF CheckCache
  <2>2. handler'[h].visitor = handler[h].visitor
    BY <1>0, <1>3, GotoMoves, RespondMoves DEF CheckCache, HandlerMoved
  <2>3. CASE handler[h].visitor \in sticky
    <3>1. handler'[h].pc = "user" /\ handler'[h].reply = "blocked"
      BY <1>0, <1>3, <2>3, RespondMoves DEF CheckCache
    <3> QED BY <3>1 DEF Held
  <2>4. CASE handler[h].visitor \notin sticky
    <3>1. handler'[h].pc = "rows"
      BY <1>0, <1>3, <2>4, GotoMoves DEF CheckCache
    <3> QED BY <1>0, <2>1, <2>2, <2>4, <3>1 DEF Held
  <2> QED BY <2>3, <2>4
<1>4. ASSUME CheckRows(h), h \in barred' PROVE Held(h)'
  <2>1. Held(h) /\ handler[h].pc = "rows"
    BY <1>0, <1>4 DEF CheckRows
  <2>2. Respond(h, "blocked")
    BY <1>4, <2>1 DEF CheckRows, Held
  <2>3. handler'[h].pc = "user" /\ handler'[h].reply = "blocked"
    BY <1>0, <2>2, RespondMoves
  <2> QED BY <2>3 DEF Held
<1>5. ASSUME Insert(h), h \in barred' PROVE Held(h)'
  <2>1. Held(h) /\ handler[h].reply = "blocked"
    BY <1>0, <1>5 DEF Insert, Held
  <2>2. handler'[h].pc \in {"userCount", "assistantCount"} /\ handler'[h].reply = handler[h].reply
    BY <1>0, <1>5, GotoMoves DEF Insert
  <2> QED BY <2>1, <2>2 DEF Held
<1>6. ASSUME Count(h), h \in barred' PROVE Held(h)'
  <2>1. Held(h) /\ handler[h].reply = "blocked" /\ handler[h].pc # "idle"
    BY <1>0, <1>6 DEF Count, Held, Leave
  <2>2. handler'[h].pc = "assistant" /\ handler'[h].reply = handler[h].reply
    BY <1>6, <2>1, CountMoves
  <2> QED BY <2>1, <2>2 DEF Held
\* A barred request is in no other step.
<1>7. ASSUME Attempt(h) \/ AttemptFails(h) \/ Stick(h) \/ Answered(h) \/ GuardFails(h)
                \/ CheckFails(h) \/ Abort(h)
      PROVE  h \notin barred'
  <2>1. ASSUME h \in barred
        PROVE  ~(Attempt(h) \/ AttemptFails(h) \/ Stick(h) \/ Answered(h) \/ GuardFails(h))
    BY <1>0, <2>1 DEF Held, Attempt, AttemptFails, Stick, Answered, GuardFails
  <2>2. CASE CheckFails(h) \/ Abort(h)
    BY <2>2 DEF CheckFails, Abort, Leave
  <2>3. CASE Attempt(h) \/ AttemptFails(h) \/ Stick(h) \/ Answered(h) \/ GuardFails(h)
    BY <2>1, <2>3 DEF Attempt, AttemptFails, Stick, Answered, GuardFails
  <2> QED BY <1>7, <2>2, <2>3
<1> QED BY <1>1, <1>2, <1>3, <1>4, <1>5, <1>6, <1>7 DEF HandlerStep, LaterStep

\* What the panel and the admin do to the barrier of the requests they do not
\* excuse: no row and no key of another visitor is touched.
LEMMA OperatorHeld ==
    ASSUME TypeInv, BarredInv, NEW o \in Operators, OperatorStep(o)
    PROVE  BarredInv'
<1> USE DEF database, history, bounds
<1>0. /\ barred \subseteq Handlers
      /\ row \in [Conversations -> Row \cup {NoRow}]
      /\ \A r \in Row : r # NoRow
  BY ChatAssumption DEF TypeInv, TypeOK, Row
<1>1. ASSUME handler' = handler, barred' \subseteq barred,
             \A h \in barred' :
                 /\ handler[h].visitor \in sticky => handler[h].visitor \in sticky'
                 /\ BlockedRowOf(handler[h].visitor) =>
                       \E c \in BlockedRows :
                          /\ row[c].visitor = handler[h].visitor
                          /\ row'[c] = row[c]
      PROVE  BarredInv'
  <2>1. ASSUME NEW h \in barred' PROVE Held(h)'
    <3>1. Held(h) /\ handler'[h] = handler[h]
      BY <1>1, <2>1 DEF BarredInv
    <3>2. BlockedRowOf(handler[h].visitor) => BlockedRowOf(handler[h].visitor)'
      BY <1>1, <2>1 DEF BlockedRowOf, BlockedRows, Exists
    <3> QED BY <1>1, <3>1, <3>2 DEF Held
  <2> QED BY <2>1 DEF BarredInv
<1>2. ASSUME NEW v, BlockedRowOf(v)
      PROVE  \E c \in BlockedRows : row[c].visitor = v /\ row[c] = row[c]
  BY <1>2 DEF BlockedRowOf
<1>3. ASSUME NEW c \in Conversations, NEW own \in Visitors \cup {Nobody}, Unblock(o, c, own)
      PROVE  BarredInv'
  <2>1. /\ handler' = handler /\ sticky' = sticky /\ barred' \subseteq barred
        /\ \A h \in barred' : handler[h].visitor # row[c].visitor
        /\ \A d \in Conversations : d # c => row'[d] = row[d]
    BY <1>0, <1>3 DEF Unblock, Excuse
  <2>2. ASSUME NEW h \in barred', BlockedRowOf(handler[h].visitor)
        PROVE  \E d \in BlockedRows : row[d].visitor = handler[h].visitor /\ row'[d] = row[d]
    BY <2>1, <2>2 DEF BlockedRowOf, BlockedRows
  <2> QED BY <1>1, <2>1, <2>2
<1>4. ASSUME row' = row, handler' = handler, sticky' = sticky, barred' = barred
      PROVE  BarredInv'
  BY <1>1, <1>2, <1>4
<1>5. CASE UpdateAll(o)
  <2>1. /\ handler' = handler /\ sticky' = sticky /\ barred' \subseteq barred
        /\ \A h \in barred', d \in BlockedRows : handler[h].visitor # row[d].visitor
    BY <1>5 DEF UpdateAll, Excuse
  <2>2. \A h \in barred' : ~BlockedRowOf(handler[h].visitor)
    BY <2>1 DEF BlockedRowOf
  <2> QED BY <1>1, <2>1, <2>2
<1>6. CASE ClearKeys(o)
  <2>1. /\ handler' = handler /\ row' = row /\ barred' \subseteq barred
        /\ \A h \in barred' : handler[h].visitor \notin operator[o].keys
        /\ sticky' = sticky \ operator[o].keys
    BY <1>6 DEF ClearKeys, Excuse
  <2> QED BY <1>1, <1>2, <2>1
<1>7. CASE AdminSave(o)
  <2> DEFINE d == operator[o].conv
  <2>1. /\ handler' = handler /\ sticky' = sticky /\ barred' \subseteq barred
        /\ \A h \in barred' : handler[h].visitor # operator[o].copy.visitor
        /\ operator[o].copy.visitor = row[d].visitor
        /\ \A c \in Conversations : c # d => row'[c] = row[c]
    BY <1>0, <1>7 DEF AdminSave, Excuse, TypeInv, InHand
  <2> HIDE DEF d
  <2>2. ASSUME NEW h \in barred', BlockedRowOf(handler[h].visitor)
        PROVE  \E c \in BlockedRows : row[c].visitor = handler[h].visitor /\ row'[c] = row[c]
    BY <2>1, <2>2 DEF BlockedRowOf, BlockedRows
  <2> QED BY <1>1, <2>1, <2>2
<1>8. CASE UnblockAll(o) \/ \E c \in Conversations : AdminLoad(o, c)
  BY <1>4, <1>8 DEF UnblockAll, AdminLoad
<1> QED BY <1>3, <1>5, <1>6, <1>7, <1>8 DEF OperatorStep

LEMMA BarredStep == TypeInv /\ BarredInv /\ [Next]_vars => BarredInv'
<1> SUFFICES ASSUME TypeInv, BarredInv, [Next]_vars PROVE BarredInv'
  OBVIOUS
<1>1. ASSUME NEW v \in Visitors, CacheLost(v) PROVE BarredInv'
  <2>1. /\ row' = row /\ handler' = handler /\ sticky' = sticky \ {v}
        /\ barred' = {h \in barred :
                        handler[h].pc = "cache" /\ handler[h].visitor = v => BlockedRowOf(v)}
    BY <1>1 DEF CacheLost, database
  <2>2. ASSUME NEW w PROVE BlockedRowOf(w)' <=> BlockedRowOf(w)
    BY <2>1 DEF BlockedRowOf, BlockedRows, Exists
  <2> QED BY <2>1, <2>2 DEF BarredInv, Held
<1>2. CASE UNCHANGED vars
  BY <1>2 DEF vars, database, history, BarredInv, Held, BlockedRowOf, BlockedRows, Exists
<1> QED BY <1>1, <1>2, HandlerHeld, OperatorHeld DEF Next

\* A request that comes while its conversation or its visitor is blocked never
\* reaches the assistant, whatever other requests and the panel do meanwhile.
THEOREM BlockedNeverAnswered == Spec => []BlockedIsNotAnswered
<1>1. BarredInv => BlockedIsNotAnswered
  BY DEF BarredInv, Held, BlockedIsNotAnswered
<1> QED BY <1>1, BarredInit, BarredStep, TypeInvariant, PTL DEF Spec

=============================================================================

------------------------------ MODULE WidgetPanel ------------------------------
(***************************************************************************)
(* What the widget shows around the chat: src/static/widget/widget.js and  *)
(* its copies with another skin.  The panel opens and closes; the teaser,  *)
(* the unread badge and the flashing tab title call for attention while it *)
(* is closed; the contact form comes in a sheet over the panel, and inline *)
(* under an answer that offers a human.  Things fade out: they are closed  *)
(* at once and hidden by a timer later, and no timer is ever cancelled but *)
(* the teaser's first.                                                     *)
(*                                                                         *)
(* Callbacks run to completion, one action each.  The chat itself is in    *)
(* WidgetChat: here answers just arrive.  sessionStorage works; the        *)
(* preview of the admin panel and speech input are left out.               *)
(***************************************************************************)
EXTENDS Naturals

CONSTANTS
    Builds,       \* the files a page may load, widget.js and the skins
    MaxAnswers,   \* bound: answers on the screen
    MaxUnread     \* bound: messages not seen

ASSUME PanelConstantsOK == Builds # {} /\ MaxAnswers \in Nat /\ MaxUnread \in Nat

VARIABLES
    build,      \* the file the page loaded
    page,       \* away (no page), starting (initialize() is not over), ready
    isOpen,     \* this.isOpen
    teaser,     \* its timers and whether it is on the screen
    dismissed,  \* sessionStorage: asw_teaser_dismissed
    unread,     \* this._unread
    hidden,     \* document.hidden
    title,      \* the tab's title, and whether _titleTimer flips it
    sheet,      \* sheetOpen, whether it is on the screen, and its timers
    form,       \* the contact form of the sheet and the one under an answer
    offered,    \* this._handoffShown
    offers,     \* handoff offers on the screen
    answers,    \* answers on the screen that can be rated
    rated       \* those that have been

chat == <<offered, offers, answers, rated>>
vars == <<build, page, isOpen, teaser, dismissed, unread, hidden, title, sheet, form, chat>>

Forms  == {"sheet", "inline"}
Teasers == [timer : BOOLEAN, shown : BOOLEAN, hiding : BOOLEAN]
Sheets == [open : BOOLEAN, shown : BOOLEAN, hiding : BOOLEAN]
Titles == [flash : BOOLEAN, text : {"page", "new message"}]

NoTeaser == [timer |-> FALSE, shown |-> FALSE, hiding |-> FALSE]
NoSheet  == [open |-> FALSE, shown |-> FALSE, hiding |-> FALSE]
Calm     == [flash |-> FALSE, text |-> "page"]

Up == page # "away"

(***************************************************************************)
(* Loading and leaving a page.                                             *)
(***************************************************************************)

\* mount: a closed panel, everything else hidden.
Mounted ==
    /\ isOpen' = FALSE /\ teaser' = NoTeaser /\ unread' = 0 /\ title' = Calm
    /\ sheet' = NoSheet /\ form' = [f \in Forms |-> "none"]
    /\ offered' = FALSE /\ offers' = 0 /\ answers' = 0 /\ rated' = {}

Mount(b) ==
    /\ page = "away"
    /\ build' = b /\ page' = "starting"
    /\ Mounted
    /\ UNCHANGED <<dismissed, hidden>>

Leave ==
    /\ Up
    /\ page' = "away"
    /\ Mounted
    /\ dismissed' \in {dismissed, FALSE}
    /\ UNCHANGED <<build, hidden>>

\* Bot messages that are not streamed count as unread while the panel is closed.
_markUnread(n) ==
    IF isOpen \/ n = 0
    THEN UNCHANGED <<unread, title>>
    ELSE unread' = unread + n /\ title' = [title EXCEPT !.flash = @ \/ hidden]

\* Mistake: the ratings outlive the rows.
WipedRows == offers' = 0 /\ answers' = 0 /\ rated' = rated /\ form' = [form EXCEPT !["inline"] = "none"]

\* The message list is emptied, and with it what hangs on its rows.
Wiped == offers' = 0 /\ answers' = 0 /\ rated' = {} /\ form' = [form EXCEPT !["inline"] = "none"]

\* initialize() ends: a local history of n answers has replaced the rows, or
\* not, and the teaser is scheduled unless it was seen, or the screen is small.
Started ==
    /\ page = "starting" /\ page' = "ready"
    /\ \/ \E n \in 0 .. MaxUnread - unread :
            /\ _markUnread(n)
            /\ Wiped
       \/ UNCHANGED <<unread, title, offers, answers, rated, form>>
    /\ \/ ~isOpen /\ ~dismissed /\ teaser' = [teaser EXCEPT !.timer = TRUE]
       \/ UNCHANGED teaser
    /\ UNCHANGED <<build, isOpen, dismissed, hidden, sheet, offered>>

(***************************************************************************)
(* Panel, teaser and title.                                                *)
(***************************************************************************)

_stopTitleFlash == title' = IF title.flash THEN Calm ELSE title

\* Mistake: the teaser that has not come yet still comes.
HideTeaser == teaser' = [teaser EXCEPT !.hiding = TRUE] /\ dismissed' = TRUE

_dismissTeaser == teaser' = [teaser EXCEPT !.timer = FALSE, !.hiding = TRUE] /\ dismissed' = TRUE

\* open, from the round button or the teaser.
Open ==
    /\ Up /\ (~isOpen \/ teaser.shown)
    /\ isOpen' = TRUE /\ unread' = 0
    /\ _stopTitleFlash
    /\ _dismissTeaser
    /\ UNCHANGED <<build, page, hidden, sheet, form, chat>>

\* close, from the round button or the panel's own.  A sheet stays open.
Close ==
    /\ isOpen /\ isOpen' = FALSE
    /\ UNCHANGED <<build, page, teaser, dismissed, unread, hidden, title, sheet, form, chat>>

TeaserTimer ==
    /\ teaser.timer
    /\ teaser' = [teaser EXCEPT !.timer = FALSE, !.shown = @ \/ ~isOpen]
    /\ UNCHANGED <<build, page, isOpen, dismissed, unread, hidden, title, sheet, form, chat>>

\* One of the timers that hide the teaser: others may be left.
TeaserGone ==
    /\ teaser.hiding
    /\ \E more \in BOOLEAN : teaser' = [teaser EXCEPT !.shown = FALSE, !.hiding = more]
    /\ UNCHANGED <<build, page, isOpen, dismissed, unread, hidden, title, sheet, form, chat>>

TitleFlips ==
    /\ title.flash
    /\ title' = [title EXCEPT !.text = IF @ = "page" THEN "new message" ELSE "page"]
    /\ UNCHANGED <<build, page, isOpen, teaser, dismissed, unread, hidden, sheet, form, chat>>

TabHides ==
    /\ ~hidden /\ hidden' = TRUE
    /\ UNCHANGED <<build, page, isOpen, teaser, dismissed, unread, title, sheet, form, chat>>

(***************************************************************************)
(* The sheet and the contact forms.                                        *)
(***************************************************************************)

\* A new form each time, whatever the old one was doing.
openSheet ==
    /\ isOpen
    /\ sheet' = [sheet EXCEPT !.open = TRUE, !.shown = TRUE]
    /\ form' = [form EXCEPT !["sheet"] = "edit"]
    /\ UNCHANGED <<build, page, isOpen, teaser, dismissed, unread, hidden, title, chat>>

closeSheet ==
    /\ sheet.open
    /\ sheet' = [sheet EXCEPT !.open = FALSE, !.hiding = TRUE]
    /\ UNCHANGED <<build, page, isOpen, teaser, dismissed, unread, hidden, title, form, chat>>

\* One of the timers that hide the sheet, open again or not: others may be left.
SheetGone ==
    /\ sheet.hiding
    /\ \E more \in BOOLEAN : sheet' = [sheet EXCEPT !.shown = FALSE, !.hiding = more]
    /\ UNCHANGED <<build, page, isOpen, teaser, dismissed, unread, hidden, title, form, chat>>

\* A valid form is posted, once: its button is disabled.
Submit(f) ==
    /\ isOpen /\ form[f] = "edit" /\ (f = "sheet" => sheet.shown)
    /\ form' = [form EXCEPT ![f] = "sending"]
    /\ UNCHANGED <<build, page, isOpen, teaser, dismissed, unread, hidden, title, sheet, chat>>

\* Any reply without "ok": false is a success, an error page too.
Reply(f) ==
    /\ form[f] = "sending"
    /\ \E s \in {"done", "edit"} : form' = [form EXCEPT ![f] = s]
    /\ UNCHANGED <<build, page, isOpen, teaser, dismissed, unread, hidden, title, sheet, chat>>

(***************************************************************************)
(* Answers.                                                                *)
(***************************************************************************)

\* maybeShowHandoff: channels, and the form if leads are wanted, under the last
\* row; once.
maybeShowHandoff ==
    IF offered
    THEN UNCHANGED <<offered, offers, form>>
    ELSE /\ offered' = TRUE /\ offers' = offers + 1
         /\ \E f \in {"none", "edit"} : form' = [form EXCEPT !["inline"] = f]

\* The toolbar of an answer, and its offer of a human if it is a fallback or a
\* business rule asks for one.  A refusal has neither.
Answered ==
    \/ /\ answers < MaxAnswers /\ answers' = answers + 1
       /\ (maybeShowHandoff \/ UNCHANGED <<offered, offers, form>>)
    \/ UNCHANGED <<answers, offered, offers, form>>

\* handleAnswerResult, and an error row.
AnswerArrives ==
    /\ Up /\ (isOpen \/ unread < MaxUnread)
    /\ _markUnread(1)
    /\ Answered
    /\ UNCHANGED <<build, page, isOpen, teaser, dismissed, hidden, sheet, rated>>

\* handleAnswerResultFromEl, at the end of a streamed answer: not unread.
StreamedAnswer ==
    /\ Up
    /\ Answered
    /\ UNCHANGED <<build, page, isOpen, teaser, dismissed, unread, hidden, title, sheet, rated>>

handleFeedback ==
    /\ isOpen
    /\ \E a \in 1 .. answers \ rated : rated' = rated \cup {a}
    /\ UNCHANGED <<build, page, isOpen, teaser, dismissed, unread, hidden, title, sheet, form,
                   offered, offers, answers>>

(***************************************************************************)
(* The other clicks and keys that bindEvents handles.                      *)
(***************************************************************************)

TeaserClose ==
    /\ teaser.shown
    /\ _dismissTeaser
    /\ UNCHANGED <<build, page, isOpen, unread, hidden, title, sheet, form, chat>>

NewConversation ==
    /\ isOpen
    /\ Wiped /\ offered' = FALSE
    /\ UNCHANGED <<build, page, isOpen, teaser, dismissed, unread, hidden, title, sheet>>

\* The sheet first, whether or not the panel is open.
Escape == closeSheet \/ (~sheet.open /\ Close)

TabShows ==
    /\ hidden /\ hidden' = FALSE
    /\ _stopTitleFlash
    /\ UNCHANGED <<build, page, isOpen, teaser, dismissed, unread, sheet, form, chat>>

(***************************************************************************)
(* The steps of a page by the part of the class they are in.               *)
(***************************************************************************)

Attention == TeaserTimer \/ TeaserGone \/ TitleFlips
Toggling  == Open \/ Close
Sheet     == openSheet \/ closeSheet \/ SheetGone \/ \E f \in Forms : Submit(f) \/ Reply(f)
Answers   == AnswerArrives
Streamed  == StreamedAnswer
Rating    == handleFeedback
Clicks    == TeaserClose \/ NewConversation \/ Escape \/ TabShows

Panel == Started \/ Attention \/ Toggling \/ Sheet \/ Answers \/ Streamed \/ Rating \/ Clicks

Init ==
    /\ build \in Builds /\ page = "away"
    /\ isOpen = FALSE /\ teaser = NoTeaser /\ dismissed = FALSE /\ unread = 0
    /\ hidden = FALSE /\ title = Calm
    /\ sheet = NoSheet /\ form = [f \in Forms |-> "none"]
    /\ offered = FALSE /\ offers = 0 /\ answers = 0 /\ rated = {}

Next == (\E b \in Builds : Mount(b)) \/ Panel \/ Leave \/ TabHides

Spec == Init /\ [][Next]_vars

(***************************************************************************)
(* Properties.                                                             *)
(***************************************************************************)

\* Every variable has its type.
PanelTypeOK ==
    /\ build \in Builds
    /\ page \in {"away", "starting", "ready"}
    /\ isOpen \in BOOLEAN /\ dismissed \in BOOLEAN /\ hidden \in BOOLEAN
    /\ teaser \in Teasers /\ sheet \in Sheets /\ title \in Titles
    /\ unread \in 0 .. MaxUnread
    /\ form \in [Forms -> {"none", "edit", "sending", "done"}]
    /\ offered \in BOOLEAN /\ offers \in Nat
    /\ answers \in 0 .. MaxAnswers /\ rated \subseteq 1 .. answers

\* Nobody is called to an open panel, and the title flashes only in a tab that
\* is hidden, for a message that is unread; when it stops the page has its own
\* title back.
CallsOnlyAway ==
    /\ isOpen => unread = 0 /\ ~title.flash
    /\ title.flash => hidden /\ unread > 0
    /\ ~title.flash => title.text = "page"

\* Who has opened the panel or closed the teaser does not meet it again in this
\* session, on this page or the next; what is left of it is being hidden.
TeaserGoes ==
    /\ isOpen => dismissed
    /\ dismissed => ~teaser.timer /\ (teaser.shown => teaser.hiding)

\* A closed sheet that is still on the screen is being hidden.
SheetGoes == sheet.shown /\ ~sheet.open => sheet.hiding

\* A conversation has one offer of a human at most, and the inline form belongs
\* to it.
OneOffer ==
    /\ offers <= 1 /\ (offers = 1 => offered)
    /\ form["inline"] # "none" => offers = 1

\* However opening, closing, answers, page loads and the timers of what fades
\* out interleave, nothing that has been closed or seen stays or comes back.
NothingLingers == CallsOnlyAway /\ TeaserGoes /\ SheetGoes /\ OneOffer

=============================================================================

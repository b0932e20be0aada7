--------------------------- MODULE WidgetPanelProofs ---------------------------
(***************************************************************************)
(* What the widget shows around the chat, for any bounds and any builds.   *)
(* The four parts of NothingLingers are about different variables: each    *)
(* is inductive with the types of its own.                                 *)
(***************************************************************************)
EXTENDS PanelBuilds, TLAPS

\* The calls for attention, with the types of what they depend on.
Calls ==
    /\ isOpen \in BOOLEAN /\ hidden \in BOOLEAN
    /\ unread \in Nat /\ title \in Titles
    /\ CallsOnlyAway

\* Counting n unread messages, or none.
LEMMA SomeUnread ==
    ASSUME Calls, NEW n \in Nat, _markUnread(n), UNCHANGED <<isOpen, hidden>>
    PROVE  Calls'
<1>1. CASE isOpen \/ n = 0
  BY <1>1 DEF Calls, CallsOnlyAway, _markUnread
<1>2. CASE ~(isOpen \/ n = 0)
  <2>1. unread' = unread + n /\ title' = [title EXCEPT !.flash = @ \/ hidden]
    BY <1>2 DEF _markUnread
  <2>2. title' \in Titles /\ title'.text = title.text /\ (title'.flash <=> title.flash
     \/ hidden)
    BY <2>1 DEF Calls, Titles
  <2>3. unread' \in Nat /\ unread' > 0
    BY <1>2, <2>1 DEF Calls
  <2> QED BY <1>2, <2>2, <2>3 DEF Calls, CallsOnlyAway
<1> QED BY <1>1, <1>2

\* No step calls anybody to an open panel.
LEMMA CallsStep ==
    ASSUME Calls, [Next]_vars
    PROVE  Calls'
<1> DEFINE Same == UNCHANGED <<isOpen, hidden, unread, title>>
<1>1. ASSUME Same PROVE Calls'
  BY <1>1 DEF Calls, CallsOnlyAway
<1>2. ASSUME Started PROVE Calls'
  <2>1. CASE \E n \in 0 .. MaxUnread - unread : _markUnread(n)
    BY <1>2, <2>1, SomeUnread DEF Started
  <2>2. CASE UNCHANGED <<unread, title>>
    BY <1>2, <2>2 DEF Calls, CallsOnlyAway, Started
  <2> QED BY <1>2, <2>1, <2>2 DEF Started
<1>3. ASSUME Open PROVE Calls'
  BY <1>3 DEF Calls, CallsOnlyAway, Titles, Calm, Open, _stopTitleFlash
<1>4. ASSUME Close PROVE Calls'
  BY <1>4 DEF Calls, CallsOnlyAway, Close
<1>5. ASSUME TitleFlips PROVE Calls'
  BY <1>5 DEF Calls, CallsOnlyAway, Titles, TitleFlips
<1>6. ASSUME AnswerArrives PROVE Calls'
  BY <1>6, SomeUnread DEF AnswerArrives
<1>7. ASSUME TabShows PROVE Calls'
  BY <1>7 DEF Calls, CallsOnlyAway, Titles, Calm, TabShows, _stopTitleFlash
<1>8. ASSUME TabHides PROVE Calls'
  BY <1>8 DEF Calls, CallsOnlyAway, TabHides
<1>9. ASSUME NEW b \in Builds, Mount(b) PROVE Calls'
  BY <1>9 DEF Calls, CallsOnlyAway, Titles, Calm, Mount, Mounted
<1>10. ASSUME Leave PROVE Calls'
  BY <1>10 DEF Calls, CallsOnlyAway, Titles, Calm, Leave, Mounted
<1>11. ASSUME TeaserTimer \/ TeaserGone \/ openSheet \/ closeSheet \/ SheetGone \/
              (\E f \in Forms : Submit(f)) \/ (\E f \in Forms : Reply(f)) \/
              StreamedAnswer \/ handleFeedback \/ TeaserClose \/ NewConversation
      PROVE  Same
  BY <1>11 DEF chat, TeaserTimer, TeaserGone, openSheet, closeSheet, SheetGone,
     Submit, Reply, StreamedAnswer, Answered, maybeShowHandoff, handleFeedback,
     TeaserClose, _dismissTeaser, NewConversation, Wiped
<1>12. ASSUME UNCHANGED vars PROVE Same
  BY <1>12 DEF vars
<1> HIDE DEF Same
<1> QED
  BY <1>1, <1>2, <1>3, <1>4, <1>5, <1>6, <1>7, <1>8, <1>9, <1>10, <1>11, <1>12 DEF
     Next, Panel, Attention, Toggling, Sheet, Answers, Streamed, Rating, Clicks, Escape

\* The teaser, with the types of what it depends on.
Teasing ==
    /\ isOpen \in BOOLEAN /\ dismissed \in BOOLEAN /\ teaser \in Teasers
    /\ TeaserGoes

\* No step brings the teaser back.
LEMMA TeasingStep ==
    ASSUME Teasing, [Next]_vars
    PROVE  Teasing'
<1> DEFINE Same == UNCHANGED <<isOpen, dismissed, teaser>>
<1>1. ASSUME Same PROVE Teasing'
  BY <1>1 DEF Teasing, TeaserGoes
<1>2. ASSUME Started PROVE Teasing'
  BY <1>2 DEF Teasing, TeaserGoes, Teasers, Started
<1>3. ASSUME Open PROVE Teasing'
  BY <1>3 DEF Teasing, TeaserGoes, Teasers, Open, _dismissTeaser
<1>4. ASSUME Close PROVE Teasing'
  BY <1>4 DEF Teasing, TeaserGoes, Close
<1>5. ASSUME TeaserTimer PROVE Teasing'
  BY <1>5 DEF Teasing, TeaserGoes, Teasers, TeaserTimer
<1>6. ASSUME TeaserGone PROVE Teasing'
  BY <1>6 DEF Teasing, TeaserGoes, Teasers, TeaserGone
<1>7. ASSUME TeaserClose PROVE Teasing'
  BY <1>7 DEF Teasing, TeaserGoes, Teasers, TeaserClose, _dismissTeaser
<1>8. ASSUME NEW b \in Builds, Mount(b) PROVE Teasing'
  BY <1>8 DEF Teasing, TeaserGoes, Teasers, NoTeaser, Mount, Mounted
<1>9. ASSUME Leave PROVE Teasing'
  BY <1>9 DEF Teasing, TeaserGoes, Teasers, NoTeaser, Leave, Mounted
<1>10. ASSUME TitleFlips \/ openSheet \/ closeSheet \/ SheetGone \/
              (\E f \in Forms : Submit(f)) \/ (\E f \in Forms : Reply(f)) \/
              AnswerArrives \/ StreamedAnswer \/ handleFeedback \/ NewConversation \/
              TabShows \/ TabHides
      PROVE  Same
  BY <1>10 DEF chat, TitleFlips, openSheet, closeSheet, SheetGone, Submit, Reply,
     AnswerArrives, _markUnread, Answered, maybeShowHandoff, StreamedAnswer,
     handleFeedback, NewConversation, Wiped, TabShows, _stopTitleFlash, TabHides
<1>11. ASSUME UNCHANGED vars PROVE Same
  BY <1>11 DEF vars, chat
<1> HIDE DEF Same
<1> QED
  BY <1>1, <1>2, <1>3, <1>4, <1>5, <1>6, <1>7, <1>8, <1>9, <1>10, <1>11 DEF Next,
     Panel, Attention, Toggling, Sheet, Answers, Streamed, Rating, Clicks, Escape

\* The sheet, with its type.
Sheeted == sheet \in Sheets /\ SheetGoes

\* No step leaves a closed sheet on the screen for good.
LEMMA SheetedStep ==
    ASSUME Sheeted, [Next]_vars
    PROVE  Sheeted'
<1> DEFINE Same == UNCHANGED <<sheet>>
<1>1. ASSUME Same PROVE Sheeted'
  BY <1>1 DEF Sheeted, SheetGoes
<1>2. ASSUME openSheet PROVE Sheeted'
  BY <1>2 DEF Sheeted, SheetGoes, Sheets, openSheet
<1>3. ASSUME closeSheet PROVE Sheeted'
  BY <1>3 DEF Sheeted, SheetGoes, Sheets, closeSheet
<1>4. ASSUME SheetGone PROVE Sheeted'
  BY <1>4 DEF Sheeted, SheetGoes, Sheets, SheetGone
<1>5. ASSUME NEW b \in Builds, Mount(b) PROVE Sheeted'
  BY <1>5 DEF Sheeted, SheetGoes, Sheets, NoSheet, Mount, Mounted
<1>6. ASSUME Leave PROVE Sheeted'
  BY <1>6 DEF Sheeted, SheetGoes, Sheets, NoSheet, Leave, Mounted
<1>7. ASSUME Started \/ Open \/ Close \/ TeaserTimer \/ TeaserGone \/ TitleFlips \/
             (\E f \in Forms : Submit(f)) \/ (\E f \in Forms : Reply(f)) \/
             AnswerArrives \/ StreamedAnswer \/ handleFeedback \/ TeaserClose \/
             NewConversation \/ TabShows \/ TabHides
      PROVE  Same
  BY <1>7 DEF chat, Started, _markUnread, Wiped, Open, _stopTitleFlash,
     _dismissTeaser, Close, TeaserTimer, TeaserGone, TitleFlips, Submit, Reply,
     AnswerArrives, Answered, maybeShowHandoff, StreamedAnswer, handleFeedback,
     TeaserClose, NewConversation, TabShows, TabHides
<1>8. ASSUME UNCHANGED vars PROVE Same
  BY <1>8 DEF vars
<1> HIDE DEF Same
<1> QED
  BY <1>1, <1>2, <1>3, <1>4, <1>5, <1>6, <1>7, <1>8 DEF Next, Panel, Attention,
     Toggling, Sheet, Answers, Streamed, Rating, Clicks, Escape

\* What a form may be.
States == {"none", "edit", "sending", "done"}

\* The names and the states of the forms.
LEMMA FormNames == "sheet" \in Forms /\ "inline" \in Forms /\ "sheet" # "inline"
BY DEF Forms

LEMMA NoForm == [f \in Forms |-> "none"] \in [Forms -> States]
BY DEF States

\* What becomes of the forms when one of them changes.
LEMMA FormSet ==
    ASSUME NEW fs \in [Forms -> States], NEW f \in Forms, NEW s \in States
    PROVE  /\ [fs EXCEPT ![f] = s] \in [Forms -> States]
           /\ \A g \in Forms : [fs EXCEPT ![f] = s][g] = IF g = f THEN s ELSE fs[g]
OBVIOUS

\* The offer of a human, with the types of what it depends on.
Offering ==
    /\ offered \in BOOLEAN /\ offers \in Nat
    /\ form \in [Forms -> States]
    /\ OneOffer

\* A page is mounted without an offer.
LEMMA NoOffer ==
    ASSUME Mounted
    PROVE  Offering'
<1>1. form' \in [Forms -> States] /\ form'["inline"] = "none"
  BY NoForm, FormNames DEF Mounted
<1>2. offered' = FALSE /\ offers' = 0
  BY DEF Mounted
<1>3. OneOffer'
  BY <1>1, <1>2 DEF OneOffer
<1>4. offered' \in BOOLEAN /\ offers' \in Nat
  BY <1>2
<1> QED BY <1>1, <1>3, <1>4 DEF Offering

\* An offer that is made now, or was made before.
LEMMA NewOffer ==
    ASSUME Offering, maybeShowHandoff
    PROVE  Offering'
<1>1. CASE offered
  BY <1>1 DEF maybeShowHandoff, Offering, OneOffer
<1>2. CASE ~offered
  <2>1. offers = 0
    BY <1>2 DEF Offering, OneOffer
  <2>2. PICK s \in {"none", "edit"} : form' = [form EXCEPT !["inline"] = s]
    BY <1>2 DEF maybeShowHandoff
  <2>3. form' \in [Forms -> States]
    BY <2>2, FormNames, FormSet DEF Offering, States
  <2>4. offered' = TRUE /\ offers' = 1
    BY <1>2, <2>1 DEF maybeShowHandoff
  <2> QED BY <2>3, <2>4 DEF Offering, OneOffer
<1> QED BY <1>1, <1>2

\* No step offers a human twice.
LEMMA OfferingStep ==
    ASSUME Offering, [Next]_vars
    PROVE  Offering'
<1> DEFINE Same == UNCHANGED <<offered, offers, form>>
<1>1. ASSUME Same PROVE Offering'
  BY <1>1 DEF Offering, OneOffer
<1>2. ASSUME Started PROVE Offering'
  BY FormNames, NoForm, FormSet, <1>2 DEF Offering, OneOffer, Started, Wiped
<1>3. ASSUME openSheet PROVE Offering'
  BY FormNames, NoForm, FormSet, <1>3 DEF Offering, OneOffer, States, openSheet, chat
<1>4. ASSUME NEW f \in Forms, Submit(f) PROVE Offering'
  BY FormNames, NoForm, FormSet, <1>4 DEF Offering, OneOffer, States, Submit, chat
<1>5. ASSUME NEW f \in Forms, Reply(f) PROVE Offering'
  BY FormNames, NoForm, FormSet, <1>5 DEF Offering, OneOffer, States, Reply, chat
<1>6. ASSUME AnswerArrives PROVE Offering'
  <2>1. CASE maybeShowHandoff
    BY <2>1, NewOffer
  <2>2. CASE UNCHANGED <<offered, offers, form>>
    BY <2>2, <1>1
  <2> QED BY <1>6, <2>1, <2>2 DEF AnswerArrives, Answered
<1>7. ASSUME StreamedAnswer PROVE Offering'
  <2>1. CASE maybeShowHandoff
    BY <2>1, NewOffer
  <2>2. CASE UNCHANGED <<offered, offers, form>>
    BY <2>2, <1>1
  <2> QED BY <1>7, <2>1, <2>2 DEF StreamedAnswer, Answered
<1>8. ASSUME NewConversation PROVE Offering'
  <2>1. form' \in [Forms -> States] /\ form'["inline"] = "none"
    BY <1>8, FormNames, FormSet DEF NewConversation, Wiped, Offering, States
  <2>2. offered' = FALSE /\ offers' = 0
    BY <1>8 DEF NewConversation, Wiped
  <2>3. OneOffer'
    BY <2>1, <2>2 DEF OneOffer
  <2>4. offered' \in BOOLEAN /\ offers' \in Nat
    BY <2>2
  <2> QED BY <2>1, <2>3, <2>4 DEF Offering
<1>9. ASSUME NEW b \in Builds, Mount(b) PROVE Offering'
  BY <1>9, NoOffer DEF Mount
<1>10. ASSUME Leave PROVE Offering'
  BY <1>10, NoOffer DEF Leave
<1>11. ASSUME Open \/ Close \/ TeaserTimer \/ TeaserGone \/ TitleFlips \/ closeSheet \/
              SheetGone \/ handleFeedback \/ TeaserClose \/ TabShows \/ TabHides
      PROVE  Same
  BY <1>11 DEF chat, Open, _stopTitleFlash, _dismissTeaser, Close, TeaserTimer,
     TeaserGone, TitleFlips, closeSheet, SheetGone, handleFeedback, TeaserClose,
     TabShows, TabHides
<1>12. ASSUME UNCHANGED vars PROVE Same
  BY <1>12 DEF vars, chat
<1> HIDE DEF Same
<1> QED
  BY <1>1, <1>2, <1>3, <1>4, <1>5, <1>6, <1>7, <1>8, <1>9, <1>10, <1>11, <1>12 DEF
     Next, Panel, Attention, Toggling, Sheet, Answers, Streamed, Rating, Clicks, Escape

\* What is left of the types.
Counted ==
    /\ build \in Builds /\ page \in {"away", "starting", "ready"}
    /\ unread \in 0 .. MaxUnread
    /\ answers \in 0 .. MaxAnswers /\ rated \subseteq 1 .. answers

\* No step counts beyond its bound.
LEMMA CountedStep ==
    ASSUME Counted, [Next]_vars
    PROVE  Counted'
<1> DEFINE Same == UNCHANGED <<build, page, unread, answers, rated>>
<1>1. ASSUME Same PROVE Counted'
  BY <1>1 DEF Counted
<1>2. ASSUME Started PROVE Counted'
  BY PanelConstantsOK, <1>2 DEF Counted, Started, _markUnread, Wiped
<1>3. ASSUME Open PROVE Counted'
  BY PanelConstantsOK, <1>3 DEF Counted, Open, chat
<1>4. ASSUME AnswerArrives PROVE Counted'
  BY PanelConstantsOK, <1>4 DEF Counted, AnswerArrives, _markUnread, Answered
<1>5. ASSUME StreamedAnswer PROVE Counted'
  BY PanelConstantsOK, <1>5 DEF Counted, StreamedAnswer, Answered
<1>6. ASSUME handleFeedback PROVE Counted'
  BY PanelConstantsOK, <1>6 DEF Counted, handleFeedback
<1>7. ASSUME NewConversation PROVE Counted'
  BY PanelConstantsOK, <1>7 DEF Counted, NewConversation, Wiped
<1>8. ASSUME NEW b \in Builds, Mount(b) PROVE Counted'
  BY PanelConstantsOK, <1>8 DEF Counted, Mount, Mounted
<1>9. ASSUME Leave PROVE Counted'
  BY PanelConstantsOK, <1>9 DEF Counted, Leave, Mounted
<1>10. ASSUME Close \/ TeaserTimer \/ TeaserGone \/ TitleFlips \/ openSheet \/
              closeSheet \/ SheetGone \/ (\E f \in Forms : Submit(f)) \/
              (\E f \in Forms : Reply(f)) \/ TeaserClose \/ TabShows \/ TabHides
      PROVE  Same
  BY <1>10 DEF chat, Close, TeaserTimer, TeaserGone, TitleFlips, openSheet,
     closeSheet, SheetGone, Submit, Reply, TeaserClose, _dismissTeaser, TabShows,
     _stopTitleFlash, TabHides
<1>11. ASSUME UNCHANGED vars PROVE Same
  BY <1>11 DEF vars, chat
<1> HIDE DEF Same
<1> QED
  BY <1>1, <1>2, <1>3, <1>4, <1>5, <1>6, <1>7, <1>8, <1>9, <1>10, <1>11 DEF Next,
     Panel, Attention, Toggling, Sheet, Answers, Streamed, Rating, Clicks, Escape

(***************************************************************************)
(* The theorems.                                                           *)
(***************************************************************************)

PanelInv == Calls /\ Teasing /\ Sheeted /\ Offering /\ Counted

LEMMA PanelInit == Init => PanelInv
<1> SUFFICES ASSUME Init PROVE PanelInv
  OBVIOUS
<1>1. Calls
  BY DEF Init, Calls, CallsOnlyAway, Titles, Calm
<1>2. Teasing
  BY DEF Init, Teasing, TeaserGoes, Teasers, NoTeaser
<1>3. Sheeted
  BY DEF Init, Sheeted, SheetGoes, Sheets, NoSheet
<1>4. Offering
  <2>1. form \in [Forms -> States] /\ form["inline"] = "none"
    BY NoForm, FormNames DEF Init
  <2>2. offered = FALSE /\ offers = 0
    BY DEF Init
  <2>3. OneOffer
    BY <2>1, <2>2 DEF OneOffer
  <2>4. offered \in BOOLEAN /\ offers \in Nat
    BY <2>2
  <2> QED BY <2>1, <2>3, <2>4 DEF Offering
<1>5. Counted
  BY PanelConstantsOK DEF Init, Counted
<1> QED BY <1>1, <1>2, <1>3, <1>4, <1>5 DEF PanelInv

LEMMA PanelInvariant == Spec => []PanelInv
<1>1. PanelInv /\ [Next]_vars => PanelInv'
  BY CallsStep, TeasingStep, SheetedStep, OfferingStep, CountedStep DEF PanelInv
<1> QED BY <1>1, PanelInit, PTL DEF Spec

\* The variables of the panel have their types.
THEOREM PanelTypeCorrect == Spec => []PanelTypeOK
<1>1. PanelInv => PanelTypeOK
  BY DEF PanelInv, Calls, Teasing, Sheeted, Offering, Counted, States, PanelTypeOK
<1> QED BY <1>1, PanelInvariant, PTL

\* However clicks, answers, page loads and timers interleave: nobody is called
\* to an open panel, teaser and sheet go when they are closed, and a
\* conversation offers a human once.
THEOREM NothingStays == Spec => []NothingLingers
<1>1. PanelInv => NothingLingers
  BY DEF PanelInv, Calls, Teasing, Sheeted, Offering, NothingLingers
<1> QED BY <1>1, PanelInvariant, PTL

\* Every step of a file that a page loads is a step of the panel: what holds of
\* WidgetPanel holds of each of the twelve copies.
THEOREM PanelBuildsImplement == PanelBuildsSpec => Spec
<1>1. PanelBuildsNext => Next
  <2> SUFFICES ASSUME PanelBuildsNext PROVE Next
    OBVIOUS
  <2>1. \A b \in Themes : Mount(b) => Next
    BY PanelThemesAreBuilds DEF Next
  <2>2. Started \/ Attention \/ Toggling \/ Sheet \/ Answers \/ Streamed \/ Rating \/ Clicks
           => Next
    BY DEF Next, Panel
  <2>3. CASE Classic \/ Onyx \/ Linen
    BY <2>1, <2>2, <2>3 DEF Themes, Classic, ClassicMount, ClassicStart,
       ClassicAttention, ClassicToggling, ClassicSheet, ClassicAnswers,
       ClassicStreamed, ClassicRating, ClassicClicks, Onyx, OnyxMount, OnyxStart,
       OnyxAttention, OnyxToggling, OnyxSheet, OnyxAnswers, OnyxStreamed,
       OnyxRating, OnyxClicks, Linen, LinenMount, LinenStart, LinenAttention,
       LinenToggling, LinenSheet, LinenAnswers, LinenStreamed, LinenRating,
       LinenClicks
  <2>4. CASE Clay \/ Atomic \/ Fluen
    BY <2>1, <2>2, <2>4 DEF Themes, Clay, ClayMount, ClayStart, ClayAttention,
       ClayToggling, ClaySheet, ClayAnswers, ClayStreamed, ClayRating, ClayClicks,
       Atomic, AtomicMount, AtomicStart, AtomicAttention, AtomicToggling,
       AtomicSheet, AtomicAnswers, AtomicStreamed, AtomicRating, AtomicClicks,
       Fluen, FluenMount, FluenStart, FluenAttention, FluenToggling, FluenSheet,
       FluenAnswers, FluenStreamed, FluenRating, FluenClicks
  <2>5. CASE Glassmo \/ Md3 \/ Minimal
    BY <2>1, <2>2, <2>5 DEF Themes, Glassmo, GlassmoMount, GlassmoStart,
       GlassmoAttention, GlassmoToggling, GlassmoSheet, GlassmoAnswers,
       GlassmoStreamed, GlassmoRating, GlassmoClicks, Md3, Md3Mount, Md3Start,
       Md3Attention, Md3Toggling, Md3Sheet, Md3Answers, Md3Streamed, Md3Rating,
       Md3Clicks, Minimal, MinimalMount, MinimalStart, MinimalAttention,
       MinimalToggling, MinimalSheet, MinimalAnswers, MinimalStreamed,
       MinimalRating, MinimalClicks
  <2>6. CASE Neu \/ Skuermo \/ Legacy
    BY <2>1, <2>2, <2>6 DEF Themes, Neu, NeuMount, NeuStart, NeuAttention,
       NeuToggling, NeuSheet, NeuAnswers, NeuStreamed, NeuRating, NeuClicks,
       Skuermo, SkuermoMount, SkuermoStart, SkuermoAttention, SkuermoToggling,
       SkuermoSheet, SkuermoAnswers, SkuermoStreamed, SkuermoRating, SkuermoClicks,
       Legacy, LegacyMount, LegacyStart, LegacyAttention, LegacyToggling,
       LegacySheet, LegacyAnswers, LegacyStreamed, LegacyRating, LegacyClicks
  <2> QED BY <2>3, <2>4, <2>5, <2>6 DEF PanelBuildsNext, AnyBuild, Next
<1> QED BY <1>1, PTL DEF PanelBuildsSpec, Spec

=============================================================================

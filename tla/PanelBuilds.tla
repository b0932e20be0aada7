----------------------------- MODULE PanelBuilds ------------------------------
(***************************************************************************)
(* The panel of every file a page may load: WidgetPanel with its own build *)
(* (linen and onyx fade out faster and slower than the others, and no      *)
(* property depends on how fast).                                          *)
(***************************************************************************)
EXTENDS WidgetPanel

\* The names of the files: the themes of the admin panel, and the copy that
\* pages embedded before there were themes.
Themes == {"classic", "onyx", "linen", "clay", "atomic", "fluen",
           "glassmo", "md3", "minimal", "neu", "skuermo", "legacy"}

ASSUME PanelThemesAreBuilds == Themes \subseteq Builds

\* static/widget/widget.js
ClassicMount     == Mount("classic")
ClassicStart     == build = "classic" /\ Started
ClassicAttention == build = "classic" /\ Attention
ClassicToggling  == build = "classic" /\ Toggling
ClassicSheet     == build = "classic" /\ Sheet
ClassicAnswers   == build = "classic" /\ Answers
ClassicStreamed  == build = "classic" /\ Streamed
ClassicRating    == build = "classic" /\ Rating
ClassicClicks    == build = "classic" /\ Clicks
Classic == ClassicMount \/ ClassicStart \/ ClassicAttention \/ ClassicToggling \/ ClassicSheet \/
           ClassicAnswers \/ ClassicStreamed \/ ClassicRating \/ ClassicClicks

\* static/widget/widget-onyx.js
OnyxMount     == Mount("onyx")
OnyxStart     == build = "onyx" /\ Started
OnyxAttention == build = "onyx" /\ Attention
OnyxToggling  == build = "onyx" /\ Toggling
OnyxSheet     == build = "onyx" /\ Sheet
OnyxAnswers   == build = "onyx" /\ Answers
OnyxStreamed  == build = "onyx" /\ Streamed
OnyxRating    == build = "onyx" /\ Rating
OnyxClicks    == build = "onyx" /\ Clicks
Onyx == OnyxMount \/ OnyxStart \/ OnyxAttention \/ OnyxToggling \/ OnyxSheet \/
        OnyxAnswers \/ OnyxStreamed \/ OnyxRating \/ OnyxClicks

\* static/widget/widget-linen.js
LinenMount     == Mount("linen")
LinenStart     == build = "linen" /\ Started
LinenAttention == build = "linen" /\ Attention
LinenToggling  == build = "linen" /\ Toggling
LinenSheet     == build = "linen" /\ Sheet
LinenAnswers   == build = "linen" /\ Answers
LinenStreamed  == build = "linen" /\ Streamed
LinenRating    == build = "linen" /\ Rating
LinenClicks    == build = "linen" /\ Clicks
Linen == LinenMount \/ LinenStart \/ LinenAttention \/ LinenToggling \/ LinenSheet \/
         LinenAnswers \/ LinenStreamed \/ LinenRating \/ LinenClicks

\* static/widget/widget-clay.js
ClayMount     == Mount("clay")
ClayStart     == build = "clay" /\ Started
ClayAttention == build = "clay" /\ Attention
ClayToggling  == build = "clay" /\ Toggling
ClaySheet     == build = "clay" /\ Sheet
ClayAnswers   == build = "clay" /\ Answers
ClayStreamed  == build = "clay" /\ Streamed
ClayRating    == build = "clay" /\ Rating
ClayClicks    == build = "clay" /\ Clicks
Clay == ClayMount \/ ClayStart \/ ClayAttention \/ ClayToggling \/ ClaySheet \/
        ClayAnswers \/ ClayStreamed \/ ClayRating \/ ClayClicks

\* static/widget/widget-atomic.js
AtomicMount     == Mount("atomic")
AtomicStart     == build = "atomic" /\ Started
AtomicAttention == build = "atomic" /\ Attention
AtomicToggling  == build = "atomic" /\ Toggling
AtomicSheet     == build = "atomic" /\ Sheet
AtomicAnswers   == build = "atomic" /\ Answers
AtomicStreamed  == build = "atomic" /\ Streamed
AtomicRating    == build = "atomic" /\ Rating
AtomicClicks    == build = "atomic" /\ Clicks
Atomic == AtomicMount \/ AtomicStart \/ AtomicAttention \/ AtomicToggling \/ AtomicSheet \/
          AtomicAnswers \/ AtomicStreamed \/ AtomicRating \/ AtomicClicks

\* static/widget/widget-fluen.js
FluenMount     == Mount("fluen")
FluenStart     == build = "fluen" /\ Started
FluenAttention == build = "fluen" /\ Attention
FluenToggling  == build = "fluen" /\ Toggling
FluenSheet     == build = "fluen" /\ Sheet
FluenAnswers   == build = "fluen" /\ Answers
FluenStreamed  == build = "fluen" /\ Streamed
FluenRating    == build = "fluen" /\ Rating
FluenClicks    == build = "fluen" /\ Clicks
Fluen == FluenMount \/ FluenStart \/ FluenAttention \/ FluenToggling \/ FluenSheet \/
         FluenAnswers \/ FluenStreamed \/ FluenRating \/ FluenClicks

\* static/widget/widget-glassmo.js
GlassmoMount     == Mount("glassmo")
GlassmoStart     == build = "glassmo" /\ Started
GlassmoAttention == build = "glassmo" /\ Attention
GlassmoToggling  == build = "glassmo" /\ Toggling
GlassmoSheet     == build = "glassmo" /\ Sheet
GlassmoAnswers   == build = "glassmo" /\ Answers
GlassmoStreamed  == build = "glassmo" /\ Streamed
GlassmoRating    == build = "glassmo" /\ Rating
GlassmoClicks    == build = "glassmo" /\ Clicks
Glassmo == GlassmoMount \/ GlassmoStart \/ GlassmoAttention \/ GlassmoToggling \/ GlassmoSheet \/
           GlassmoAnswers \/ GlassmoStreamed \/ GlassmoRating \/ GlassmoClicks

\* static/widget/widget-md3.js
Md3Mount     == Mount("md3")
Md3Start     == build = "md3" /\ Started
Md3Attention == build = "md3" /\ Attention
Md3Toggling  == build = "md3" /\ Toggling
Md3Sheet     == build = "md3" /\ Sheet
Md3Answers   == build = "md3" /\ Answers
Md3Streamed  == build = "md3" /\ Streamed
Md3Rating    == build = "md3" /\ Rating
Md3Clicks    == build = "md3" /\ Clicks
Md3 == Md3Mount \/ Md3Start \/ Md3Attention \/ Md3Toggling \/ Md3Sheet \/
       Md3Answers \/ Md3Streamed \/ Md3Rating \/ Md3Clicks

\* static/widget/widget-minimal.js
MinimalMount     == Mount("minimal")
MinimalStart     == build = "minimal" /\ Started
MinimalAttention == build = "minimal" /\ Attention
MinimalToggling  == build = "minimal" /\ Toggling
MinimalSheet     == build = "minimal" /\ Sheet
MinimalAnswers   == build = "minimal" /\ Answers
MinimalStreamed  == build = "minimal" /\ Streamed
MinimalRating    == build = "minimal" /\ Rating
MinimalClicks    == build = "minimal" /\ Clicks
Minimal == MinimalMount \/ MinimalStart \/ MinimalAttention \/ MinimalToggling \/ MinimalSheet \/
           MinimalAnswers \/ MinimalStreamed \/ MinimalRating \/ MinimalClicks

\* static/widget/widget-neu.js
NeuMount     == Mount("neu")
NeuStart     == build = "neu" /\ Started
NeuAttention == build = "neu" /\ Attention
NeuToggling  == build = "neu" /\ Toggling
NeuSheet     == build = "neu" /\ Sheet
NeuAnswers   == build = "neu" /\ Answers
NeuStreamed  == build = "neu" /\ Streamed
NeuRating    == build = "neu" /\ Rating
NeuClicks    == build = "neu" /\ Clicks
Neu == NeuMount \/ NeuStart \/ NeuAttention \/ NeuToggling \/ NeuSheet \/
       NeuAnswers \/ NeuStreamed \/ NeuRating \/ NeuClicks

\* static/widget/widget-skuermo.js
SkuermoMount     == Mount("skuermo")
SkuermoStart     == build = "skuermo" /\ Started
SkuermoAttention == build = "skuermo" /\ Attention
SkuermoToggling  == build = "skuermo" /\ Toggling
SkuermoSheet     == build = "skuermo" /\ Sheet
SkuermoAnswers   == build = "skuermo" /\ Answers
SkuermoStreamed  == build = "skuermo" /\ Streamed
SkuermoRating    == build = "skuermo" /\ Rating
SkuermoClicks    == build = "skuermo" /\ Clicks
Skuermo == SkuermoMount \/ SkuermoStart \/ SkuermoAttention \/ SkuermoToggling \/ SkuermoSheet \/
           SkuermoAnswers \/ SkuermoStreamed \/ SkuermoRating \/ SkuermoClicks

\* static/widget.js
LegacyMount     == Mount("legacy")
LegacyStart     == build = "legacy" /\ Started
LegacyAttention == build = "legacy" /\ Attention
LegacyToggling  == build = "legacy" /\ Toggling
LegacySheet     == build = "legacy" /\ Sheet
LegacyAnswers   == build = "legacy" /\ Answers
LegacyStreamed  == build = "legacy" /\ Streamed
LegacyRating    == build = "legacy" /\ Rating
LegacyClicks    == build = "legacy" /\ Clicks
Legacy == LegacyMount \/ LegacyStart \/ LegacyAttention \/ LegacyToggling \/ LegacySheet \/
          LegacyAnswers \/ LegacyStreamed \/ LegacyRating \/ LegacyClicks

AnyBuild ==
    Classic \/ Onyx \/ Linen \/ Clay \/ Atomic \/ Fluen \/ Glassmo \/ Md3 \/
    Minimal \/ Neu \/ Skuermo \/ Legacy

PanelBuildsNext == AnyBuild \/ Leave \/ TabHides

PanelBuildsSpec == Init /\ [][PanelBuildsNext]_vars

===============================================================================

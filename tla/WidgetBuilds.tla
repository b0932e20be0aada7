----------------------------- MODULE WidgetBuilds -----------------------------
(***************************************************************************)
(* The chat of every file a page may load.  The files repeat the same      *)
(* class under another style sheet; the differences that matter to the     *)
(* chat are in Guarded, so each file is WidgetChat with its own build.     *)
(***************************************************************************)
EXTENDS WidgetChat

\* The names of the files: the themes of the admin panel, and the copy that
\* pages embedded before there were themes.
Themes == {"classic", "onyx", "linen", "clay", "atomic", "fluen",
           "glassmo", "md3", "minimal", "neu", "skuermo", "legacy"}

ASSUME ThemesAreBuilds == Themes \subseteq Builds

\* static/widget/widget.js
ClassicBoot    == Boot("classic")
ClassicStart   == build = "classic" /\ Starting
ClassicSend    == build = "classic" /\ Sending
ClassicNew     == build = "classic" /\ Buttons
ClassicRow     == build = "classic" /\ RowButtons
ClassicStream  == build = "classic" /\ Stream
ClassicBackend == build = "classic" /\ Backend
Classic == ClassicBoot \/ ClassicStart \/ ClassicSend \/ ClassicNew \/
           ClassicRow \/ ClassicStream \/ ClassicBackend

\* static/widget/widget-onyx.js
OnyxBoot    == Boot("onyx")
OnyxStart   == build = "onyx" /\ Starting
OnyxSend    == build = "onyx" /\ Sending
OnyxNew     == build = "onyx" /\ Buttons
OnyxRow     == build = "onyx" /\ RowButtons
OnyxStream  == build = "onyx" /\ Stream
OnyxBackend == build = "onyx" /\ Backend
Onyx == OnyxBoot \/ OnyxStart \/ OnyxSend \/ OnyxNew \/ OnyxRow \/ OnyxStream \/ OnyxBackend

\* static/widget/widget-linen.js
LinenBoot    == Boot("linen")
LinenStart   == build = "linen" /\ Starting
LinenSend    == build = "linen" /\ Sending
LinenNew     == build = "linen" /\ Buttons
LinenRow     == build = "linen" /\ RowButtons
LinenStream  == build = "linen" /\ Stream
LinenBackend == build = "linen" /\ Backend
Linen == LinenBoot \/ LinenStart \/ LinenSend \/ LinenNew \/
         LinenRow \/ LinenStream \/ LinenBackend

\* static/widget/widget-clay.js
ClayBoot    == Boot("clay")
ClayStart   == build = "clay" /\ Starting
ClaySend    == build = "clay" /\ Sending
ClayNew     == build = "clay" /\ Buttons
ClayRow     == build = "clay" /\ RowButtons
ClayStream  == build = "clay" /\ Stream
ClayBackend == build = "clay" /\ Backend
Clay == ClayBoot \/ ClayStart \/ ClaySend \/ ClayNew \/ ClayRow \/ ClayStream \/ ClayBackend

\* static/widget/widget-atomic.js
AtomicBoot    == Boot("atomic")
AtomicStart   == build = "atomic" /\ Starting
AtomicSend    == build = "atomic" /\ Sending
AtomicNew     == build = "atomic" /\ Buttons
AtomicRow     == build = "atomic" /\ RowButtons
AtomicStream  == build = "atomic" /\ Stream
AtomicBackend == build = "atomic" /\ Backend
Atomic == AtomicBoot \/ AtomicStart \/ AtomicSend \/ AtomicNew \/
          AtomicRow \/ AtomicStream \/ AtomicBackend

\* static/widget/widget-fluen.js
FluenBoot    == Boot("fluen")
FluenStart   == build = "fluen" /\ Starting
FluenSend    == build = "fluen" /\ Sending
FluenNew     == build = "fluen" /\ Buttons
FluenRow     == build = "fluen" /\ RowButtons
FluenStream  == build = "fluen" /\ Stream
FluenBackend == build = "fluen" /\ Backend
Fluen == FluenBoot \/ FluenStart \/ FluenSend \/ FluenNew \/
         FluenRow \/ FluenStream \/ FluenBackend

\* static/widget/widget-glassmo.js
GlassmoBoot    == Boot("glassmo")
GlassmoStart   == build = "glassmo" /\ Starting
GlassmoSend    == build = "glassmo" /\ Sending
GlassmoNew     == build = "glassmo" /\ Buttons
GlassmoRow     == build = "glassmo" /\ RowButtons
GlassmoStream  == build = "glassmo" /\ Stream
GlassmoBackend == build = "glassmo" /\ Backend
Glassmo == GlassmoBoot \/ GlassmoStart \/ GlassmoSend \/ GlassmoNew \/
           GlassmoRow \/ GlassmoStream \/ GlassmoBackend

\* static/widget/widget-md3.js
Md3Boot    == Boot("md3")
Md3Start   == build = "md3" /\ Starting
Md3Send    == build = "md3" /\ Sending
Md3New     == build = "md3" /\ Buttons
Md3Row     == build = "md3" /\ RowButtons
Md3Stream  == build = "md3" /\ Stream
Md3Backend == build = "md3" /\ Backend
Md3 == Md3Boot \/ Md3Start \/ Md3Send \/ Md3New \/ Md3Row \/ Md3Stream \/ Md3Backend

\* static/widget/widget-minimal.js
MinimalBoot    == Boot("minimal")
MinimalStart   == build = "minimal" /\ Starting
MinimalSend    == build = "minimal" /\ Sending
MinimalNew     == build = "minimal" /\ Buttons
MinimalRow     == build = "minimal" /\ RowButtons
MinimalStream  == build = "minimal" /\ Stream
MinimalBackend == build = "minimal" /\ Backend
Minimal == MinimalBoot \/ MinimalStart \/ MinimalSend \/ MinimalNew \/
           MinimalRow \/ MinimalStream \/ MinimalBackend

\* static/widget/widget-neu.js
NeuBoot    == Boot("neu")
NeuStart   == build = "neu" /\ Starting
NeuSend    == build = "neu" /\ Sending
NeuNew     == build = "neu" /\ Buttons
NeuRow     == build = "neu" /\ RowButtons
NeuStream  == build = "neu" /\ Stream
NeuBackend == build = "neu" /\ Backend
Neu == NeuBoot \/ NeuStart \/ NeuSend \/ NeuNew \/ NeuRow \/ NeuStream \/ NeuBackend

\* static/widget/widget-skuermo.js
SkuermoBoot    == Boot("skuermo")
SkuermoStart   == build = "skuermo" /\ Starting
SkuermoSend    == build = "skuermo" /\ Sending
SkuermoNew     == build = "skuermo" /\ Buttons
SkuermoRow     == build = "skuermo" /\ RowButtons
SkuermoStream  == build = "skuermo" /\ Stream
SkuermoBackend == build = "skuermo" /\ Backend
Skuermo == SkuermoBoot \/ SkuermoStart \/ SkuermoSend \/ SkuermoNew \/
           SkuermoRow \/ SkuermoStream \/ SkuermoBackend

\* static/widget.js
LegacyBoot    == Boot("legacy")
LegacyStart   == build = "legacy" /\ Starting
LegacySend    == build = "legacy" /\ Sending
LegacyNew     == build = "legacy" /\ Buttons
LegacyRow     == build = "legacy" /\ RowButtons
LegacyStream  == build = "legacy" /\ Stream
LegacyBackend == build = "legacy" /\ Backend
Legacy == LegacyBoot \/ LegacyStart \/ LegacySend \/ LegacyNew \/
          LegacyRow \/ LegacyStream \/ LegacyBackend

AnyBuild ==
    Classic \/ Onyx \/ Linen \/ Clay \/ Atomic \/ Fluen \/ Glassmo \/ Md3 \/
    Minimal \/ Neu \/ Skuermo \/ Legacy

BuildsNext == AnyBuild \/ Leave \/ OtherTab

BuildsSpec == Init /\ [][BuildsNext]_vars

BuildsFairSpec == BuildsSpec /\ Fairness

===============================================================================

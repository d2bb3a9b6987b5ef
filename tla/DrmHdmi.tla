------------------------------- MODULE DrmHdmi --------------------------------
(***************************************************************************)
(* drm_hdmi.cpp: the choice of a timing, and the DRM context gDrmCxt with  *)
(* what its functions do to it and to the hardware.                        *)
(*                                                                         *)
(* A monitor is what its EDID and its connector say: the sequence of its   *)
(* modes, and whether it has an HDMI or only a DVI input.                  *)
(***************************************************************************)
EXTENDS Integers, SequencesExt

CONSTANTS
    Monitor,    \* the monitors that may be plugged in
    Modes,      \* Modes[m]: the connector's modes
    Dvi,        \* the monitors whose EDID has no HDMI block
    NoMonitor,  \* nothing is plugged in
    NULL        \* no connector is held

HDMI_TIMING_MAX == 128
PREFERRED_VREFRESH == 60

DrmMode == [w : Nat, h : Nat, r : Nat, inter : BOOLEAN, wide : BOOLEAN, preferred : BOOLEAN]

ASSUME MonitorAssumption ==
    /\ NoMonitor \notin Monitor /\ NULL \notin Monitor \cup {NoMonitor}
    /\ Dvi \subseteq Monitor
    /\ \A m \in Monitor : Modes[m] \in Seq(DrmMode) /\ Len(Modes[m]) \in 1..HDMI_TIMING_MAX

-----------------------------------------------------------------------------
(* The choice of a timing.  M is a sequence of modes: size, refresh rate,  *)
(* interlaced, 16:9 (bit 14 of the flags), marked as preferred by the      *)
(* monitor.                                                                *)

\* 16:9 and progressive.
drm_is_preferred_flags(m) == m.wide /\ ~m.inter

\* The first of a set of modes, unless a later one is 16:9 and progressive:
\* then the last such.
FirstOrWide(M, S) ==
    LET wide == {i \in S \ {Min(S)} : drm_is_preferred_flags(M[i])}
    IN  IF wide = {} THEN Min(S) ELSE Max(wide)

\* The largest mode at 60 Hz, as the loop finds it: larger in both directions
\* than the largest so far, or of the same size and 16:9.
Largest(M, n) ==
    LET Step(best, i) ==
          IF M[i].r # PREFERRED_VREFRESH THEN best
          ELSE IF M[i].w > best.w /\ M[i].h > best.h
               THEN [index |-> i, w |-> M[i].w, h |-> M[i].h]
          ELSE IF M[i].w = best.w /\ M[i].h = best.h /\ drm_is_preferred_flags(M[i])
               THEN [best EXCEPT !.index = i]
          ELSE best
    IN  FoldLeftDomain(LAMBDA b, i : Step(b, i), [index |-> 0, w |-> 0, h |-> 0],
                       SubSeq(M, 1, n)).index

\* drm_select_preferredmode: the monitor's own choice if it runs at 60 Hz, or
\* 1080p, or 720p, or the largest.  The loop stops at the monitor's choice,
\* so modes listed after it do not count.
drm_select_preferredmode(M) ==
    LET marked == {i \in DOMAIN M : M[i].preferred}
        own == {i \in marked : i = Min(marked) /\ M[i].r = PREFERRED_VREFRESH}
        scanned == IF marked = {} THEN DOMAIN M ELSE 1..(Min(marked) - 1)
        Sized(w, h) == {i \in scanned : M[i].w = w /\ M[i].h = h
                                        /\ M[i].r = PREFERRED_VREFRESH}
        largest == Largest(M, Max({0} \cup scanned))
    IN  CASE own # {} -> Min(own)
          [] own = {} /\ Sized(1920, 1080) # {} -> FirstOrWide(M, Sized(1920, 1080))
          [] own = {} /\ Sized(1920, 1080) = {} /\ Sized(1280, 720) # {} ->
                 FirstOrWide(M, Sized(1280, 720))
          [] OTHER -> IF largest = 0 THEN 1 ELSE largest

\* The size looked for to show a video: 720p if it is large enough, or 1080p.
VideoSize(v) == IF v.w <= 1280 /\ v.h <= 720 THEN <<1280, 720>> ELSE <<1920, 1080>>

Matched(M, v) == {i \in DOMAIN M : <<M[i].w, M[i].h>> = VideoSize(v)}

\* The matched mode with the highest refresh rate: the last that is 16:9 and
\* progressive, if one is.
Fastest(M, S) ==
    LET top == {i \in S : \A j \in S : M[j].r <= M[i].r}
        wide == {i \in top : drm_is_preferred_flags(M[i])}
    IN  IF wide = {} THEN Min(top) ELSE Max(wide)

\* The matched mode whose refresh rate is the best multiple of the video's: the
\* first that is equal, 16:9 and progressive; otherwise the first of the fastest
\* proper multiples.  0 when there is none: an equal rate that is not 16:9 and
\* progressive does not count.
BestMultiple(M, S, r) ==
    LET multiples == {i \in S : r # 0 /\ M[i].r % r = 0}
        exact == {i \in multiples : M[i].r = r /\ drm_is_preferred_flags(M[i])}
        proper == {i \in multiples : M[i].r # r}
        top == {i \in proper : \A j \in proper : M[j].r <= M[i].r}
    IN  CASE exact # {} -> Min(exact)
          [] exact = {} /\ proper # {} -> Min(top)
          [] OTHER -> 0

\* The mode to show a video in, when the user has not selected one.
VideoMode(M, v, preferred) ==
    LET S == Matched(M, v)
        best == BestMultiple(M, S, v.r)
    IN  CASE S = {} -> preferred
          [] S # {} /\ best # 0 -> best
          [] OTHER -> Fastest(M, S)

\* What a timing keeps of a mode.
drm_hdmi_setTiming(m) == [w |-> m.w, h |-> m.h, r |-> m.r, inter |-> m.inter, wide |-> m.wide]

\* drm_hdmi_getModeInfo: the modes without the repeated ones.
drm_hdmi_getModeInfo(M) ==
    {drm_hdmi_setTiming(M[i]) : i \in
        {i \in DOMAIN M : \A j \in 1..(i - 1) :
            drm_hdmi_setTiming(M[j]) # drm_hdmi_setTiming(M[i])}}

-----------------------------------------------------------------------------
(* The context and the hardware.                                           *)

NoTiming == [w |-> 0, h |-> 0, r |-> 0, inter |-> FALSE, wide |-> FALSE]

VARIABLES
    cable,  \* what is plugged in
    drm,    \* gDrmCxt
    panel,  \* whether the built-in (MIPI) panel is lit
    audio   \* whether the audio driver was told that HDMI is plugged in

drmVars == <<cable, drm, panel, audio>>

drm_init ==
    /\ cable \in Monitor \cup {NoMonitor}
    /\ drm = [conn |-> NULL, connected |-> FALSE, product |-> NoMonitor,
              modeValid |-> FALSE, selected |-> NoTiming]
    /\ panel = TRUE
    /\ audio = FALSE

\* The first half of drm_hdmi_getConnectionStatus: the connector is given up.
connectionReset == [drm EXCEPT !.conn = NULL, !.connected = FALSE]

\* getHdmiConnector: what is plugged in is looked up when no connector is held.
\* The connector is kept, also one without modes, with which the callers do nothing.
getHdmiConnector == IF drm.conn = NULL THEN cable ELSE drm.conn

\* Mutant: the selected mode outlives the monitor it was selected for.
connectionRead_KeepsMode(readable) ==
    LET conn == getHdmiConnector
    IN  IF conn = NoMonitor \/ ~readable THEN [drm EXCEPT !.conn = conn]
        ELSE [drm EXCEPT !.conn = conn, !.connected = TRUE, !.product = conn]

\* The second half: the connector is read again, and when the EDID is readable
\* another product than the last one is a new device, for which no mode is
\* selected.  (newDevice itself only decides what scaling SurfaceFlinger is told.)
connectionRead(readable) ==
    LET conn == getHdmiConnector
    IN  IF conn = NoMonitor \/ ~readable THEN [drm EXCEPT !.conn = conn]
        ELSE [drm EXCEPT !.conn = conn, !.connected = TRUE, !.product = conn,
                         !.modeValid = @ /\ drm.product = conn]

\* Its result: 0 not connected, 1 HDMI, 2 DVI.
connectionStatus(readable) ==
    CASE getHdmiConnector = NoMonitor \/ ~readable -> 0
      [] getHdmiConnector \in Dvi /\ readable -> 2
      [] OTHER -> 1

\* preferredModeIndex is chosen whenever the product is read.
preferredModeIndex == drm_select_preferredmode(Modes[drm.product])

\* drm_hdmi_getTiming, with v the video to show or NoTiming for clone mode;
\* old is what the caller's variable holds, and keeps when it fails.
drm_hdmi_getTiming(v, old) ==
    LET M == Modes[getHdmiConnector]
        index == IF v = NoTiming THEN preferredModeIndex ELSE VideoMode(M, v, preferredModeIndex)
    IN  CASE ~drm.connected -> old
          [] drm.connected /\ drm.modeValid -> drm.selected
          [] drm.connected /\ ~drm.modeValid /\ getHdmiConnector = NoMonitor -> old
          [] OTHER -> IF index > Len(M) THEN NoTiming ELSE drm_hdmi_setTiming(M[index])

\* drm_hdmi_setModeInfo
drm_hdmi_setModeInfo(timing) ==
    IF drm.connected THEN [drm EXCEPT !.modeValid = TRUE, !.selected = timing] ELSE drm

=============================================================================

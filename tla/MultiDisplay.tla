----------------------------- MODULE MultiDisplay -----------------------------
(***************************************************************************)
(* The display composer (MultiDisplayComposer.cpp) over HDCP and HDMI.     *)
(*                                                                         *)
(* Binder threads call the service; every operation but two holds mLock    *)
(* from beginning to end.  notifyWidi changes mMode, and notifyMipi leaves *)
(* a request, under mMipiLock only.  The MIPI thread takes the request     *)
(* under mMipiLock and carries it out under mLock.  The threads of the     *)
(* HDCP timer take no lock at all.  A binder thread that waits for a mutex *)
(* is as good as idle.                                                     *)
(*                                                                         *)
(* setHdmiMode_l is one action from a call into the driver to the next, so *)
(* that cable, link checks and notifyWidi interleave with it.              *)
(***************************************************************************)
EXTENDS Hdcp

CONSTANTS
    Binder,     \* the binder threads in operations that take mLock
    Notifier,   \* the binder threads in operations that take mMipiLock only
    Mipi,       \* the thread of threadLoop
    Client,     \* the clients that may register a listener
    Hwc,        \* the client named HWComposer
    VideoInfo,  \* the videos that clients show, [w, h, r]
    MaxCall,    \* bound: the calls, link checks and changes of the cable
    Free        \* nobody holds a lock

ASSUME ComposerAssumption ==
    /\ Caller = Binder
    /\ Notifier \cap HdcpThread = {}
    /\ Mipi \notin HdcpThread \cup Notifier
    /\ Free \notin HdcpThread \cup Notifier
    /\ Hwc \in Client
    /\ VideoInfo \subseteq [w : Nat, h : Nat, r : Nat]
    /\ MaxCall \in Nat

VARIABLES
    mMode,           \* the bits set in mMode
    mMipiPolicy,     \* whether turning MIPI off is allowed
    mHdmiPolicy,     \* whether turning HDMI on is allowed
    mMipiOn,
    mWidiVideoExt,
    mMipiReq,        \* "none", "on" or "off"
    mVideo,          \* the video that is playing, NoTiming for none
    mConnectStatus,
    listeners,       \* the clients in mListener
    view,            \* the mode each listener was told last, {"?"} for none yet
    timing,          \* the timing HWComposer was told last
    lock,            \* who holds mLock
    mipiLock,        \* who holds mMipiLock
    status,          \* status[t]: connectStatus in setHdmiMode_l
    fresh,           \* fresh[t]: its notify_audio_hotplug
    seen,            \* seen[t]: mMode as notifyWidi has read it
    mipiReq,         \* the request the MIPI thread has taken
    torn,            \* an update of mMode was lost in a race of notifyWidi
    alive,           \* the process has not crashed
    calls            \* how many calls, link checks and changes of the cable there were

modeVars == <<mMode, mMipiPolicy, mHdmiPolicy, mMipiOn, mConnectStatus, torn>>
widiVars == <<mWidiVideoExt, mMipiReq, mipiLock, seen, mipiReq>>
clientVars == <<listeners, view, timing>>
threadVars == <<lock, status, fresh, alive>>
vars == <<drmVars, hdcpVars, localVars, pc, modeVars, mVideo, widiVars,
          clientVars, threadVars, calls>>

Thread == Binder \cup Notifier \cup Checker \cup {Mipi}

HdmiBits == {"HDMI_CONNECTED", "HDMI_ON", "HDMI_CLONE", "HDMI_VIDEO_EXT",
             "HDCP_ON", "OVERLAY_OFF"}
Bits == HdmiBits \cup {"MIPI_ON", "WIDI_ON", "VIDEO_PLAYING"}

Playing == mVideo # NoTiming

\* The first bit setHdmiMode_l updates.
WithVideo(mode, v) ==
    IF v = NoTiming THEN mode \ {"VIDEO_PLAYING"} ELSE mode \cup {"VIDEO_PLAYING"}

\* broadcastMessage_l(MDS_MODE_CHANGE)
Broadcast(mode) == view' = [c \in Client |-> IF c \in listeners THEN mode ELSE view[c]]

\* The constructor calls setModePolicy_l(MDS_HDMI_ON_ALLOWED), which turns MIPI on
\* and goes on as setHdmiMode_l: here it is the first operation of some thread,
\* and nothing else begins before it has ended.  What it does last,
\* setModePolicy_l(MDS_MIPI_OFF_NOT_ALLOWED), changes nothing any more.
Init ==
    /\ drm_init /\ hdcp_init
    /\ mMode = {}
    /\ mMipiPolicy = FALSE
    /\ mHdmiPolicy = TRUE
    /\ mMipiOn = TRUE
    /\ mWidiVideoExt = FALSE
    /\ mMipiReq = "none"
    /\ mVideo = NoTiming
    /\ mConnectStatus = 0
    /\ listeners = {}
    /\ view = [c \in Client |-> {"?"}]
    /\ timing = NoTiming
    /\ mipiLock = Free
    /\ status = [t \in Binder |-> 0]
    /\ fresh = [t \in Binder |-> FALSE]
    /\ seen = [t \in Notifier |-> {}]
    /\ mipiReq = "none"
    /\ torn = FALSE
    /\ alive = TRUE
    /\ calls = 0
    /\ \E first \in Binder :
         /\ lock = first
         /\ pc = [t \in Thread |-> IF t = first THEN "plug" ELSE "idle"]

-----------------------------------------------------------------------------
(* The operations of the service that end in setHdmiMode_l.                *)

\* mLock taken, and setHdmiMode_l begun with video v.
Enter(t, v) ==
    /\ pc[t] = "idle"
    /\ lock = Free
    /\ lock' = t
    /\ mMode' = WithVideo(mMode, v)
    /\ Goto(t, "plug")
    /\ UNCHANGED <<drmVars, hdcpVars, localVars, mMipiPolicy, mMipiOn, mConnectStatus, torn,
                   widiVars, listeners, timing, status, fresh, alive>>

notifyHotPlug(t) ==
    /\ Enter(t, mVideo)
    /\ UNCHANGED <<mVideo, mHdmiPolicy, view>>

updateVideoInfo(t, v) ==
    /\ Enter(t, v)
    /\ mVideo' = v
    /\ UNCHANGED <<mHdmiPolicy, view>>

\* prepareForVideo(MDS_VIDEO_UNPREPARED) forgets the video.  The other statuses,
\* and one given twice, are only passed on to the listeners.
prepareForVideo(t) ==
    /\ Enter(t, NoTiming)
    /\ mVideo' = NoTiming
    /\ UNCHANGED <<mHdmiPolicy, view>>

\* setModePolicy(MDS_HDMI_ON_ALLOWED or _NOT_ALLOWED)
SetHdmiPolicy(t, allowed) ==
    /\ Enter(t, mVideo)
    /\ mHdmiPolicy' = allowed
    /\ UNCHANGED <<mVideo, view>>

-----------------------------------------------------------------------------
(* setHdmiMode_l.                                                          *)

\* What follows a crash, or a lost update of mMode, is not looked at.
Goes == alive /\ ~torn

\* A step of thread t.
Step(t, from) == Goes /\ pc[t] = from

\* mLock given back; the locals of setHdmiMode_l are gone, and what HWComposer
\* was told is no longer of interest.
Leave(t) ==
    /\ lock' = Free
    /\ status' = [status EXCEPT ![t] = 0]
    /\ fresh' = [fresh EXCEPT ![t] = FALSE]
    /\ timing' = NoTiming
    /\ Goto(t, "idle")

\* drm_hdmi_getConnectionStatus, in two steps since link checks call it too.
PlugReset(t) ==
    /\ Step(t, "plug")
    /\ drm' = connectionReset
    /\ Goto(t, "plugread")
    /\ UNCHANGED <<hdcpVars, localVars, cable, panel, audio, modeVars, mVideo, widiVars,
                   clientVars, threadVars>>

\* Then MIPI is turned on when the built-in panel is all there is to see.
PlugRead(t) ==
    /\ Step(t, "plugread")
    /\ \E readable \in BOOLEAN :
         LET s == connectionStatus(readable)
             alone == s = 0 \/ ~mHdmiPolicy \/ ~Playing
             turnOn == alone /\ "MIPI_ON" \notin mMode
         IN  /\ drm' = connectionRead(readable)
             /\ status' = [status EXCEPT ![t] = s]
             /\ mMipiPolicy' = (mMipiPolicy /\ ~alone)
             /\ mMode' = IF turnOn THEN mMode \cup {"MIPI_ON"} ELSE mMode
             /\ panel' = (panel \/ turnOn)
             /\ mMipiOn' = (mMipiOn \/ turnOn)
    /\ Goto(t, "plugged")
    /\ UNCHANGED <<hdcpVars, localVars, cable, audio, mHdmiPolicy, mConnectStatus, torn, mVideo,
                   widiVars, clientVars, lock, fresh, alive>>

\* Two threads in the connector that gDrmCxt holds: one frees what the other
\* uses.  The process may crash, or nothing may come of it.
UsesConnector == {"plug", "plugread", "timing", "modetiming", "lost", "reread"}
ConnectorFreed(t, u) ==
    /\ Goes
    /\ t # u
    /\ pc[t] \in {"plug", "lost"} /\ pc[u] \in UsesConnector
    /\ alive' = FALSE
    /\ UNCHANGED <<drmVars, hdcpVars, localVars, pc, modeVars, mVideo, widiVars,
                   clientVars, lock, status, fresh>>

AlreadyDisconnected(t) ==
    /\ Step(t, "plugged")
    /\ status[t] = 0
    /\ "HDMI_CONNECTED" \notin mMode
    /\ Broadcast(mMode)
    /\ mConnectStatus' = 0
    /\ Leave(t)
    /\ UNCHANGED <<drmVars, hdcpVars, localVars, mMode, mMipiPolicy, mHdmiPolicy, mMipiOn, torn,
                   mVideo, widiVars, listeners, alive>>

\* Mutant: the audio driver is not told.
Disconnected_AudioForgotten(t) ==
    /\ Step(t, "plugged")
    /\ status[t] = 0
    /\ "HDMI_CONNECTED" \in mMode
    /\ drm_hdcp_disable_hdcp
    /\ mMode' = mMode \ HdmiBits
    /\ Broadcast(mMode')
    /\ drm' = connectionReset
    /\ mConnectStatus' = 0
    /\ Leave(t)
    /\ UNCHANGED <<localVars, cable, panel, audio, mMipiPolicy, mHdmiPolicy, mMipiOn, torn,
                   mVideo, widiVars, listeners, alive>>

Disconnected(t) ==
    /\ Step(t, "plugged")
    /\ status[t] = 0
    /\ "HDMI_CONNECTED" \in mMode
    /\ audio' = FALSE
    /\ drm_hdcp_disable_hdcp
    /\ mMode' = mMode \ HdmiBits
    /\ Broadcast(mMode')
    /\ drm' = connectionReset
    /\ mConnectStatus' = 0
    /\ Leave(t)
    /\ UNCHANGED <<localVars, cable, panel, mMipiPolicy, mHdmiPolicy, mMipiOn, torn,
                   mVideo, widiVars, listeners, alive>>

\* HDMI on is not allowed: the audio driver hears of the cable, and what is on
\* is turned off.  OVERLAY_OFF keeps its value.
HdmiNotAllowed(t) ==
    /\ Step(t, "plugged")
    /\ status[t] # 0
    /\ ~mHdmiPolicy
    /\ LET tell == mConnectStatus # status[t] /\ "HDMI_CONNECTED" \notin mMode
       IN  /\ audio' = (audio \/ tell)
           /\ mConnectStatus' = IF tell THEN status[t] ELSE mConnectStatus
    /\ IF "HDCP_ON" \in mMode /\ "HDMI_ON" \in mMode THEN drm_hdcp_disable_hdcp ELSE UNCHANGED hdcpVars
    /\ mMode' = {"HDMI_CONNECTED"} \cup
           IF "HDMI_ON" \in mMode
           THEN mMode \ {"HDCP_ON", "HDMI_ON", "HDMI_CLONE", "HDMI_VIDEO_EXT"}
           ELSE mMode
    /\ Broadcast(mMode')
    /\ Leave(t)
    /\ UNCHANGED <<localVars, cable, drm, panel, mMipiPolicy, mHdmiPolicy, mMipiOn, torn,
                   mVideo, widiVars, listeners, alive>>

InMode == IF Playing THEN "HDMI_VIDEO_EXT" \in mMode ELSE "HDMI_CLONE" \in mMode

AlreadyInMode(t) ==
    /\ Step(t, "plugged")
    /\ status[t] # 0
    /\ mHdmiPolicy
    /\ InMode
    /\ mMode' = mMode \cup {"HDMI_CONNECTED"}
    /\ Broadcast(mMode')
    /\ mConnectStatus' = status[t]
    /\ Leave(t)
    /\ UNCHANGED <<drmVars, hdcpVars, localVars, mMipiPolicy, mHdmiPolicy, mMipiOn, torn,
                   mVideo, widiVars, listeners, alive>>

\* Mutant: listeners are not taken through the local mode.
Transition_NotTold(t) ==
    /\ Step(t, "plugged")
    /\ status[t] # 0
    /\ mHdmiPolicy
    /\ ~InMode
    /\ fresh' = [fresh EXCEPT ![t] = "HDMI_CONNECTED" \notin mMode]
    /\ mMode' = mMode \cup {"HDMI_CONNECTED"}
    /\ mConnectStatus' = status[t]
    /\ Goto(t, IF "HDCP_ON" \in mMode THEN "hdcpoff" ELSE "timing")
    /\ UNCHANGED <<drmVars, hdcpVars, localVars, mMipiPolicy, mHdmiPolicy, mMipiOn, torn,
                   mVideo, widiVars, clientVars, lock, status, alive>>

\* A change of mode begins with the local mode and the overlay off.
Transition(t) ==
    /\ Step(t, "plugged")
    /\ status[t] # 0
    /\ mHdmiPolicy
    /\ ~InMode
    /\ fresh' = [fresh EXCEPT ![t] = "HDMI_CONNECTED" \notin mMode]
    /\ mMode' = mMode \cup {"HDMI_CONNECTED"}
    /\ mConnectStatus' = status[t]
    /\ Broadcast((mMode' \ {"HDMI_CLONE", "HDMI_VIDEO_EXT"}) \cup {"OVERLAY_OFF"})
    /\ Goto(t, IF "HDCP_ON" \in mMode THEN "hdcpoff" ELSE "timing")
    /\ UNCHANGED <<drmVars, hdcpVars, localVars, mMipiPolicy, mHdmiPolicy, mMipiOn, torn,
                   mVideo, widiVars, listeners, timing, lock, status, alive>>

HdcpOff(t) ==
    /\ Step(t, "hdcpoff")
    /\ drm_hdcp_disable_hdcp
    /\ mMode' = mMode \ {"HDCP_ON"}
    /\ Goto(t, "timing")
    /\ UNCHANGED <<drmVars, localVars, mMipiPolicy, mHdmiPolicy, mMipiOn, mConnectStatus, torn,
                   mVideo, widiVars, clientVars, threadVars>>

\* setHdmiTiming_l: only HWComposer is told.  When drm_hdmi_getTiming fails, it
\* is told the zeros, or the video's own size, that the variable was set to.
SetTiming(t) ==
    /\ Step(t, "timing")
    /\ LET old == IF Playing THEN [NoTiming EXCEPT !.w = mVideo.w, !.h = mVideo.h, !.r = mVideo.r]
                             ELSE NoTiming
       IN  timing' = IF Hwc \in listeners THEN drm_hdmi_getTiming(mVideo, old) ELSE timing
    /\ Goto(t, "enable")
    /\ UNCHANGED <<drmVars, hdcpVars, localVars, modeVars, mVideo, widiVars,
                   listeners, view, threadVars>>

\* After drm_hdcp_enable_hdcp: the new mode, the overlay still off.
ModeSet(t) ==
    /\ Step(t, "enabled")
    /\ mMode' = (mMode \ {"HDMI_VIDEO_EXT", "HDMI_CLONE"})
                \cup {"OVERLAY_OFF", IF Playing THEN "HDMI_VIDEO_EXT" ELSE "HDMI_CLONE"}
                \cup (IF result[t] THEN {"HDCP_ON"} ELSE {})
    /\ mMipiPolicy' = (mMipiPolicy \/ Playing)
    /\ Broadcast(mMode')
    /\ result' = [result EXCEPT ![t] = FALSE]
    /\ Goto(t, "show")
    /\ UNCHANGED <<drmVars, hdcpVars, tries, mHdmiPolicy, mMipiOn, mConnectStatus, torn,
                   mVideo, widiVars, listeners, timing, threadVars>>

\* Mutant: no last broadcast.
Show_NotTold(t) ==
    /\ Step(t, "show")
    /\ mMode' = (mMode \cup {"HDMI_ON"}) \
                IF "HDMI_VIDEO_EXT" \in mMode THEN {"OVERLAY_OFF"} ELSE {}
    /\ audio' = (audio \/ fresh[t])
    /\ Leave(t)
    /\ UNCHANGED <<hdcpVars, localVars, cable, drm, panel, mMipiPolicy, mHdmiPolicy, mMipiOn,
                   mConnectStatus, torn, mVideo, widiVars, listeners, view, alive>>

\* HDMI on, the overlay on again in video extended mode, and the audio driver
\* told of a new connection.
Show(t) ==
    /\ Step(t, "show")
    /\ mMode' = (mMode \cup {"HDMI_ON"}) \
                IF "HDMI_VIDEO_EXT" \in mMode THEN {"OVERLAY_OFF"} ELSE {}
    /\ Broadcast(mMode')
    /\ audio' = (audio \/ fresh[t])
    /\ Leave(t)
    /\ UNCHANGED <<hdcpVars, localVars, cable, drm, panel, mMipiPolicy, mHdmiPolicy, mMipiOn,
                   mConnectStatus, torn, mVideo, widiVars, listeners, alive>>

-----------------------------------------------------------------------------
(* The other operations of the service.                                    *)

\* setModePolicy(MDS_MIPI_OFF_ALLOWED or _NOT_ALLOWED): MIPI goes off or on at once,
\* unless mMode says that it is already.
SetMipiPolicy(t, off) ==
    /\ pc[t] = "idle" /\ lock = Free
    /\ mMipiPolicy' = off
    /\ panel' = IF off THEN panel /\ "MIPI_ON" \notin mMode ELSE panel \/ "MIPI_ON" \notin mMode
    /\ mMode' = IF off THEN mMode \ {"MIPI_ON"} ELSE mMode \cup {"MIPI_ON"}
    /\ mMipiOn' = ~off
    /\ Broadcast(mMode')
    /\ UNCHANGED <<cable, drm, audio, hdcpVars, localVars, pc, mHdmiPolicy, mConnectStatus, torn,
                   mVideo, widiVars, listeners, timing, threadVars>>

\* setHdmiModeInfo: the user selects a mode of the last monitor.
SelectMode(t, m) ==
    /\ pc[t] = "idle" /\ lock = Free
    /\ lock' = t
    /\ drm' = drm_hdmi_setModeInfo(m)
    /\ Goto(t, "modetiming")
    /\ UNCHANGED <<cable, panel, audio, hdcpVars, localVars, modeVars, mVideo, widiVars,
                   clientVars, status, fresh, alive>>

\* Its local timing is not initialized: when nothing is connected HWComposer is
\* told whatever it holds.
SelectTiming(t) ==
    /\ Step(t, "modetiming")
    /\ \E old \in {drm.selected, NoTiming} :
         timing' = IF Hwc \in listeners THEN drm_hdmi_getTiming(NoTiming, old) ELSE timing
    /\ Goto(t, "selected")
    /\ UNCHANGED <<drmVars, hdcpVars, localVars, modeVars, mVideo, widiVars,
                   listeners, view, threadVars>>

SelectDone(t) ==
    /\ Step(t, "selected")
    /\ Broadcast(mMode)
    /\ Leave(t)
    /\ UNCHANGED <<drmVars, hdcpVars, localVars, modeVars, mVideo, widiVars, listeners, alive>>

registerListener(t, c) ==
    /\ pc[t] = "idle" /\ lock = Free
    /\ c \notin listeners
    /\ listeners' = listeners \cup {c}
    /\ UNCHANGED <<drmVars, hdcpVars, localVars, pc, modeVars, mVideo, widiVars,
                   view, timing, threadVars>>

unregisterListener(t, c) ==
    /\ pc[t] = "idle" /\ lock = Free
    /\ c \in listeners
    /\ listeners' = listeners \ {c}
    /\ view' = [view EXCEPT ![c] = {"?"}]
    /\ UNCHANGED <<drmVars, hdcpVars, localVars, pc, modeVars, mVideo, widiVars,
                   timing, threadVars>>

-----------------------------------------------------------------------------
(* Widi and the MIPI thread: mMipiLock.                                    *)

\* notifyWidi reads mMode ...
WidiRead(t, on) ==
    /\ pc[t] = "idle"
    /\ mipiLock = Free
    /\ mipiLock' = t
    /\ mWidiVideoExt' = on
    /\ seen' = [seen EXCEPT ![t] = mMode]
    /\ Goto(t, "widi")
    /\ UNCHANGED <<drmVars, hdcpVars, localVars, modeVars, mVideo, mMipiReq, mipiReq,
                   clientVars, threadVars>>

\* ... and writes it back.  An operation under mLock that has read mMode for an
\* update of its own overwrites what is written here.
Updating == {"plugread", "plugged", "hdcpoff", "enabled", "show"}
WidiWrite(t) ==
    /\ Step(t, "widi")
    /\ LET new == IF mWidiVideoExt THEN seen[t] \cup {"WIDI_ON"} ELSE seen[t] \ {"WIDI_ON"}
       IN  \/ /\ mMode' = new
              /\ torn' = (torn \/ seen[t] # mMode)
           \/ /\ \E u \in Binder : pc[u] \in Updating
              /\ mMode' = mMode
              /\ torn' = (torn \/ new # mMode)
    /\ mipiLock' = Free
    /\ seen' = [seen EXCEPT ![t] = {}]
    /\ Goto(t, "idle")
    /\ UNCHANGED <<drmVars, hdcpVars, localVars, mMipiPolicy, mHdmiPolicy, mMipiOn, mConnectStatus,
                   mVideo, mWidiVideoExt, mMipiReq, mipiReq, clientVars, threadVars>>

notifyMipi(t, on) ==
    /\ pc[t] = "idle"
    /\ mipiLock = Free
    /\ mMipiReq' = IF on THEN "on" ELSE "off"
    /\ UNCHANGED <<drmVars, hdcpVars, localVars, pc, modeVars, mVideo, mWidiVideoExt, mipiLock,
                   seen, mipiReq, clientVars, threadVars>>

\* threadLoop takes the latest request; waiting ends when there is one.
TakeRequest ==
    /\ Step(Mipi, "idle")
    /\ mipiLock = Free
    /\ mMipiReq # "none"
    /\ mipiReq' = mMipiReq
    /\ mMipiReq' = "none"
    /\ Goto(Mipi, "apply")
    /\ UNCHANGED <<drmVars, hdcpVars, localVars, modeVars, mVideo, mWidiVideoExt, mipiLock,
                   seen, clientVars, threadVars>>

\* The wait has no loop around it: waking up without a request counts as one to
\* turn MIPI off.
SpuriousWakeup ==
    /\ Step(Mipi, "idle")
    /\ mipiLock = Free
    /\ mMipiReq = "none"
    /\ mipiReq' = "off"
    /\ Goto(Mipi, "apply")
    /\ UNCHANGED <<drmVars, hdcpVars, localVars, modeVars, mVideo, mWidiVideoExt, mMipiReq,
                   mipiLock, seen, clientVars, threadVars>>

\* setMipiMode_l.  Off is refused, with a broadcast, when nothing else shows the
\* video, and ignored when the policy forbids it; mMipiOn follows all the same.
setMipiMode_l ==
    /\ Step(Mipi, "apply")
    /\ lock = Free
    /\ LET on == mipiReq = "on"
           refused == ~on /\ ~mWidiVideoExt /\ "HDMI_VIDEO_EXT" \notin mMode
           off == ~on /\ ~refused /\ (mWidiVideoExt \/ mMipiPolicy)
       IN  IF mMipiOn = on
           THEN UNCHANGED <<mMode, panel, mMipiOn, view>>
           ELSE /\ mMode' = CASE on -> mMode \cup {"MIPI_ON"}
                              [] off -> mMode \ {"MIPI_ON"}
                              [] OTHER -> mMode
                /\ panel' = ((panel \/ on) /\ ~off)
                /\ mMipiOn' = IF refused THEN mMipiOn ELSE on
                /\ IF refused THEN Broadcast(mMode) ELSE UNCHANGED view
    /\ mipiReq' = "none"
    /\ Goto(Mipi, "idle")
    /\ UNCHANGED <<cable, drm, audio, hdcpVars, localVars, mMipiPolicy, mHdmiPolicy, mConnectStatus,
                   torn, mVideo, mWidiVideoExt, mMipiReq, mipiLock, seen,
                   listeners, timing, threadVars>>

-----------------------------------------------------------------------------
(* The environment and the specification.                                  *)

Plug(m) ==
    /\ cable = NoMonitor
    /\ cable' = m
    /\ UNCHANGED <<drm, panel, audio, hdcpVars, localVars, pc, modeVars, mVideo, widiVars,
                   clientVars, threadVars>>

Unplug ==
    /\ cable # NoMonitor
    /\ cable' = NoMonitor
    /\ UNCHANGED <<drm, panel, audio, hdcpVars, localVars, pc, modeVars, mVideo, widiVars,
                   clientVars, threadVars>>

composerVars == <<modeVars, mVideo, widiVars, clientVars, threadVars>>

setHdmiMode_l(t) ==
    \/ PlugReset(t) \/ PlugRead(t)
    \/ AlreadyDisconnected(t) \/ Disconnected(t) \/ HdmiNotAllowed(t)
    \/ AlreadyInMode(t) \/ Transition(t) \/ HdcpOff(t) \/ SetTiming(t)
    \/ ModeSet(t) \/ Show(t)
    \/ Goes /\ HdcpStep(t) /\ UNCHANGED composerVars

Service(t) ==
    \/ notifyHotPlug(t) \/ prepareForVideo(t)
    \/ \E v \in VideoInfo \cup {NoTiming} : updateVideoInfo(t, v)
    \/ \E b \in BOOLEAN : SetHdmiPolicy(t, b) \/ SetMipiPolicy(t, b)
    \/ drm.product # NoMonitor /\
         \E m \in drm_hdmi_getModeInfo(Modes[drm.product]) : SelectMode(t, m)
    \/ \E c \in Client : registerListener(t, c) \/ unregisterListener(t, c)

Continue(t) == setHdmiMode_l(t) \/ SelectTiming(t) \/ SelectDone(t)

Notify(t) == \E on \in BOOLEAN : WidiRead(t, on) \/ notifyMipi(t, on)

LinkCheck(c) == CheckLink(c) /\ UNCHANGED composerVars

Environment == Unplug \/ \E m \in Monitor : Plug(m)

\* What begins, once the constructor has ended: calls from clients, link checks,
\* changes of the cable.
Begin ==
    /\ Goes
    /\ calls < MaxCall
    /\ calls = 0 => lock = Free
    /\ calls' = calls + 1
    /\ \/ \E t \in Binder : Service(t)
       \/ \E t \in Notifier : Notify(t)
       \/ \E c \in Checker : LinkCheck(c)
       \/ SpuriousWakeup
       \/ Environment

\* What has begun goes on.
GoOn ==
    /\ \/ \E t \in Binder : Continue(t)
       \/ \E t \in Notifier : WidiWrite(t)
       \/ \E c \in Checker : Goes /\ HdcpStep(c) /\ UNCHANGED composerVars
       \/ \E t, u \in Binder \cup Checker : ConnectorFreed(t, u)
       \/ TakeRequest \/ setMipiMode_l
    /\ UNCHANGED calls

Next == Begin \/ GoOn

Spec == Init /\ [][Next]_vars

-----------------------------------------------------------------------------
(* Properties.                                                             *)

\* Nobody is inside mMode, and no update of it was lost: notifyWidi, which
\* changes mMode without mLock, is the only one to lose any.
Settled == alive /\ lock = Free /\ ~torn

\* When no operation is in progress mMode is true: of the panel, of what the audio
\* driver was told, of the modes, which exclude each other, and of HDCP, whose
\* timer runs only while HDMI is connected.
ModeTrue ==
    Settled =>
        /\ "MIPI_ON" \in mMode <=> panel
        /\ ~panel => ~mMipiOn
        /\ "HDMI_CONNECTED" \in mMode <=> audio
        /\ "HDMI_ON" \in mMode <=> mMode \cap {"HDMI_CLONE", "HDMI_VIDEO_EXT"} # {}
        /\ "HDMI_CLONE" \in mMode => ~Playing
        /\ "HDMI_VIDEO_EXT" \in mMode => Playing /\ "OVERLAY_OFF" \notin mMode
        /\ mMode \cap {"HDMI_ON", "HDCP_ON"} # {} => "HDMI_CONNECTED" \in mMode
        /\ timer => "HDMI_CONNECTED" \in mMode

\* Display encryption, turned off for an authentication, is on again when no
\* thread authenticates, whichever way and on whichever thread it ended.
IedRestored ==
    (\A p \in HdcpThread : pc[p] \notin {"try", "lost", "reread", "iedon"}) => ied

\* When no operation is in progress every listener that was told a mode was told
\* this one, as far as HDMI goes (changes of MIPI and Widi alone are not told).
ListenersToldMode ==
    Settled =>
        \A c \in listeners : view[c] # {"?"} =>
            view[c] \ {"MIPI_ON", "WIDI_ON"} = mMode \ {"MIPI_ON", "WIDI_ON"}

\* A listener never goes from clone to video extended mode, or back, but through
\* the local mode with the overlay off.
ThroughLocalMode ==
    [][\A c \in Client : torn \/ torn' \/
         ~ \/ "HDMI_CLONE" \in view[c] /\ "HDMI_VIDEO_EXT" \in view'[c]
           \/ "HDMI_VIDEO_EXT" \in view[c] /\ "HDMI_CLONE" \in view'[c]]_vars

\* While a monitor is connected HWComposer is told a timing of that monitor.  When
\* the mode changes and the user has selected none, it has the size looked for if
\* the monitor has it, and a multiple of the video's rate if there is one (the rate
\* itself counts when it is 16:9 and progressive).
Fits(m, v, x) ==
    LET M == Modes[m]
        timings == {drm_hdmi_setTiming(M[i]) : i \in DOMAIN M}
        sized == {y \in timings : <<y.w, y.h>> = VideoSize(v)}
        multiples == {y \in sized : v.r # 0 /\ y.r % v.r = 0 /\ (y.r # v.r \/ drm_is_preferred_flags(y))}
    IN  /\ x \in timings
        /\ v # NoTiming /\ sized # {} => x \in sized
        /\ v # NoTiming /\ multiples # {} => x.r % v.r = 0

TimingFits ==
    [][\A t \in Binder :
         pc[t] \in {"timing", "modetiming"} /\ pc'[t] # pc[t] /\ Hwc \in listeners /\ drm.connected =>
            IF drm.modeValid \/ pc[t] = "modetiming"
            THEN timing' \in drm_hdmi_getModeInfo(Modes[drm.conn])
            ELSE Fits(drm.conn, mVideo, timing')]_vars

=============================================================================

--------------------------------- MODULE Hdcp ---------------------------------
(***************************************************************************)
(* drm_hdcp.cpp: authentication of the HDMI link, and the timer that       *)
(* checks it every two seconds on threads of its own, and authenticates    *)
(* again when the link is lost.  Nothing in the file takes a lock: a       *)
(* caller holds the composer's mLock, a link check holds none.             *)
(*                                                                         *)
(* drm_hdcp.cpp is compiled with ENABLE_HDCP only.  Without it enabling    *)
(* succeeds and starts no timer, which is one of the outcomes below.       *)
(***************************************************************************)
EXTENDS DrmHdmi

CONSTANTS
    Caller,   \* the threads that call into this file
    Checker,  \* the threads of the timer
    NumTry    \* HDCP_ENABLE_NUM_OF_TRY

ASSUME HdcpAssumption ==
    /\ Caller \cap Checker = {}
    /\ NumTry \in Nat

VARIABLES
    ied,     \* whether display encryption (IED) is on
    timer,   \* whether g_hdcpStatusCheckTimer is set
    pc,      \* where each thread is
    tries,   \* the tries each thread has made
    result   \* what drm_hdcp_enable_hdcp_work returns to each thread

hdcpVars == <<ied, timer>>
localVars == <<tries, result>>

HdcpThread == Caller \cup Checker

Goto(p, l) == pc' = [pc EXCEPT ![p] = l]

hdcp_init ==
    /\ ied = TRUE
    /\ timer = FALSE
    /\ tries = [p \in HdcpThread |-> 0]
    /\ result = [p \in HdcpThread |-> FALSE]

\* drm_hdcp_enable_hdcp: the property debug.mds.hdcp.enable may forbid it.
EnableSkipped(p) ==
    /\ pc[p] = "enable"
    /\ result' = [result EXCEPT ![p] = FALSE]
    /\ Goto(p, "enabled")
    /\ UNCHANGED <<hdcpVars, tries, drmVars>>

\* drm_hdcp_enable_hdcp_work: IED off, up to NumTry tries, IED on again.
WorkStart(p) ==
    /\ ied' = FALSE
    /\ Goto(p, "try")
    /\ UNCHANGED <<timer, localVars, drmVars>>

Enable(p) == pc[p] = "enable" /\ WorkStart(p)

\* drm_hdcp_enable_and_check, one try: the link is authenticated, or enabled
\* and not authenticated, or cannot be enabled.  What the driver and the monitor
\* answer is up to them: the state of the link is not kept here.
TryAuthenticated(p) ==
    /\ pc[p] = "try" /\ tries[p] < NumTry
    /\ cable # NoMonitor
    /\ result' = [result EXCEPT ![p] = TRUE]
    /\ Goto(p, "iedon")
    /\ UNCHANGED <<hdcpVars, tries, drmVars>>

TryUnanswered(p) ==
    /\ pc[p] = "try" /\ tries[p] < NumTry
    /\ cable # NoMonitor
    /\ tries' = [tries EXCEPT ![p] = @ + 1]
    /\ UNCHANGED <<hdcpVars, pc, result, drmVars>>

TryFails(p) ==
    /\ pc[p] = "try" /\ tries[p] < NumTry
    /\ Goto(p, "lost")
    /\ UNCHANGED <<hdcpVars, localVars, drmVars>>

TriesExhausted(p) ==
    /\ pc[p] = "try" /\ tries[p] = NumTry
    /\ result' = [result EXCEPT ![p] = FALSE]
    /\ Goto(p, "iedon")
    /\ UNCHANGED <<hdcpVars, tries, drmVars>>

\* When it cannot be enabled the connection is looked up, and tries stop with
\* success if there is none.
LostReset(p) ==
    /\ pc[p] = "lost"
    /\ drm' = connectionReset
    /\ Goto(p, "reread")
    /\ UNCHANGED <<hdcpVars, localVars, cable, panel, audio>>

LostRead(p) ==
    /\ pc[p] = "reread"
    /\ \E readable \in BOOLEAN :
         /\ drm' = connectionRead(readable)
         /\ IF connectionStatus(readable) = 0
            THEN /\ result' = [result EXCEPT ![p] = TRUE]
                 /\ Goto(p, "iedon")
                 /\ UNCHANGED tries
            ELSE /\ tries' = [tries EXCEPT ![p] = @ + 1]
                 /\ Goto(p, "try")
                 /\ UNCHANGED result
    /\ UNCHANGED <<hdcpVars, cable, panel, audio>>

\* Mutant: a failed authentication returns before IED is on again.
IedOn_NotAfterFailure(p) ==
    /\ pc[p] = "iedon"
    /\ ied' = (ied \/ result[p])
    /\ tries' = [tries EXCEPT ![p] = 0]
    /\ result' = [result EXCEPT ![p] = @ /\ p \in Caller]
    /\ Goto(p, IF p \in Checker THEN "idle" ELSE "timer")
    /\ UNCHANGED <<timer, drmVars>>

\* IED on, also when no try succeeded; a link check ends here.
IedOn(p) ==
    /\ pc[p] = "iedon"
    /\ ied' = TRUE
    /\ tries' = [tries EXCEPT ![p] = 0]
    /\ result' = [result EXCEPT ![p] = @ /\ p \in Caller]
    /\ Goto(p, IF p \in Checker THEN "idle" ELSE "timer")
    /\ UNCHANGED <<timer, drmVars>>

\* drm_hdcp_start_link_checking, called whatever the result was.  The timer may
\* exist already; creating it, or setting it to -1 seconds, may fail.
StartLinkChecking(p) ==
    /\ pc[p] = "timer"
    /\ timer' \in {timer, TRUE}
    /\ Goto(p, "enabled")
    /\ UNCHANGED <<ied, localVars, drmVars>>

\* drm_hdcp_check_link_status, on a thread of the timer, when the link is not
\* authenticated or its status cannot be read.
CheckLink(c) == timer /\ pc[c] = "idle" /\ WorkStart(c)

\* drm_hdcp_disable_hdcp: what it leaves here; a link check that runs goes on.
drm_hdcp_disable_hdcp ==
    /\ timer' = FALSE
    /\ UNCHANGED ied

HdcpStep(p) ==
    \/ EnableSkipped(p) \/ Enable(p)
    \/ TryAuthenticated(p) \/ TryUnanswered(p) \/ TryFails(p) \/ TriesExhausted(p)
    \/ LostReset(p) \/ LostRead(p) \/ IedOn(p) \/ StartLinkChecking(p)

=============================================================================

----------------------------- MODULE FrameSched -----------------------------
(***************************************************************************)
(* When a terminal's window is redrawn.                                    *)
(*                                                                         *)
(* Nothing is drawn when it changes.  A change sets a "refresh" flag; the  *)
(* event loop's hook, run before the loop waits for events, either renders *)
(* a frame or, while the compositor has not yet asked for the next one (a  *)
(* frame callback is outstanding), moves the flags to "pending" for the    *)
(* callback.  Output of the application is delayed further by two timers,  *)
(* and held back while the application has a synchronized update open.     *)
(*                                                                         *)
(* A window has several layers: the grid, the client-side decorations, the *)
(* search box and the labels of URL mode.  Rendering any of them renders   *)
(* the grid and commits a frame.                                           *)
(***************************************************************************)
EXTENDS Integers, FiniteSets

CONSTANTS
    DelayedRender,  \* tweak.delayed-render-{lower,upper} are not 0
    MaxSyncs        \* bound: synchronized updates the application opens

ASSUME FrameSchedAssumption ==
    /\ DelayedRender \in BOOLEAN
    /\ MaxSyncs \in Nat

Layers == {"grid", "csd", "search", "urls"}

VARIABLES
    sched,          \* what is scheduled, a record (see Scheds)
    callbacks,      \* frame callbacks outstanding (window->frame_callback)
    searching,      \* term->is_searching
    urlMode,        \* urls_mode_is_active(): a snapshot of the grid is shown
    configured,     \* window->is_configured
    shutdown,       \* shutdown.in_progress
    stale,          \* layers with a change no committed frame shows
    unacked,        \* a configure event was acked, with no commit since
    syncs           \* synchronized updates opened so far

vars == <<sched, callbacks, searching, urlMode, configured, shutdown, stale,
          unacked, syncs>>

\* refresh, pending: the flags of render.refresh and render.pending.
\* lower, upper: the delayed render timers are running; isArmed: the flag
\* delayed_render_timer.is_armed.  sync: app_sync_updates.enabled, whose timer
\* runs while it is set, until the terminal shuts down.
Scheds == [refresh : SUBSET Layers, pending : SUBSET Layers,
           lower : BOOLEAN, upper : BOOLEAN, isArmed : BOOLEAN,
           sync : BOOLEAN]

Idle == [refresh |-> {}, pending |-> {}, lower |-> FALSE, upper |-> FALSE,
         isArmed |-> FALSE, sync |-> FALSE]

Init ==
    /\ sched = Idle
    /\ callbacks = 0
    /\ searching = FALSE
    /\ urlMode = FALSE
    /\ configured = FALSE
    /\ shutdown = FALSE
    /\ stale = {}
    /\ unacked = FALSE
    /\ syncs = 0

-----------------------------------------------------------------------------
(* Operations on the schedule *)

\* render_refresh(), render_refresh_csd(), ..._search() and ..._urls().
Refresh(s, layers) == [s EXCEPT !.refresh = @ \cup layers]

\* The grid is the only thing scheduled to be re-rendered.  (URL mode is not
\* looked at.)
OnlyGrid(s) == (s.refresh \cup s.pending) \cap {"csd", "search"} = {}

\* term_enable_app_sync_updates().  Faulty variants: is_armed is left set; the
\* refresh already handed to the frame callback is left there.
EnableSyncKeepFlag(s) ==
    [s EXCEPT !.sync = TRUE,
              !.refresh = IF OnlyGrid(s) THEN @ \ {"grid"} ELSE @,
              !.pending = IF OnlyGrid(s) THEN @ \ {"grid"} ELSE @,
              !.lower = FALSE, !.upper = FALSE]
EnableSyncKeepPending(s) ==
    [s EXCEPT !.sync = TRUE,
              !.refresh = IF OnlyGrid(s) THEN @ \ {"grid"} ELSE @,
              !.lower = FALSE, !.upper = FALSE, !.isArmed = FALSE]
EnableSync(s) ==
    [s EXCEPT !.sync = TRUE,
              !.refresh = IF OnlyGrid(s) THEN @ \ {"grid"} ELSE @,
              !.pending = IF OnlyGrid(s) THEN @ \ {"grid"} ELSE @,
              !.lower = FALSE, !.upper = FALSE, !.isArmed = FALSE]

\* term_disable_app_sync_updates().  Faulty variant: no refresh.
DisableSyncOnly(s) == [s EXCEPT !.sync = FALSE]
DisableSync(s) ==
    IF s.sync THEN Refresh([s EXCEPT !.sync = FALSE], {"grid"}) ELSE s

\* The end of fdm_ptmx(): both timers start, but the upper one only if it is
\* not running already, lest a busy application postpone it for ever.
DelayOutput(s) ==
    IF s.sync THEN s
    ELSE IF ~DelayedRender THEN Refresh(s, {"grid"})
    ELSE [s EXCEPT !.lower = TRUE, !.upper = @ \/ ~s.isArmed, !.isArmed = TRUE]

-----------------------------------------------------------------------------
(* Changes *)

\* fdm_ptmx(): the application's output may change the grid, and may open and
\* close synchronized updates.  In one read only the last of these counts,
\* but for an update that is opened and closed again.
PtmxRead ==
    /\ ~shutdown
    /\ \E changes \in BOOLEAN, op \in {"none", "on", "off", "on_off"} :
        /\ op \in {"on", "on_off"} => syncs < MaxSyncs
        /\ syncs' = IF op \in {"on", "on_off"} THEN syncs + 1 ELSE syncs
        /\ stale' = IF changes /\ ~urlMode THEN stale \cup {"grid"} ELSE stale
        /\ sched' = DelayOutput(CASE op = "none" -> sched
                                  [] op = "on" -> EnableSync(sched)
                                  [] op = "off" -> DisableSync(sched)
                                  [] op = "on_off" ->
                                        DisableSync(EnableSync(sched)))
    /\ UNCHANGED <<callbacks, searching, urlMode, configured, shutdown,
                   unacked>>

Shown(layer) ==
    CASE layer = "search" -> searching
      [] layer = "urls" -> urlMode
      [] OTHER -> TRUE

\* Any other change: the user scrolls or selects, the focus changes, the cursor
\* blinks, a search string is edited, a URL's label is typed...
Change(layer) ==
    /\ ~shutdown
    /\ Shown(layer)
    /\ stale' = stale \cup {layer}
    /\ sched' = Refresh(sched, {layer})
    /\ UNCHANGED <<callbacks, searching, urlMode, configured, shutdown,
                   unacked, syncs>>

\* search_begin(), through search_cancel_keep_selection().
SearchBegin ==
    /\ ~shutdown /\ ~searching /\ ~urlMode
    /\ searching' = TRUE
    /\ stale' = stale \cup {"grid", "search"}
    /\ sched' = Refresh(sched, {"grid", "search"})
    /\ UNCHANGED <<callbacks, urlMode, configured, shutdown, unacked, syncs>>

\* search_cancel_keep_selection(): the search box goes away.
SearchCancel ==
    /\ ~shutdown /\ searching
    /\ searching' = FALSE
    /\ stale' = (stale \ {"search"}) \cup {"grid"}
    /\ sched' = Refresh(sched, {"grid"})
    /\ UNCHANGED <<callbacks, urlMode, configured, shutdown, unacked, syncs>>

\* urls_render(): a snapshot of the grid is shown from now on.
UrlsRender ==
    /\ ~shutdown /\ ~searching /\ ~urlMode
    /\ urlMode' = TRUE
    /\ stale' = stale \cup {"grid", "urls"}
    /\ sched' = Refresh(sched, {"grid", "urls"})
    /\ UNCHANGED <<callbacks, searching, configured, shutdown, unacked, syncs>>

\* urls_reset(): the labels go away and the grid itself, which may have changed
\* meanwhile, is shown again.  Faulty variant: it is not refreshed.
UrlsResetSilently(s) == s
UrlsResetSched(s) == Refresh(s, {"grid"})

UrlsReset ==
    /\ ~shutdown /\ urlMode
    /\ urlMode' = FALSE
    /\ stale' = (stale \ {"urls"}) \cup {"grid"}
    /\ sched' = UrlsResetSched(sched)
    /\ UNCHANGED <<callbacks, searching, configured, shutdown, unacked, syncs>>

\* render_resize(): a synchronized update is cancelled, URL mode ended, and
\* every layer that is shown is refreshed.
ResizeSched(s) ==
    Refresh(DisableSync(s),
            {"grid", "csd"} \cup IF searching THEN {"search"} ELSE {})

Resize ==
    /\ stale' = {"grid", "csd"} \cup IF searching THEN {"search"} ELSE {}
    /\ urlMode' = FALSE
    /\ sched' = ResizeSched(sched)

\* The font, the scale or the cell size changes.
FontChanged ==
    /\ ~shutdown /\ configured
    /\ Resize
    /\ UNCHANGED <<callbacks, searching, configured, shutdown, unacked, syncs>>

\* xdg_surface_configure(): the event is acked.  A new size resizes the window; a
\* change of fullscreen refreshes the grid and one of focus the decorations,
\* which a resize does anyway.  Unless a frame will be committed soon, the
\* surface is committed at once.  Faulty variant: it is
\* always left to the next frame, committed soon or not.
WillRenderSoonAlways(resized) == TRUE
WillRenderSoon(resized) ==
    resized \/ "grid" \in sched'.refresh \/ "grid" \in sched'.pending

XdgSurfaceConfigure ==
    /\ ~shutdown
    /\ configured' = TRUE
    /\ \E resized \in BOOLEAN, layers \in SUBSET {"grid", "csd"} :
        /\ ~configured => resized
        /\ \/ resized /\ Resize
           \/ /\ ~resized
              /\ sched' = Refresh(sched, layers)
              /\ stale' = stale \cup layers
              /\ UNCHANGED urlMode
        /\ unacked' = WillRenderSoon(resized)
    /\ UNCHANGED <<callbacks, searching, shutdown, syncs>>

-----------------------------------------------------------------------------
(* Rendering *)

\* grid_render(), after the other layers in "layers" were rendered: the grid is
\* rendered, a frame callback requested and the surface committed, which
\* commits the other layers' subsurfaces with it.
Commit(layers, outstanding) ==
    /\ callbacks' = outstanding + 1
    /\ stale' = stale \ (layers \cup {"grid"})
    /\ unacked' = FALSE

\* fdm_hook_refresh_pending_terminals() leaves the refresh alone during a
\* synchronized update, if only the grid is to be refreshed.  Faulty variant:
\* it does not.
HookRendersAny(layers) == layers # {}
HookRenders(layers) ==
    /\ layers # {}
    /\ sched.sync => layers # {"grid"}

\* The flags handed to the frame callback are added to those it was handed
\* before.  Faulty variant: they replace them.
HandOverOnly(layers) == layers
HandOver(layers) == sched.pending \cup layers

\* Faulty variant: a frame is rendered although the last callback is not done.
NoFrameOutstandingIgnored == TRUE
NoFrameOutstanding == callbacks = 0

HookRefresh ==
    /\ ~shutdown
    /\ configured
    /\ LET layers == {l \in sched.refresh : Shown(l)} IN
        /\ HookRenders(layers)
        /\ \/ /\ NoFrameOutstanding
              /\ Commit(layers, callbacks)
              /\ sched' = [sched EXCEPT !.refresh = {}]
           \/ /\ ~NoFrameOutstanding
              /\ sched' = [sched EXCEPT !.refresh = {},
                                        !.pending = HandOver(layers)]
              /\ UNCHANGED <<callbacks, stale, unacked>>
    /\ UNCHANGED <<searching, urlMode, configured, shutdown, syncs>>

\* frame_callback(): the compositor asks for the next frame.  A grid whose
\* output is being delayed is left to the timers.
FrameCallback ==
    /\ callbacks > 0
    /\ sched' = [sched EXCEPT !.pending = {}]
    /\ LET layers == {l \in sched.pending : Shown(l)}
           render == layers \ {"grid"} # {} \/ ("grid" \in layers /\ ~sched.isArmed)
       IN  \/ render /\ ~shutdown /\ Commit(layers, callbacks - 1)
           \/ /\ ~render \/ shutdown
              /\ callbacks' = callbacks - 1
              /\ UNCHANGED <<stale, unacked>>
    /\ UNCHANGED <<searching, urlMode, configured, shutdown, syncs>>

\* fdm_delayed_render(): a timer expired, both are reset.
DelayedRenderExpired ==
    sched' = Refresh([sched EXCEPT !.lower = FALSE, !.upper = FALSE,
                                   !.isArmed = FALSE], {"grid"})

LowerTimer ==
    /\ sched.lower
    /\ DelayedRenderExpired
    /\ UNCHANGED <<callbacks, searching, urlMode, configured, shutdown, stale,
                   unacked, syncs>>

UpperTimer ==
    /\ sched.upper
    /\ DelayedRenderExpired
    /\ UNCHANGED <<callbacks, searching, urlMode, configured, shutdown, stale,
                   unacked, syncs>>

\* fdm_app_sync_updates_timeout(): an update was open for a second.
SyncTimeout ==
    /\ ~shutdown /\ sched.sync
    /\ sched' = DisableSync(sched)
    /\ UNCHANGED <<callbacks, searching, urlMode, configured, shutdown, stale,
                   unacked, syncs>>

\* term_shutdown(): the timers are closed, nothing is rendered from now on.
\* Faulty variant: the delayed render timers are not.
TermShutdownArmed ==
    /\ ~shutdown
    /\ shutdown' = TRUE
    /\ UNCHANGED <<sched, callbacks, searching, urlMode, configured, stale, unacked,
                   syncs>>
TermShutdown ==
    /\ ~shutdown
    /\ shutdown' = TRUE
    /\ sched' = [sched EXCEPT !.lower = FALSE, !.upper = FALSE]
    /\ UNCHANGED <<callbacks, searching, urlMode, configured, stale, unacked,
                   syncs>>

-----------------------------------------------------------------------------
Next ==
    \/ PtmxRead
    \/ \E layer \in Layers : Change(layer)
    \/ SearchBegin \/ SearchCancel
    \/ UrlsRender \/ UrlsReset
    \/ FontChanged
    \/ XdgSurfaceConfigure
    \/ HookRefresh
    \/ FrameCallback
    \/ LowerTimer \/ UpperTimer \/ SyncTimeout
    \/ TermShutdown

Spec == Init /\ [][Next]_vars

\* The hook runs in every turn of the event loop; the compositor configures the
\* window once and, as long as the window is visible, completes every frame
\* callback; the timers expire.  Nothing is assumed of the lower timer: every
\* read restarts it, so a busy application may keep it from expiring.
Fairness ==
    /\ WF_vars(XdgSurfaceConfigure /\ ~configured)
    /\ WF_vars(HookRefresh)
    /\ WF_vars(FrameCallback)
    /\ WF_vars(UpperTimer)
    /\ WF_vars(SyncTimeout)

FairSpec == Spec /\ Fairness

-----------------------------------------------------------------------------
(* Properties *)

\* Type correctness, and: a terminal that shuts down has no render timer
\* running, so their handler never sees a terminal whose window is gone.
TypeOK ==
    /\ sched \in Scheds
    /\ callbacks \in Nat
    /\ searching \in BOOLEAN
    /\ urlMode \in BOOLEAN
    /\ configured \in BOOLEAN
    /\ shutdown \in BOOLEAN
    /\ stale \in SUBSET Layers
    /\ unacked \in BOOLEAN
    /\ syncs \in 0 .. MaxSyncs
    /\ shutdown => ~sched.lower /\ ~sched.upper

\* The assertion grid_render() makes before it requests a frame callback: there
\* is none outstanding.
OneFrameOutstanding == callbacks <= 1

\* delayed_render_timer.is_armed says that the upper timer runs (were it left
\* set, the upper timer would never start again and frame_callback() would
\* never render the grid), and the lower timer never runs alone.
ArmedFlagTrue ==
    ~shutdown => /\ sched.isArmed <=> sched.upper
                 /\ sched.lower => sched.upper

\* A layer that the window does not show as it is will be rendered: it is
\* flagged for the hook, or for the callback that is outstanding, or output is
\* being delayed, or a synchronized update is open (and its end refreshes).
\* No frame_callback(), timer, or start of a synchronized update loses it.
NoLostRefresh ==
    \A l \in stale :
        \/ shutdown
        \/ l \in sched.refresh
        \/ l \in sched.pending /\ callbacks > 0
        \/ l = "grid" /\ (sched.upper \/ sched.sync)

\* Timers, callbacks and flags fit together, and no change is forgotten.
FramesScheduled ==
    TypeOK /\ OneFrameOutstanding /\ ArmedFlagTrue /\ NoLostRefresh

\* What an application draws in a synchronized update stays invisible until it
\* ends: a frame is committed during one only when something other than the
\* grid asked for it.
Committed == callbacks' > callbacks \/ (callbacks' = callbacks /\ FrameCallback)
AtomicUpdate ==
    [][Committed /\ sched.sync
        => (sched.refresh \cup sched.pending) \ {"grid"} # {}]_vars

\* Every change is shown in the end.  (In URL mode the snapshot is.)
EventuallyShown ==
    \A l \in Layers : (l \in stale) ~> (l \notin stale \/ shutdown)

\* "Some compositors require a commit in combination with an ack": every
\* configure event that is acked is followed by a commit, even if the refresh
\* it relied on is withdrawn by a synchronized update.
AckCommitted == unacked ~> (~unacked \/ shutdown)

\* The window catches up with the terminal and with the compositor.
WindowCatchesUp == EventuallyShown /\ AckCommitted
=============================================================================

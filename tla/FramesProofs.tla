---------------------------- MODULE FramesProofs ----------------------------
(***************************************************************************)
(* Proofs about FrameSched, for any number of synchronized updates and     *)
(* either setting of the delayed render timers, and about EventLoop, for   *)
(* any number of handlers, descriptors, files and calls of a callback.     *)
(*                                                                         *)
(* NoLostRefresh is not inductive alone.  That the hook and the callback   *)
(* render what they were flagged for needs that a stale search box or URL  *)
(* label is shown (ShownIfStale: they mask the flags of those that are     *)
(* not); that frame_callback() may leave the grid to the timers needs      *)
(* ArmedFlagTrue.  AtomicUpdate needs that flags are pending only while a  *)
(* callback is outstanding, and that during a synchronized update the grid *)
(* is never alone among them.                                              *)
(*                                                                         *)
(* That the handlers of a batch are allocated (BatchAlive) needs to know   *)
(* which handlers are allocated at all: the registered ones and those the  *)
(* batch deleted, which are marked and will be freed after it (Memory).    *)
(* That an event finds its own file needs that a number is never that of   *)
(* two handlers, nor a file that of two numbers (Numbers), and that the    *)
(* handler of an event that is left was either deleted or still has the    *)
(* event's file (EventsFit), though its address could have been used again *)
(* had it been freed.                                                      *)
(***************************************************************************)
EXTENDS FrameSched, EventLoop, WellFoundedInduction, TLAPS

-----------------------------------------------------------------------------
(* FrameSched: what keeps the flags right. *)


ShownIfStale ==
    /\ "search" \in stale => searching
    /\ "urls" \in stale => urlMode

PendingForCallback == sched.pending # {} => callbacks > 0

GridNotAlone ==
    sched.sync /\ "grid" \in sched.pending
        => (sched.refresh \cup sched.pending) \ {"grid"} # {}

\* The inductive invariant.
Inv ==
    /\ TypeOK
    /\ OneFrameOutstanding
    /\ ArmedFlagTrue
    /\ ShownIfStale
    /\ NoLostRefresh
    /\ PendingForCallback
    /\ GridNotAlone

\* What each operation on the schedule leaves in its fields.
LEMMA RefreshResult ==
    ASSUME NEW s \in Scheds, NEW layers \in SUBSET Layers
    PROVE  LET r == Refresh(s, layers) IN
           /\ r \in Scheds
           /\ r.refresh = s.refresh \cup layers /\ r.pending = s.pending
           /\ r.lower = s.lower /\ r.upper = s.upper /\ r.isArmed = s.isArmed
           /\ r.sync = s.sync
BY DEF Refresh, Scheds

\* The start of a synchronized update withdraws a refresh of the grid alone.
LEMMA EnableSyncResult ==
    ASSUME NEW s \in Scheds
    PROVE  LET r == EnableSync(s) IN
           /\ r \in Scheds
           /\ r.refresh = IF OnlyGrid(s) THEN s.refresh \ {"grid"} ELSE s.refresh
           /\ r.pending = IF OnlyGrid(s) THEN s.pending \ {"grid"} ELSE s.pending
           /\ r.lower = FALSE /\ r.upper = FALSE /\ r.isArmed = FALSE
           /\ r.sync = TRUE
BY DEF EnableSync, Scheds

\* Its end refreshes the grid.
LEMMA DisableSyncResult ==
    ASSUME NEW s \in Scheds
    PROVE  LET r == DisableSync(s) IN
           /\ r \in Scheds
           /\ r.refresh = IF s.sync THEN s.refresh \cup {"grid"} ELSE s.refresh
           /\ r.pending = s.pending
           /\ r.lower = s.lower /\ r.upper = s.upper /\ r.isArmed = s.isArmed
           /\ r.sync = FALSE
<1>1. "grid" \in Layers
  BY DEF Layers
<1>. QED  BY <1>1 DEF DisableSync, Refresh, Scheds

\* The output that was read is refreshed at once, or by the timers.
LEMMA DelayOutputResult ==
    ASSUME NEW s \in Scheds
    PROVE  LET r == DelayOutput(s) IN
           /\ r \in Scheds
           /\ s.sync => r = s
           /\ r.pending = s.pending /\ r.sync = s.sync
           /\ s.refresh \subseteq r.refresh
           /\ ~s.sync => "grid" \in r.refresh \/ (r.lower /\ r.isArmed)
           /\ \/ r.lower = s.lower /\ r.upper = s.upper /\ r.isArmed = s.isArmed
              \/ r.lower /\ r.isArmed /\ r.upper = (s.upper \/ ~s.isArmed)
<1>1. "grid" \in Layers
  BY DEF Layers
<1>2. CASE s.sync
  BY <1>2 DEF DelayOutput, Scheds
<1>3. CASE ~s.sync /\ ~DelayedRender
  BY <1>1, <1>3, FrameSchedAssumption DEF DelayOutput, Refresh, Scheds
<1>4. CASE ~s.sync /\ DelayedRender
  BY <1>4, FrameSchedAssumption DEF DelayOutput, Scheds
<1>. QED  BY <1>2, <1>3, <1>4

-----------------------------------------------------------------------------
\* The invariant as a predicate of a schedule s and a set st of stale layers,
\* for the operations that are applied one after another in one action.
Good(s, st) ==
    /\ s \in Scheds
    /\ shutdown => ~s.lower /\ ~s.upper
    /\ ~shutdown => /\ s.isArmed <=> s.upper
                    /\ s.lower => s.upper
    /\ \A l \in st :
        \/ shutdown
        \/ l \in s.refresh
        \/ l \in s.pending /\ callbacks > 0
        \/ l = "grid" /\ (s.upper \/ s.sync)
    /\ s.pending # {} => callbacks > 0
    /\ s.sync /\ "grid" \in s.pending
        => (s.refresh \cup s.pending) \ {"grid"} # {}

\* Good is what the invariant says of the schedule.
LEMMA InvIsGood ==
    Inv <=> /\ TypeOK /\ OneFrameOutstanding /\ ShownIfStale
            /\ Good(sched, stale)
BY DEF Inv, Good, TypeOK, ArmedFlagTrue, NoLostRefresh, PendingForCallback,
       GridNotAlone

\* An action that leaves callbacks and shutdown alone, and keeps the schedule
\* good, keeps the invariant.
LEMMA GoodStep ==
    ASSUME Inv, Good(sched', stale'), UNCHANGED <<callbacks, shutdown>>,
           TypeOK', ShownIfStale'
    PROVE  Inv'
BY DEF Inv, Good, ArmedFlagTrue, NoLostRefresh, PendingForCallback,
       GridNotAlone, OneFrameOutstanding

\* A refresh covers the layers that it makes stale.
LEMMA GoodRefresh ==
    ASSUME NEW s, NEW st \in SUBSET Layers, Good(s, st),
           NEW layers \in SUBSET Layers
    PROVE  Good(Refresh(s, layers), st \cup layers)
BY RefreshResult DEF Good

\* Fewer layers to show are not harder to show.
LEMMA GoodFewer ==
    ASSUME NEW s, NEW st, Good(s, st), NEW fewer \in SUBSET st
    PROVE  Good(s, fewer)
BY DEF Good

\* A synchronized update covers the grid, whose refresh it withdraws.
LEMMA GoodEnableSync ==
    ASSUME NEW s, NEW st, Good(s, st)
    PROVE  Good(EnableSync(s), st)
<1>. DEFINE r == EnableSync(s)
<1>1. /\ r \in Scheds
      /\ r.refresh = IF OnlyGrid(s) THEN s.refresh \ {"grid"} ELSE s.refresh
      /\ r.pending = IF OnlyGrid(s) THEN s.pending \ {"grid"} ELSE s.pending
      /\ r.lower = FALSE /\ r.upper = FALSE /\ r.isArmed = FALSE
      /\ r.sync = TRUE
  BY EnableSyncResult DEF Good
<1>. HIDE DEF r
<1>2. r.pending # {} => callbacks > 0
  BY <1>1 DEF Good
<1>3. ~OnlyGrid(s) => (r.refresh \cup r.pending) \ {"grid"} # {}
  <2>. SUFFICES ASSUME ~OnlyGrid(s) PROVE (r.refresh \cup r.pending) \ {"grid"} # {}
    OBVIOUS
  <2>1. PICK l \in {"csd", "search"} : l \in s.refresh \cup s.pending
    BY DEF OnlyGrid
  <2>. QED  BY <1>1, <2>1
<1>4. \A l \in st :
        \/ shutdown
        \/ l \in r.refresh
        \/ l \in r.pending /\ callbacks > 0
        \/ l = "grid" /\ (r.upper \/ r.sync)
  BY <1>1 DEF Good
<1>5. Good(r, st)
  BY <1>1, <1>2, <1>3, <1>4 DEF Good
<1>. QED  BY <1>5 DEF r

\* Its end hands the grid over to a refresh.
LEMMA GoodDisableSync ==
    ASSUME NEW s, NEW st, Good(s, st)
    PROVE  Good(DisableSync(s), st)
BY DisableSyncResult DEF Good

\* The end of fdm_ptmx() covers what the application drew.
LEMMA GoodDelayOutput ==
    ASSUME NEW s, NEW st, Good(s, st), ~shutdown
    PROVE  Good(DelayOutput(s), st \cup {"grid"})
<1>. DEFINE r == DelayOutput(s)
<1>1. /\ r \in Scheds
      /\ s.sync => r = s
      /\ r.pending = s.pending /\ r.sync = s.sync
      /\ s.refresh \subseteq r.refresh
      /\ ~s.sync => "grid" \in r.refresh \/ (r.lower /\ r.isArmed)
      /\ \/ r.lower = s.lower /\ r.upper = s.upper /\ r.isArmed = s.isArmed
         \/ r.lower /\ r.isArmed /\ r.upper = (s.upper \/ ~s.isArmed)
  BY DelayOutputResult DEF Good
<1>. HIDE DEF r
<1>2. /\ r.isArmed <=> r.upper
      /\ r.lower => r.upper
  BY <1>1 DEF Good
<1>3. \A l \in st \cup {"grid"} :
        \/ shutdown
        \/ l \in r.refresh
        \/ l \in r.pending /\ callbacks > 0
        \/ l = "grid" /\ (r.upper \/ r.sync)
  BY <1>1, <1>2 DEF Good
<1>4. Good(r, st \cup {"grid"})
  BY <1>1, <1>2, <1>3 DEF Good
<1>. QED  BY <1>4 DEF r

-----------------------------------------------------------------------------
\* The invariant holds initially.
LEMMA InitInv == Init => Inv
<1>1. Idle \in Scheds /\ Idle.pending = {} /\ ~Idle.lower /\ ~Idle.upper
      /\ ~Idle.isArmed
  BY DEF Idle, Scheds
<1>2. Init => TypeOK
  <2>. SUFFICES ASSUME Init PROVE TypeOK
    OBVIOUS
  <2>1. sched \in Scheds /\ ~sched.lower /\ ~sched.upper
    BY <1>1 DEF Init
  <2>2. syncs \in 0 .. MaxSyncs /\ callbacks \in Nat
    BY FrameSchedAssumption DEF Init
  <2>3. /\ searching \in BOOLEAN /\ urlMode \in BOOLEAN /\ configured \in BOOLEAN
        /\ shutdown \in BOOLEAN /\ unacked \in BOOLEAN /\ stale \in SUBSET Layers
    BY DEF Init
  <2>. QED  BY <2>1, <2>2, <2>3 DEF TypeOK
<1>. QED
  BY <1>1, <1>2 DEF Init, Inv, OneFrameOutstanding, ArmedFlagTrue,
                    ShownIfStale, NoLostRefresh, PendingForCallback, GridNotAlone

\* fdm_ptmx() keeps the invariant.
LEMMA PtmxReadInv == ASSUME Inv, PtmxRead PROVE Inv'
<1>. DEFINE s(op) == CASE op = "none" -> sched
                       [] op = "on" -> EnableSync(sched)
                       [] op = "off" -> DisableSync(sched)
                       [] op = "on_off" -> DisableSync(EnableSync(sched))
<1>1. PICK changes \in BOOLEAN, op \in {"none", "on", "off", "on_off"} :
        /\ op \in {"on", "on_off"} => syncs < MaxSyncs
        /\ syncs' = IF op \in {"on", "on_off"} THEN syncs + 1 ELSE syncs
        /\ stale' = IF changes /\ ~urlMode THEN stale \cup {"grid"} ELSE stale
        /\ sched' = DelayOutput(s(op))
  BY DEF PtmxRead
<1>2. /\ UNCHANGED <<callbacks, searching, urlMode, configured, shutdown, unacked>>
      /\ ~shutdown
  BY DEF PtmxRead
<1>3. Good(s(op), stale)
  BY InvIsGood, GoodEnableSync, GoodDisableSync
<1>. HIDE DEF s
<1>4. Good(sched', stale \cup {"grid"})
  BY <1>1, <1>2, <1>3, GoodDelayOutput
<1>5. stale' \in SUBSET (stale \cup {"grid"})
  BY <1>1
<1>6. Good(sched', stale')
  BY <1>4, <1>5, GoodFewer
<1>7. syncs' \in 0 .. MaxSyncs
  BY <1>1, FrameSchedAssumption DEF Inv, TypeOK
<1>8. TypeOK'
  BY <1>2, <1>5, <1>6, <1>7 DEF Inv, TypeOK, Good, Layers
<1>9. ShownIfStale'
  BY <1>2, <1>5 DEF Inv, ShownIfStale
<1>. QED  BY <1>2, <1>6, <1>8, <1>9, GoodStep

\* The actions that refresh some layers and make no other layer stale.
LEMMA RefreshInv ==
    ASSUME Inv, NEW layers \in SUBSET Layers,
           sched' = Refresh(sched, layers),
           stale' \subseteq stale \cup layers,
           searching' \in BOOLEAN, urlMode' \in BOOLEAN,
           configured' \in BOOLEAN, unacked' \in BOOLEAN,
           ShownIfStale',
           UNCHANGED <<callbacks, shutdown, syncs>>
    PROVE  Inv'
<1>1. Good(sched', stale \cup layers)
  BY InvIsGood, GoodRefresh DEF TypeOK
<1>2. Good(sched', stale')
  BY <1>1, GoodFewer
<1>3. TypeOK'
  BY <1>2 DEF Inv, TypeOK, Good
<1>. QED  BY <1>2, <1>3, GoodStep

\* Any other change keeps the invariant.
LEMMA ChangeInv == ASSUME Inv, NEW layer \in Layers, Change(layer) PROVE Inv'
<1>1. /\ sched' = Refresh(sched, {layer}) /\ stale' = stale \cup {layer}
      /\ UNCHANGED <<callbacks, searching, urlMode, configured, shutdown,
                     unacked, syncs>>
  BY DEF Change
<1>2. ShownIfStale'
  BY DEF Change, Shown, Inv, ShownIfStale
<1>. QED  BY <1>1, <1>2, RefreshInv DEF Inv, TypeOK

\* The modes keep the invariant: a layer that goes away is no longer stale.
LEMMA ModesInv ==
    ASSUME Inv, SearchBegin \/ SearchCancel \/ UrlsRender \/ UrlsReset
    PROVE  Inv'
<1>. USE DEF Inv, TypeOK, ShownIfStale
<1>1. CASE SearchBegin
  <2>1. {"grid", "search"} \in SUBSET Layers
    BY DEF Layers
  <2>. QED  BY <1>1, <2>1, RefreshInv DEF SearchBegin
<1>2. CASE SearchCancel
  <2>1. {"grid"} \in SUBSET Layers
    BY DEF Layers
  <2>. QED  BY <1>2, <2>1, RefreshInv DEF SearchCancel
<1>3. CASE UrlsRender
  <2>1. {"grid", "urls"} \in SUBSET Layers
    BY DEF Layers
  <2>. QED  BY <1>3, <2>1, RefreshInv DEF UrlsRender
<1>4. CASE UrlsReset
  <2>1. {"grid"} \in SUBSET Layers
    BY DEF Layers
  <2>. QED  BY <1>4, <2>1, RefreshInv DEF UrlsReset, UrlsResetSched
<1>. QED  BY <1>1, <1>2, <1>3, <1>4

\* render_resize() keeps the invariant, whatever was stale before.
LEMMA ResizeInv ==
    ASSUME Inv, Resize, configured' \in BOOLEAN, unacked' \in BOOLEAN,
           UNCHANGED <<callbacks, searching, shutdown, syncs>>
    PROVE  Inv'
<1>. DEFINE layers == {"grid", "csd"} \cup IF searching THEN {"search"} ELSE {}
<1>1. sched' = Refresh(DisableSync(sched), layers) /\ stale' = layers
      /\ urlMode' = FALSE
  BY DEF Resize, ResizeSched
<1>2. layers \in SUBSET Layers
  BY DEF Layers
<1>3. Good(DisableSync(sched), stale) /\ stale \in SUBSET Layers
  BY InvIsGood, GoodDisableSync DEF TypeOK
<1>4. Good(sched', stale \cup layers)
  BY <1>1, <1>2, <1>3, GoodRefresh
<1>5. Good(sched', stale')
  BY <1>1, <1>4, GoodFewer
<1>6. TypeOK'
  BY <1>1, <1>2, <1>5 DEF Inv, TypeOK, Good
<1>7. ShownIfStale'
  BY <1>1 DEF ShownIfStale
<1>. QED  BY <1>5, <1>6, <1>7, GoodStep

\* A configure event keeps the invariant.
LEMMA XdgSurfaceConfigureInv ==
    ASSUME Inv, XdgSurfaceConfigure
    PROVE  Inv'
<1>1. PICK resized \in BOOLEAN, layers \in SUBSET {"grid", "csd"} :
        /\ \/ resized /\ Resize
           \/ /\ sched' = Refresh(sched, layers)
              /\ stale' = stale \cup layers
              /\ UNCHANGED urlMode
        /\ unacked' = WillRenderSoon(resized)
  BY DEF XdgSurfaceConfigure
<1>2. /\ configured' = TRUE /\ UNCHANGED <<callbacks, searching, shutdown, syncs>>
      /\ unacked' \in BOOLEAN
  BY <1>1 DEF XdgSurfaceConfigure, WillRenderSoon
<1>3. CASE resized /\ Resize
  BY <1>2, <1>3, ResizeInv
<1>4. CASE /\ sched' = Refresh(sched, layers)
           /\ stale' = stale \cup layers
           /\ UNCHANGED urlMode
  <2>1. layers \in SUBSET Layers
    BY DEF Layers
  <2>2. ShownIfStale'
    BY <1>2, <1>4 DEF Inv, ShownIfStale
  <2>. QED  BY <1>2, <1>4, <2>1, <2>2, RefreshInv DEF Inv, TypeOK
<1>. QED  BY <1>1, <1>3, <1>4

\* The hook renders, or hands over, every layer that was flagged and is shown.
LEMMA HookRefreshInv == ASSUME Inv, HookRefresh PROVE Inv'
<1>. DEFINE layers == {l \in sched.refresh : Shown(l)}
<1>0. /\ sched \in Scheds /\ sched.refresh \in SUBSET Layers
      /\ HookRenders(layers)
      /\ UNCHANGED <<searching, urlMode, configured, shutdown, syncs>>
  BY DEF HookRefresh, Inv, TypeOK, Scheds
<1>1. \A l \in stale : l \in sched.refresh => l \in layers
  <2>. SUFFICES ASSUME NEW l \in stale, l \in sched.refresh PROVE Shown(l)
    OBVIOUS
  <2>. QED  BY DEF Shown, Inv, ShownIfStale
<1>2. layers \subseteq sched.refresh
  OBVIOUS
<1>3. CASE /\ NoFrameOutstanding
           /\ Commit(layers, callbacks)
           /\ sched' = [sched EXCEPT !.refresh = {}]
  <2>1. callbacks' = 1 /\ stale' = stale \ (layers \cup {"grid"})
        /\ unacked' = FALSE
    BY <1>3 DEF Commit, NoFrameOutstanding
  <2>2. /\ sched' \in Scheds /\ sched'.refresh = {}
        /\ sched'.pending = sched.pending /\ sched'.sync = sched.sync
        /\ sched'.lower = sched.lower /\ sched'.upper = sched.upper
        /\ sched'.isArmed = sched.isArmed
    BY <1>0, <1>3 DEF Scheds
  <2>3. sched.pending = {}
    BY <1>3 DEF Inv, PendingForCallback, NoFrameOutstanding
  <2>4. TypeOK' /\ OneFrameOutstanding' /\ ArmedFlagTrue'
    <3>1. TypeOK'
      BY <1>0, <1>3, <2>1, <2>2 DEF Inv, TypeOK
    <3>2. OneFrameOutstanding'
      BY <2>1 DEF OneFrameOutstanding
    <3>3. ArmedFlagTrue'
      BY <1>0, <2>2 DEF Inv, ArmedFlagTrue
    <3>. QED  BY <3>1, <3>2, <3>3
  <2>5. ShownIfStale'
    BY <1>0, <2>1 DEF Inv, ShownIfStale
  <2>6. NoLostRefresh'
    <3>. SUFFICES ASSUME NEW l \in stale' PROVE shutdown'
      BY DEF NoLostRefresh
    <3>1. l \in stale /\ l \notin layers /\ l # "grid"
      BY <2>1
    <3>. QED  BY <1>0, <1>1, <2>3, <3>1 DEF Inv, NoLostRefresh
  <2>7. PendingForCallback' /\ GridNotAlone'
    BY <2>2, <2>3 DEF PendingForCallback, GridNotAlone
  <2>. QED  BY <2>4, <2>5, <2>6, <2>7 DEF Inv
<1>4. CASE /\ ~NoFrameOutstanding
           /\ sched' = [sched EXCEPT !.refresh = {}, !.pending = HandOver(layers)]
           /\ UNCHANGED <<callbacks, stale, unacked>>
  <2>1. HandOver(layers) \in SUBSET Layers
    BY <1>0, <1>2 DEF HandOver, Scheds
  <2>2. /\ sched' \in Scheds /\ sched'.refresh = {}
        /\ sched'.pending = sched.pending \cup layers
        /\ sched'.sync = sched.sync
        /\ sched'.lower = sched.lower /\ sched'.upper = sched.upper
        /\ sched'.isArmed = sched.isArmed
    BY <1>0, <1>4, <2>1 DEF Scheds, HandOver
  <2>3. callbacks > 0
    BY <1>4 DEF NoFrameOutstanding, Inv, TypeOK
  <2>4. Good(sched', stale)
    <3>1. \A l \in stale :
            \/ shutdown
            \/ l \in sched'.pending /\ callbacks > 0
            \/ l = "grid" /\ (sched'.upper \/ sched'.sync)
      BY <1>1, <2>2, <2>3 DEF Inv, NoLostRefresh
    <3>2. sched.sync => layers \ {"grid"} # {}
      BY <1>0 DEF HookRenders
    <3>. QED  BY <2>2, <2>3, <3>1, <3>2 DEF Good, Inv, TypeOK, ArmedFlagTrue
  <2>5. TypeOK' /\ ShownIfStale'
    BY <1>0, <1>4, <2>2 DEF Inv, TypeOK, ShownIfStale
  <2>. QED  BY <1>0, <1>4, <2>4, <2>5, GoodStep
<1>. QED  BY <1>3, <1>4 DEF HookRefresh

\* frame_callback() renders what is pending, or leaves the grid to the timers.
LEMMA FrameCallbackInv == ASSUME Inv, FrameCallback PROVE Inv'
<1>. DEFINE layers == {l \in sched.pending : Shown(l)}
            render == \/ layers \ {"grid"} # {}
                      \/ "grid" \in layers /\ ~sched.isArmed
<1>0. /\ sched \in Scheds /\ callbacks = 1
      /\ UNCHANGED <<searching, urlMode, configured, shutdown, syncs>>
  BY DEF FrameCallback, Inv, TypeOK, OneFrameOutstanding
<1>1. /\ sched' \in Scheds /\ sched'.pending = {}
      /\ sched'.refresh = sched.refresh /\ sched'.sync = sched.sync
      /\ sched'.lower = sched.lower /\ sched'.upper = sched.upper
      /\ sched'.isArmed = sched.isArmed
  BY <1>0 DEF FrameCallback, Scheds
<1>2. \A l \in stale : l \in sched.pending => l \in layers
  <2>. SUFFICES ASSUME NEW l \in stale, l \in sched.pending PROVE Shown(l)
    OBVIOUS
  <2>. QED  BY DEF Shown, Inv, ShownIfStale
<1>3. ArmedFlagTrue' /\ PendingForCallback' /\ GridNotAlone'
  BY <1>0, <1>1 DEF Inv, ArmedFlagTrue, PendingForCallback, GridNotAlone
<1>4. CASE render /\ ~shutdown /\ Commit(layers, callbacks - 1)
  <2>1. callbacks' = 1 /\ stale' = stale \ (layers \cup {"grid"})
        /\ unacked' = FALSE
    BY <1>0, <1>4 DEF Commit
  <2>2. TypeOK' /\ OneFrameOutstanding' /\ ShownIfStale'
    BY <1>0, <1>1, <2>1 DEF Inv, TypeOK, OneFrameOutstanding, ShownIfStale
  <2>3. NoLostRefresh'
    BY <1>0, <1>1, <1>2, <2>1 DEF Inv, NoLostRefresh
  <2>. QED  BY <1>3, <2>2, <2>3 DEF Inv
<1>5. CASE (~render \/ shutdown) /\ callbacks' = callbacks - 1
           /\ UNCHANGED <<stale, unacked>>
  <2>1. TypeOK' /\ OneFrameOutstanding' /\ ShownIfStale'
    BY <1>0, <1>1, <1>5 DEF Inv, TypeOK, OneFrameOutstanding, ShownIfStale
  <2>2. NoLostRefresh'
    <3>. SUFFICES ASSUME NEW l \in stale, ~shutdown
                  PROVE  \/ l \in sched.refresh
                         \/ l = "grid" /\ (sched.upper \/ sched.sync)
      BY <1>0, <1>1, <1>5 DEF NoLostRefresh
    <3>1. CASE l \in layers
      BY <1>5, <3>1 DEF Inv, ArmedFlagTrue
    <3>2. CASE l \notin layers
      BY <1>2, <3>2 DEF Inv, NoLostRefresh
    <3>. QED  BY <3>1, <3>2
  <2>. QED  BY <1>3, <2>1, <2>2 DEF Inv
<1>. QED  BY <1>4, <1>5 DEF FrameCallback

\* The delayed render timers refresh the grid they no longer cover.
LEMMA TimersInv ==
    ASSUME Inv, LowerTimer \/ UpperTimer
    PROVE  Inv'
<1>. DEFINE r == [sched EXCEPT !.lower = FALSE, !.upper = FALSE, !.isArmed = FALSE]
<1>1. sched' = Refresh(r, {"grid"}) /\ sched \in Scheds
      /\ UNCHANGED <<callbacks, searching, urlMode, configured, shutdown, stale,
                     unacked, syncs>>
  BY DEF LowerTimer, UpperTimer, DelayedRenderExpired, Inv, TypeOK
<1>2. /\ r \in Scheds /\ r.refresh = sched.refresh /\ r.pending = sched.pending
      /\ r.sync = sched.sync /\ r.lower = FALSE /\ r.upper = FALSE
      /\ r.isArmed = FALSE
  BY <1>1 DEF Scheds
<1>. HIDE DEF r
<1>3. {"grid"} \in SUBSET Layers
  BY DEF Layers
<1>4. /\ sched' \in Scheds /\ sched'.refresh = sched.refresh \cup {"grid"}
      /\ sched'.pending = sched.pending /\ sched'.sync = sched.sync
      /\ sched'.lower = FALSE /\ sched'.upper = FALSE /\ sched'.isArmed = FALSE
  BY <1>1, <1>2, <1>3, RefreshResult
<1>5. Good(sched', stale)
  BY <1>4 DEF Good, Inv, NoLostRefresh, PendingForCallback, GridNotAlone
<1>6. TypeOK' /\ ShownIfStale'
  BY <1>1, <1>4 DEF Inv, TypeOK, ShownIfStale
<1>. QED  BY <1>1, <1>5, <1>6, GoodStep

\* So does the timeout of a synchronized update.
LEMMA SyncTimeoutInv == ASSUME Inv, SyncTimeout PROVE Inv'
<1>1. sched' = DisableSync(sched)
      /\ UNCHANGED <<callbacks, searching, urlMode, configured, shutdown, stale,
                     unacked, syncs>>
  BY DEF SyncTimeout
<1>2. Good(sched', stale)
  BY <1>1, InvIsGood, GoodDisableSync
<1>3. TypeOK' /\ ShownIfStale'
  BY <1>1, <1>2 DEF Inv, TypeOK, ShownIfStale, Good
<1>. QED  BY <1>1, <1>2, <1>3, GoodStep

\* Nothing is left to be shown once the terminal shuts down.
LEMMA TermShutdownInv == ASSUME Inv, TermShutdown PROVE Inv'
<1>1. /\ sched' \in Scheds /\ sched'.pending = sched.pending
      /\ sched'.refresh = sched.refresh /\ sched'.sync = sched.sync
      /\ sched'.lower = FALSE /\ sched'.upper = FALSE /\ shutdown' = TRUE
      /\ UNCHANGED <<callbacks, searching, urlMode, configured, stale, unacked,
                     syncs>>
  BY DEF TermShutdown, Inv, TypeOK, Scheds
<1>. QED
  BY <1>1 DEF Inv, TypeOK, OneFrameOutstanding, ArmedFlagTrue, ShownIfStale,
              NoLostRefresh, PendingForCallback, GridNotAlone

\* Every step keeps the invariant.
LEMMA NextInv == Inv /\ [Next]_vars => Inv'
<1>. SUFFICES ASSUME Inv, [Next]_vars PROVE Inv'
  OBVIOUS
<1>1. CASE PtmxRead
  BY <1>1, PtmxReadInv
<1>2. ASSUME NEW layer \in Layers, Change(layer) PROVE Inv'
  BY <1>2, ChangeInv
<1>3. CASE SearchBegin \/ SearchCancel \/ UrlsRender \/ UrlsReset
  BY <1>3, ModesInv
<1>4. CASE FontChanged
  BY <1>4, ResizeInv DEF FontChanged, Inv, TypeOK
<1>5. CASE XdgSurfaceConfigure
  BY <1>5, XdgSurfaceConfigureInv
<1>6. CASE HookRefresh
  BY <1>6, HookRefreshInv
<1>7. CASE FrameCallback
  BY <1>7, FrameCallbackInv
<1>8. CASE LowerTimer \/ UpperTimer
  BY <1>8, TimersInv
<1>9. CASE SyncTimeout
  BY <1>9, SyncTimeoutInv
<1>10. CASE TermShutdown
  BY <1>10, TermShutdownInv
<1>11. CASE UNCHANGED vars
  BY <1>11 DEF vars, Inv, TypeOK, OneFrameOutstanding, ArmedFlagTrue,
               ShownIfStale, NoLostRefresh, PendingForCallback, GridNotAlone
<1>. QED
  BY <1>1, <1>2, <1>3, <1>4, <1>5, <1>6, <1>7, <1>8, <1>9, <1>10, <1>11 DEF Next

\* The inductive invariant holds.
THEOREM InvHolds == Spec => []Inv
BY InitInv, NextInv, PTL DEF Spec

\* The variables keep their types.
THEOREM TypeCorrect == Spec => []TypeOK
<1>1. Inv => TypeOK
  BY DEF Inv
<1>. QED  BY <1>1, InvHolds, PTL

\* grid_render()'s assertion never fails: a frame is rendered only when no
\* frame callback is outstanding.
THEOREM FramesDoNotPileUp == Spec => []OneFrameOutstanding
<1>1. Inv => OneFrameOutstanding
  BY DEF Inv
<1>. QED  BY <1>1, InvHolds, PTL

\* No change to the window's contents is forgotten.
THEOREM RefreshNeverLost == Spec => []NoLostRefresh
<1>1. Inv => NoLostRefresh
  BY DEF Inv
<1>. QED  BY <1>1, InvHolds, PTL

\* is_armed tells the truth about the upper timer.
THEOREM ArmedFlagIsTrue == Spec => []ArmedFlagTrue
<1>1. Inv => ArmedFlagTrue
  BY DEF Inv
<1>. QED  BY <1>1, InvHolds, PTL

\* All that the schedule promises of one state: no frame is outstanding where
\* one is rendered, is_armed tells of its timer, no change is lost.
THEOREM SchedulesFrames == Spec => []FramesScheduled
<1>1. Inv => FramesScheduled
  BY DEF Inv, FramesScheduled
<1>. QED  BY <1>1, InvHolds, PTL

\* The step AtomicUpdate allows.
AtomicStep ==
    Committed /\ sched.sync
        => (sched.refresh \cup sched.pending) \ {"grid"} # {}

\* During a synchronized update no frame is committed for the grid alone.
THEOREM UpdatesAreAtomic == Spec => AtomicUpdate
<1>1. Inv /\ [Next]_vars => [AtomicStep]_vars
  <2>. SUFFICES ASSUME Inv, Next, Committed, sched.sync
                PROVE  (sched.refresh \cup sched.pending) \ {"grid"} # {}
    BY DEF AtomicStep
  <2>0. callbacks \in Nat
    BY DEF Inv, TypeOK
  <2>1. HookRefresh \/ FrameCallback
    <3>1. callbacks' # callbacks \/ FrameCallback
      BY <2>0 DEF Committed
    <3>2. CASE callbacks' # callbacks
      <4>1. ~PtmxRead /\ ~(\E layer \in Layers : Change(layer))
        BY <3>2 DEF PtmxRead, Change
      <4>2. ~SearchBegin /\ ~SearchCancel /\ ~UrlsRender /\ ~UrlsReset
        BY <3>2 DEF SearchBegin, SearchCancel, UrlsRender, UrlsReset
      <4>3. ~FontChanged /\ ~XdgSurfaceConfigure
        BY <3>2 DEF FontChanged, XdgSurfaceConfigure
      <4>4. ~LowerTimer /\ ~UpperTimer /\ ~SyncTimeout /\ ~TermShutdown
        BY <3>2 DEF LowerTimer, UpperTimer, SyncTimeout, TermShutdown
      <4>. QED  BY <4>1, <4>2, <4>3, <4>4 DEF Next
    <3>. QED  BY <3>1, <3>2
  <2>2. CASE HookRefresh
    BY <2>2 DEF HookRefresh, HookRenders
  <2>3. CASE FrameCallback
    <3>. DEFINE layers == {l \in sched.pending : Shown(l)}
    <3>1. callbacks' = callbacks
      BY <2>0, <2>3 DEF Committed, FrameCallback, Commit
    <3>2. layers \ {"grid"} # {} \/ "grid" \in layers
      <4>1. callbacks - 1 # callbacks
        BY <2>0
      <4>. QED  BY <2>3, <3>1, <4>1 DEF FrameCallback
    <3>3. CASE layers \ {"grid"} # {}
      BY <3>3
    <3>4. CASE "grid" \in layers
      BY <3>4 DEF Inv, GridNotAlone
    <3>. QED  BY <3>2, <3>3, <3>4
  <2>. QED  BY <2>1, <2>2, <2>3
<1>. QED  BY <1>1, InvHolds, PTL DEF Spec, AtomicUpdate, AtomicStep

-----------------------------------------------------------------------------
(* EventLoop: what keeps handlers and descriptors right. *)


LoopTypeOK ==
    /\ pc \in {"hooks", "wait", "signals", "dispatch", "failed", "ended"}
    /\ fds \subseteq Handlers
    /\ fdOf \in [Handlers -> Fds \cup {0}]
    /\ file \in [Fds -> Nat]
    /\ opened \in Nat
    /\ batch \subseteq Events /\ current \subseteq Events
    /\ is_polling \in BOOLEAN
    /\ is_polling <=> pc \in {"dispatch", "failed"}

\* Handlers are registered, or marked and to be freed after the batch.
Memory ==
    /\ allocated = fds \cup deferred
    /\ deferred \subseteq deleted
    /\ fds \cap deleted = {}
    /\ ~is_polling => deferred = {} /\ batch = {} /\ current = {}

\* Numbers are those of open files, each of one handler; files have one number.
Numbers ==
    /\ \A h \in fds : fdOf[h] \in Fds /\ file[fdOf[h]] # 0
    /\ \A g, h \in fds : fdOf[g] = fdOf[h] => g = h
    /\ \A n \in Fds : file[n] <= opened
    /\ \A m, n \in Fds : file[m] # 0 /\ file[m] = file[n] => m = n

\* An event's handler is allocated; if it is registered, it has the event's file.
EventsFit ==
    \A e \in batch \cup current :
        /\ e.handler \in fds \cup deferred
        /\ e.handler \in fds => file[fdOf[e.handler]] = e.file

LoopInv == LoopTypeOK /\ Memory /\ Numbers /\ EventsFit

-----------------------------------------------------------------------------
(* open() *)

\* The lowest free number exists, and is free.
LEMMA LowestIsFree ==
    ASSUME Free # {}
    PROVE  Lowest(Free) \in Free
<1>1. Free \subseteq Nat
  BY EventLoopAssumption DEF Free
<1>. DEFINE R == OpToRel(<, Nat)
<1>2. \A m, n \in Nat : m < n => <<m, n>> \in R
  BY DEF OpToRel
<1>3. IsWellFoundedOn(R, Nat)
  BY NatLessThanWellFounded
<1>. HIDE DEF R
<1>4. PICK n \in Free : \A m \in Free : ~(<<m, n>> \in R)
  BY <1>1, <1>3, WFMin
<1>5. ASSUME NEW m \in Free PROVE n <= m
  <2>1. m \in Nat /\ n \in Nat
    BY <1>1
  <2>2. ~(m < n)
    BY <1>2, <1>4, <2>1
  <2>. QED  BY <2>1, <2>2
<1>. QED  BY <1>5 DEF Lowest

-----------------------------------------------------------------------------
(* Each action keeps the invariant *)

\* A handler that is registered has an address that no event left points to, and
\* a number that no other handler has.
LEMMA FdmAddInv ==
    ASSUME LoopInv, NEW h \in Handlers, FdmAdd(h)
    PROVE  LoopInv'
<1>. DEFINE n == Lowest(Free)
<1>. USE DEF LoopInv
<1>1. n \in Fds /\ file[n] = 0
  BY LowestIsFree DEF FdmAdd, Free
<1>2. h \notin fds /\ h \notin deferred
  BY DEF FdmAdd, Memory
<1>3. /\ fdOf'[h] = n /\ file'[n] = opened + 1
      /\ \A g \in Handlers \ {h} : fdOf'[g] = fdOf[g]
      /\ \A m \in Fds \ {n} : file'[m] = file[m]
  BY <1>1 DEF FdmAdd, LoopTypeOK
<1>4. \A g \in fds : fdOf'[g] = fdOf[g] /\ fdOf[g] # n /\ file'[fdOf[g]] = file[fdOf[g]]
  BY <1>1, <1>2, <1>3 DEF LoopTypeOK, Numbers
<1>5. LoopTypeOK'
  BY <1>1 DEF FdmAdd, LoopTypeOK
<1>6. Memory'
  BY <1>2 DEF FdmAdd, Memory
<1>7. Numbers'
  <2>1. \A g \in fds' : fdOf'[g] \in Fds /\ file'[fdOf'[g]] # 0
    BY <1>1, <1>3, <1>4 DEF FdmAdd, Numbers, LoopTypeOK
  <2>2. \A f, g \in fds' : fdOf'[f] = fdOf'[g] => f = g
    BY <1>3, <1>4 DEF FdmAdd, Numbers
  <2>3. \A m \in Fds : file'[m] <= opened'
    BY <1>1, <1>3 DEF FdmAdd, Numbers, LoopTypeOK
  <2>4. \A l, m \in Fds : file'[l] # 0 /\ file'[l] = file'[m] => l = m
    BY <1>1, <1>3 DEF Numbers, LoopTypeOK
  <2>. QED  BY <2>1, <2>2, <2>3, <2>4 DEF Numbers
<1>8. EventsFit'
  BY <1>2, <1>4 DEF FdmAdd, EventsFit
<1>. QED  BY <1>5, <1>6, <1>7, <1>8

\* A handler that is deleted during a batch keeps its memory; the events it
\* still has will find it marked.
LEMMA FdmDelInv ==
    ASSUME LoopInv, NEW h \in Handlers, FdmDel(h)
    PROVE  LoopInv'
<1>. USE DEF LoopInv
<1>1. h \in fds /\ fdOf[h] \in Fds
  BY DEF FdmDel, Numbers
<1>2. \A g \in fds \ {h} : fdOf[g] # fdOf[h] /\ file'[fdOf[g]] = file[fdOf[g]]
  BY <1>1 DEF FdmDel, Numbers, LoopTypeOK
<1>3. \A m \in Fds : file'[m] = IF m = fdOf[h] THEN 0 ELSE file[m]
  BY <1>1 DEF FdmDel, LoopTypeOK
<1>4. LoopTypeOK'
  BY DEF FdmDel, LoopTypeOK
<1>5. Memory'
  <2>1. CASE is_polling
    BY <1>1, <2>1 DEF FdmDel, Released, Memory
  <2>2. CASE ~is_polling
    BY <1>1, <2>2 DEF FdmDel, Released, Memory
  <2>. QED  BY <2>1, <2>2
<1>6. Numbers'
  BY <1>1, <1>2, <1>3 DEF FdmDel, Numbers, LoopTypeOK
<1>7. EventsFit'
  <2>1. CASE is_polling
    BY <1>1, <1>2, <2>1 DEF FdmDel, Released, EventsFit
  <2>2. CASE ~is_polling
    BY <2>2 DEF FdmDel, EventsFit, Memory
  <2>. QED  BY <2>1, <2>2
<1>. QED  BY <1>4, <1>5, <1>6, <1>7

\* The events of a batch have registered handlers and their files.
LEMMA WaitEventsInv == ASSUME LoopInv, WaitEvents PROVE LoopInv'
<1>. USE DEF LoopInv
<1>1. batch' \subseteq {e \in Events : e.handler \in fds /\ e.file \in ready
                                          /\ file[fdOf[e.handler]] = e.file}
  BY DEF WaitEvents, Reports
<1>2. ~is_polling /\ current = {}
  BY DEF WaitEvents, LoopTypeOK, Memory
<1>3. LoopTypeOK'
  BY <1>1 DEF WaitEvents, LoopTypeOK, kernelVars
<1>4. Memory'
  BY DEF WaitEvents, Memory, LoopTypeOK
<1>5. Numbers'
  BY DEF WaitEvents, Numbers, kernelVars
<1>6. EventsFit'
  BY <1>1, <1>2 DEF WaitEvents, EventsFit, kernelVars
<1>. QED  BY <1>3, <1>4, <1>5, <1>6

\* Frees what was deleted, when no event is left.
LEMMA BatchDoneInv == ASSUME LoopInv, BatchDone PROVE LoopInv'
<1>. USE DEF LoopInv
<1>1. LoopTypeOK'
  BY DEF BatchDone, LoopTypeOK, kernelVars
<1>2. Memory'
  <2>1. fds \cap deferred = {}
    BY DEF Memory
  <2>2. allocated' = fds
    BY <2>1 DEF BatchDone, AfterBatch, Memory
  <2>. QED  BY <2>2 DEF BatchDone, Memory
<1>3. Numbers'
  BY DEF BatchDone, Numbers, kernelVars
<1>4. EventsFit'
  BY DEF BatchDone, EventsFit
<1>. QED  BY <1>1, <1>2, <1>3, <1>4

\* The steps of fdm_poll() that touch no handler, and what happens outside.
LEMMA OthersInv ==
    ASSUME LoopInv,
           \/ HooksDone \/ WaitSignals \/ FdmAddFails \/ Leave
           \/ \E ok \in BOOLEAN : SignalHandled(ok) \/ Returned(ok)
           \/ \E e \in Events : Dispatch(e)
           \/ \E n \in Fds : BecomesReady(n)
           \/ UNCHANGED loopVars
    PROVE  LoopInv'
<1>. USE DEF LoopInv
<1>1. CASE HooksDone \/ WaitSignals \/ Leave \/ UNCHANGED loopVars
  BY <1>1 DEF HooksDone, WaitSignals, Leave, loopVars, kernelVars, LoopTypeOK,
              Memory, Numbers, EventsFit
<1>2. CASE FdmAddFails
  BY <1>2 DEF FdmAddFails, LoopTypeOK, Memory, Numbers, EventsFit
<1>3. ASSUME NEW ok \in BOOLEAN, SignalHandled(ok) PROVE LoopInv'
  BY <1>3 DEF SignalHandled, kernelVars, LoopTypeOK, Memory, Numbers, EventsFit
<1>4. ASSUME NEW ok \in BOOLEAN, Returned(ok) PROVE LoopInv'
  BY <1>4 DEF Returned, LoopTypeOK, Memory, Numbers, EventsFit
<1>5. ASSUME NEW e \in Events, Dispatch(e) PROVE LoopInv'
  BY <1>5 DEF Dispatch, kernelVars, LoopTypeOK, Memory, Numbers, EventsFit
<1>6. ASSUME NEW n \in Fds, BecomesReady(n) PROVE LoopInv'
  BY <1>6 DEF BecomesReady, LoopTypeOK, Memory, Numbers, EventsFit
<1>. QED  BY <1>1, <1>2, <1>3, <1>4, <1>5, <1>6

\* Nothing is registered at first.
LEMMA LoopInitInv == LoopInit => LoopInv
<1>. SUFFICES ASSUME LoopInit PROVE LoopInv
  OBVIOUS
<1>1. LoopTypeOK /\ Memory /\ EventsFit
  BY DEF LoopInit, LoopTypeOK, Memory, EventsFit
<1>2. Numbers
  BY DEF LoopInit, Numbers
<1>. QED  BY <1>1, <1>2 DEF LoopInv

LEMMA LoopNextInv == LoopInv /\ [LoopNext]_loopVars => LoopInv'
BY FdmAddInv, FdmDelInv, WaitEventsInv, BatchDoneInv, OthersInv
   DEF LoopNext, Poll, Calls

-----------------------------------------------------------------------------
(* The theorems *)

\* The inductive invariant holds.
THEOREM LoopInvHolds == LoopSpec => []LoopInv
BY LoopInitInv, LoopNextInv, PTL DEF LoopSpec

\* No event of a batch points to a handler that was freed, and between two
\* batches what is allocated is what is registered.
THEOREM HandlersAreKept == LoopSpec => []HandlersKept
<1>1. LoopInv => HandlersKept
  BY DEF LoopInv, Memory, EventsFit, HandlersKept, BatchAlive, NoHandlerLeaks
<1>. QED  BY <1>1, LoopInvHolds, PTL

\* A callback is called for a registered handler, because of its own file.
THEOREM CalledForItsFile == LoopSpec => RightFile
<1>. DEFINE Right == \A e \in Events : e \in current' /\ e \notin current =>
                        e.handler \in fds /\ file[fdOf[e.handler]] = e.file
<1>1. LoopInv /\ [LoopNext]_loopVars => Right
  <2>. SUFFICES ASSUME LoopInv, [LoopNext]_loopVars,
                       NEW e \in Events, e \in current', e \notin current
                PROVE  e.handler \in fds /\ file[fdOf[e.handler]] = e.file
    OBVIOUS
  <2>1. Dispatch(e)
    BY DEF LoopNext, Poll, Calls, loopVars, HooksDone, WaitEvents, BatchDone,
           Dispatch, SignalHandled, Returned, WaitSignals, FdmAddFails, FdmAdd,
           FdmDel, Leave, BecomesReady
  <2>2. e \in batch /\ e.handler \notin deleted
    BY <2>1 DEF Dispatch, Skipped
  <2>. QED  BY <2>2 DEF LoopInv, Memory, EventsFit
<1>2. LoopInv /\ [LoopNext]_loopVars => [Right]_loopVars
  BY <1>1
<1>. QED  BY <1>2, LoopInvHolds, PTL DEF LoopSpec, RightFile
=============================================================================

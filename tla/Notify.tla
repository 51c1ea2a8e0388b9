------------------------------- MODULE Notify -------------------------------
(***************************************************************************)
(* Desktop notifications (osc.c, notify.c): the application sends one in   *)
(* chunks (OSC 99); a helper process shows it, prints the daemon's id for  *)
(* it and then what the user did, line by line, in pieces; when the helper *)
(* is reaped the application gets the reports it has asked for.  A newer   *)
(* notification with the same id replaces the older one, whose helper goes *)
(* on running.                                                             *)
(***************************************************************************)
EXTENDS Integers, FiniteSets, SequencesExt

CONSTANTS
    AppIds, NoId,   \* the application's ids; a notification without
    Icons, NoIcon,  \* ids in the cache of icons; a free slot
    CacheSize,      \* slots, 32 in the code
    MaxMessages,    \* bound: OSC 99 strings (and one helper that fails to start)
    MaxHelpers      \* bound: notifications shown

ASSUME NotifyAssumption ==
    /\ NoId \notin AppIds /\ NoIcon \notin Icons
    /\ CacheSize \in Nat \ {0} /\ MaxMessages \in Nat /\ MaxHelpers \in Nat

VARIABLES
    chunk,      \* term->kitty_notification
    active,     \* term->active_notifications
    helper,     \* the processes, in the order they were started
    fds,        \* for each descriptor, the helper whose output it has; 0: closed
    icons,      \* term->notification_icons: the slots
    past,       \* history: messages; icons added; signals to no helper
    failed      \* history: a helper could not be started

notifyVars == <<chunk, active, helper, fds, icons, past, failed>>

Fds == 1 .. MaxHelpers + 1
Number(n) == [kind |-> "number", n |-> n]
Default == [kind |-> "default", n |-> 0]

(* What notify_free() leaves: "may_be_programatically_closed" (begun) is   *)
(* false.                                                                  *)
NoChunk == [begun |-> FALSE, id |-> NoId, report |-> FALSE, closed |-> FALSE,
          texts |-> <<>>, buttons |-> 0, icon |-> NoIcon, data |-> FALSE]

NoSlot == [id |-> NoIcon, version |-> 0]

NotifyInit ==
    /\ chunk = NoChunk
    /\ active = <<>>
    /\ helper = <<>>
    /\ fds = [fd \in Fds |-> 0]
    /\ icons = [i \in 1 .. CacheSize |-> NoSlot]
    /\ past = [messages |-> 0, added |-> <<>>, strays |-> 0]
    /\ failed = FALSE

-----------------------------------------------------------------------------
Messages ==
    [id : AppIds \cup {NoId}, kind : {"text"}, ask : {"", "report", "closed"},
     done : BOOLEAN, icon : {NoIcon}]
    \cup [id : AppIds, kind : {"button"}, ask : {""}, done : {FALSE}, icon : {NoIcon}]
    \cup [id : AppIds, kind : {"close"}, ask : {""}, done : {TRUE}, icon : {NoIcon}]
    \cup [id : {NoId}, kind : {"icon"}, ask : {""}, done : BOOLEAN, icon : Icons]

(* kitty_notification(): a chunk with another id, or the first one, begins *)
(* a notification; what a later one does not say stays.                    *)
Continues(m) == chunk.begun /\ chunk.id = m.id

Chunked(m) ==
    LET n == IF Continues(m) THEN chunk
             ELSE [NoChunk EXCEPT !.begun = TRUE, !.id = m.id]
    IN  [n EXCEPT !.report = @ \/ m.ask = "report",
                  !.closed = @ \/ m.ask = "closed",
                  !.texts = IF m.kind = "text" THEN Append(@, m.id) ELSE @,
                  !.buttons = IF m.kind = "button" THEN @ + 1 ELSE @,
                  !.icon = IF m.icon = NoIcon THEN @ ELSE m.icon,
                  !.data = @ \/ m.kind = "icon"]

(* notify_icon_del(), notify_icon_add(): a new version of the icon takes   *)
(* the first free slot, or the place of the first entry.                   *)
WithoutIcon(slots, i) ==
    [s \in DOMAIN slots |-> IF slots[s].id = i THEN NoSlot ELSE slots[s]]

Added(slots, i, version) ==
    LET free == {s \in DOMAIN slots : slots[s].id = NoIcon}
        new  == [id |-> i, version |-> version]
    IN  IF free # {} THEN [slots EXCEPT ![Min(free)] = new]
        ELSE [s \in DOMAIN slots |-> IF s < CacheSize THEN slots[s + 1] ELSE new]

Caches(n) == n.icon # NoIcon /\ n.data

-----------------------------------------------------------------------------
(* The running notifications with the same id whose external id is known:  *)
(* the new one replaces the last of them, and they report nothing.         *)
Replaced(n) ==
    {k \in DOMAIN active : /\ n.id # NoId
                           /\ active[k].id = n.id
                           /\ active[k].external # 0}

Quiet(n) ==
    [k \in DOMAIN active |->
        IF k \in Replaced(n) THEN [active[k] EXCEPT !.report = FALSE, !.closed = FALSE]
        ELSE active[k]]

(* The descriptor pipe2() returns. *)
Lowest == Min({fd \in Fds : fds[fd] = 0})

Shown(n, pid) ==
    [id |-> n.id, external |-> 0, report |-> n.report, closed |-> n.closed,
     pid |-> pid, fd |-> Lowest, rest |-> <<>>, buttons |-> n.buttons,
     activated |-> FALSE, button |-> 0]

(* notify_notify(): a helper is started, which may fail: the entry stays,  *)
(* without a process and with the descriptor of the pipe that was closed.  *)
(* A helper is told the id it replaces, and prints that one.               *)
Process(n) ==
    [pid |-> Len(helper) + 1,
     prints |-> IF Replaced(n) = {} THEN Len(helper) + 1
                ELSE active[Max(Replaced(n))].external,
     id |-> n.id, report |-> n.report, closed |-> n.closed, buttons |-> n.buttons,
     state |-> "running", pipe |-> <<>>, said |-> <<>>,
     (* history: the ids of the chunks shown; the reports it has led to *)
     texts |-> n.texts, replaced |-> FALSE, lost |-> FALSE, reports |-> <<>>]

Notify(n) ==
    \/ /\ Len(helper) < MaxHelpers
       /\ helper' = Append(
            [p \in DOMAIN helper |->
                [helper[p] EXCEPT !.replaced = @ \/ \E k \in Replaced(n) : active[k].pid = p]],
            Process(n))
       /\ fds' = [fds EXCEPT ![Lowest] = Len(helper) + 1]
       /\ active' = Append(Quiet(n), Shown(n, Len(helper) + 1))
       /\ UNCHANGED failed
    \/ /\ ~failed
       /\ active' = Append(Quiet(n), Shown(n, -1))
       /\ failed' = TRUE
       /\ UNCHANGED <<helper, fds>>

(* notify_close(): the first one with the id gets SIGINT, no matter if it  *)
(* has a process.                                                          *)
ToClose(n) == {k \in DOMAIN active : n.id # NoId /\ active[k].id = n.id}
StrayInterrupts(n) == IF ToClose(n) # {} /\ active[Min(ToClose(n))].pid = -1 THEN 1 ELSE 0

Message ==
    /\ past.messages < MaxMessages
    /\ \E m \in Messages :
        LET n      == Chunked(m)
            caches == m.done /\ Caches(n)
        IN  /\ chunk' = IF m.done THEN NoChunk ELSE n
            /\ icons' = IF caches
                        THEN Added(WithoutIcon(icons, n.icon), n.icon, Len(past.added) + 1)
                        ELSE icons
            /\ past' = [messages |-> past.messages + 1,
                        added |-> IF caches THEN Append(past.added, n.icon) ELSE past.added,
                        strays |-> past.strays + IF m.kind = "close" THEN StrayInterrupts(n) ELSE 0]
            /\ \/ m.done /\ m.kind # "close" /\ n.texts # <<>> /\ Notify(n)
               \/ UNCHANGED <<active, helper, fds, failed>>  \* or inhibited by the focus

-----------------------------------------------------------------------------
(* The helper prints lines; the first one is the id, in one piece or two.  *)
WithinLine(h) == h.said # <<>> /\ ~Last(h.said).ends

NextLines(h) ==
    IF h.said = <<>> THEN {Number(h.prints)}
    ELSE IF WithinLine(h) THEN {Last(h.said).line}
    ELSE IF \E i \in DOMAIN h.said : h.said[i].line # h.said[1].line THEN {}
    ELSE {Default} \cup {Number(b) : b \in (1 .. h.buttons) \ {h.prints}}

PrintsLine(p) ==
    /\ helper[p].state = "running"
    /\ \E line \in NextLines(helper[p]),
          ends \in IF helper[p].said = <<>> THEN BOOLEAN ELSE {TRUE} :
        /\ LET piece == [line |-> line, ends |-> ends]
           IN  helper' = [helper EXCEPT ![p].pipe = Append(@, piece),
                                        ![p].said = Append(@, piece)]
    /\ UNCHANGED <<chunk, active, fds, icons, past, failed>>

Exits(p) ==
    /\ helper[p].state = "running"
    /\ ~WithinLine(helper[p])
    /\ helper' = [helper EXCEPT ![p].state = "exited"]
    /\ UNCHANGED <<chunk, active, fds, icons, past, failed>>

(* consume_stdout(): whole lines; what is after the last one waits. *)
Line(e, line) ==
    CASE line.kind = "number" /\ e.external = 0 ->
            [e EXCEPT !.external = line.n]
      [] line.kind = "number" /\ e.external # 0 /\ line.n \in 1 .. e.buttons ->
            [e EXCEPT !.activated = TRUE, !.button = line.n]
      [] line.kind = "default" -> [e EXCEPT !.activated = TRUE]
      [] OTHER -> e

(* Faulty variant: every read is taken for whole lines. *)
ConsumedPieces(e, pieces) ==
    FoldLeft(LAMBDA entry, piece : Line(entry, piece.line), e, pieces)

ReadPiece(e, piece) ==
    IF piece.ends THEN [Line(e, piece.line) EXCEPT !.rest = <<>>]
    ELSE [e EXCEPT !.rest = Append(@, piece)]

Consumed(e, pieces) ==
    LET after[k \in 0 .. Len(pieces)] ==
            IF k = 0 THEN e ELSE ReadPiece(after[k - 1], pieces[k])
    IN  after[Len(pieces)]

(* fdm_notify_stdout(): to the first entry with the descriptor. *)
ReadBy(e, h) ==
    LET read == Consumed(e, h.pipe)
    IN  IF h.state = "running" THEN read ELSE [read EXCEPT !.fd = -1]

ReadOutput(fd) ==
    /\ fds[fd] # 0
    /\ LET h    == helper[fds[fd]]
           for  == {k \in DOMAIN active : active[k].fd = fd}
           hup  == h.state # "running"
       IN  /\ h.pipe # <<>> \/ hup
           /\ helper' = [helper EXCEPT ![fds[fd]].pipe = <<>>]
           /\ active' = IF for = {} THEN active
                        ELSE [active EXCEPT ![Min(for)] = ReadBy(@, h)]
           /\ fds' = IF hup THEN [fds EXCEPT ![fd] = 0] ELSE fds
    /\ UNCHANGED <<chunk, icons, past, failed>>

(* notify_free() of an entry with a process closes the descriptor. *)
Closes(e) == {fd \in Fds : e.pid > 0 /\ e.fd = fd}

Reports(e) ==
    (IF e.activated /\ e.report
     THEN <<[kind |-> "activated", id |-> e.id, button |-> e.button]>> ELSE <<>>)
    \o (IF e.closed THEN <<[kind |-> "closed", id |-> e.id, button |-> 0]>> ELSE <<>>)

(* notif_done(), called by the reaper, which may get to the process before *)
(* its last output is read.                                                *)
Reap(p) ==
    /\ helper[p].state = "exited"
    /\ LET of == {k \in DOMAIN active : active[k].pid = p}
       IN  /\ helper' = [helper EXCEPT
                    ![p].state = "reaped",
                    ![p].lost = @ \/ helper[p].pipe # <<>>,
                    ![p].pipe = <<>>,
                    ![p].reports = IF of = {} THEN <<>> ELSE Reports(active[Min(of)])]
           /\ active' = IF of = {} THEN active ELSE RemoveAt(active, Min(of))
           /\ fds' = [fd \in Fds |->
                        IF of # {} /\ fd \in Closes(active[Min(of)]) THEN 0 ELSE fds[fd]]
    /\ UNCHANGED <<chunk, icons, past, failed>>

(* term_reset(), of everything. *)
Reset ==
    /\ active # <<>> \/ chunk.begun
    /\ chunk' = NoChunk
    /\ active' = <<>>
    /\ helper' = [p \in DOMAIN helper |->
                    [helper[p] EXCEPT !.lost = @ \/ helper[p].state # "reaped"]]
    /\ fds' = [fd \in Fds |->
                IF \E k \in DOMAIN active : fd \in Closes(active[k]) THEN 0 ELSE fds[fd]]
    /\ icons' = [i \in 1 .. CacheSize |-> NoSlot]
    /\ past' = [past EXCEPT !.added = <<>>]
    /\ UNCHANGED failed

NotifyNext ==
    \/ Message
    \/ \E p \in DOMAIN helper : PrintsLine(p) \/ Exits(p) \/ Reap(p)
    \/ \E fd \in Fds : ReadOutput(fd)
    \/ Reset

NotifySpec == NotifyInit /\ [][NotifyNext]_notifyVars

-----------------------------------------------------------------------------
Did(h) == {i \in DOMAIN h.said : h.said[i].ends /\ h.said[i].line # h.said[1].line}

(* The reports the application has asked for in the chunks. *)
Due(h) ==
    IF h.replaced THEN <<>>
    ELSE (IF h.report /\ Did(h) # {}
          THEN <<[kind |-> "activated", id |-> h.id,
                  button |-> h.said[Max(Did(h))].line.n]>> ELSE <<>>)
         \o (IF h.closed THEN <<[kind |-> "closed", id |-> h.id, button |-> 0]>> ELSE <<>>)

(* Whatever helpers print in pieces, and in whichever order they exit, are *)
(* read and reaped: a notification has the chunks with its own id only,    *)
(* and when its helper is gone the application gets exactly what it has    *)
(* asked for and the user did, once, for the newest notification of that   *)
(* id, as long as every helper could be started and nothing was reaped     *)
(* before it was read; each running helper has a descriptor of its own;    *)
(* the cache has the latest version of an icon, once (notify.c:107, 237,   *)
(* 400; osc.c:944, 1071).                                                  *)
ReportsDue ==
    /\ \A p \in DOMAIN helper :
        LET h == helper[p]
        IN  /\ \A i \in DOMAIN h.texts : h.texts[i] = h.id
            /\ h.state # "reaped" => h.reports = <<>>
            /\ ~failed /\ h.state = "reaped" /\ ~h.lost => h.reports = Due(h)
    /\ ~failed => \A j, k \in DOMAIN active :
                    j # k /\ active[j].fd # -1 => active[j].fd # active[k].fd
    /\ \A i, j \in DOMAIN icons :
        icons[i].id # NoIcon =>
            /\ icons[i].id = icons[j].id => i = j
            /\ icons[i].version = Max({v \in DOMAIN past.added : past.added[v] = icons[i].id})
    /\ Cardinality(ToSet(past.added)) <= CacheSize =>
            \A v \in DOMAIN past.added : \E i \in DOMAIN icons : icons[i].id = past.added[v]

=============================================================================

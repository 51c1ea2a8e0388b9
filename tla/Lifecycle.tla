------------------------------ MODULE Lifecycle ------------------------------
(***************************************************************************)
(* The terminals of a "foot --server" process, from a client's request to  *)
(* the end of the application that runs in the terminal.                   *)
(*                                                                         *)
(* A terminal ends when its application terminates or its window is        *)
(* closed, and each has to bring about the other.  The window is destroyed *)
(* in a later turn of the event loop, through an event descriptor that     *)
(* term_shutdown() posts; the application is sent SIGHUP, and a timer      *)
(* sends it SIGTERM and SIGKILL if it does not terminate.  The application *)
(* is a child process, reaped when SIGCHLD arrives.                        *)
(*                                                                         *)
(* A footclient stays connected for as long as its terminal lives, and is  *)
(* then sent the application's exit status, unless it was started with     *)
(* --no-wait.  A terminal and its instance (server.c) are one here.        *)
(***************************************************************************)
EXTENDS Integers, FiniteSets

CONSTANTS
    Terms,          \* terminals
    Clients,        \* footclient processes
    Allowed,        \* what may happen, of Incidents
    None

Incidents == {"hangup",     \* a footclient dies
              "sigusr",     \* SIGUSR1 or SIGUSR2 is sent to a footclient
              "global",     \* ... or to the server
              "exit"}       \* the server is told to exit

ASSUME LifecycleAssumption ==
    /\ Allowed \subseteq Incidents
    /\ None \notin Terms

VARIABLES
    term,           \* the terminals, records (see Terminals)
    client,         \* the server's side of the connections (see Connections)
    code,           \* what a footclient was sent: "none", "status", "error"
    terminals,      \* server->terminals: instances without a client
    theme,          \* server->conf->initial_color_theme
    server          \* "up", "exited", or why it crashed

vars == <<term, client, code, terminals, theme, server>>

Themes == {"dark", "light"}

\* posted: the shutdown event descriptor is registered with the event loop, and
\* child: the application with the reaper, both with a pointer to the terminal.
\* timer: the next signal of the terminate timer, if it is registered.
Terminals == [life : {"none", "alive", "freed"},
              hold : BOOLEAN,               \* conf->hold_at_exit
              window : BOOLEAN,             \* window != NULL
              inProgress : BOOLEAN,         \* shutdown.in_progress
              terminated : BOOLEAN,         \* shutdown.client_has_terminated
              posted : BOOLEAN,
              timer : {"none", "SIGTERM", "SIGKILL", "disarmed"},
              child : BOOLEAN,
              app : {"none", "running", "killed", "zombie", "reaped"},
              theme : Themes]

Connections == [life : {"none", "open", "freed"},
                fd : BOOLEAN,               \* fd != -1
                term : Terms \cup {None}]   \* instance

NoTerminal == [life |-> "none", hold |-> FALSE, window |-> FALSE,
               inProgress |-> FALSE, terminated |-> FALSE, posted |-> FALSE,
               timer |-> "none", child |-> FALSE, app |-> "none",
               theme |-> "dark"]

Init ==
    /\ term = [t \in Terms |-> NoTerminal]
    /\ client = [c \in Clients |-> [life |-> "none", fd |-> FALSE, term |-> None]]
    /\ code = [c \in Clients |-> "none"]
    /\ terminals = {}
    /\ theme = "dark"
    /\ server = "up"

-----------------------------------------------------------------------------
(* What the functions of terminal.c do to a terminal *)

\* term_destroy(): if the application is still running it is signalled, and
\* waited for.  Faulty variants: the terminate timer is left running; the
\* application is left to the reaper.
TermDestroyTimer(r) ==
    [r EXCEPT !.life = "freed", !.window = FALSE, !.child = FALSE,
              !.app = "reaped"]
TermDestroyChild(r) ==
    [r EXCEPT !.life = "freed", !.window = FALSE, !.timer = "none",
              !.app = "reaped"]
TermDestroy(r) ==
    [r EXCEPT !.life = "freed", !.window = FALSE, !.timer = "none",
              !.child = FALSE, !.app = "reaped"]

\* shutdown_maybe_done().  Faulty variant: it looks at the window only.
MaybeDoneWindow(r) == IF ~r.window THEN TermDestroy(r) ELSE r
ShutdownMaybeDone(r) == IF ~r.window /\ r.terminated THEN TermDestroy(r) ELSE r

\* term_shutdown(): the second call does nothing.  Faulty variant: it does.
TermShutdownAgain(r) ==
    [r EXCEPT !.timer = IF r.terminated THEN "none" ELSE "SIGTERM",
              !.posted = TRUE]
TermShutdown(r) ==
    IF r.inProgress THEN r
    ELSE [r EXCEPT !.inProgress = TRUE,
                   !.timer = IF r.terminated THEN "none" ELSE "SIGTERM",
                   !.posted = TRUE]

\* fdm_client_terminated().
ClientTerminated(r) ==
    LET s == [r EXCEPT !.terminated = TRUE, !.timer = "none"]
    IN  IF r.inProgress THEN ShutdownMaybeDone(s)
        ELSE IF r.hold THEN s
        ELSE TermShutdown(s)

\* fdm_reap(): the callback is removed before it is called.
Reaped(r) == ClientTerminated([r EXCEPT !.app = "reaped", !.child = FALSE])

-----------------------------------------------------------------------------
(* What the functions of server.c do to the instances and connections *)

Attached(t) == {c \in Clients : client[c].life = "open" /\ client[c].term = t}

Freed(new) == {t \in Terms : new[t].life = "freed" /\ term[t].life # "freed"}

\* term_shutdown_handler(), for all terminals that ended: the instance is
\* destroyed, the client is sent the exit status and disconnected.
\* Faulty variant: the client is disconnected before the status is sent.
EndSilently(new) ==
    LET ended == UNION {Attached(t) : t \in Freed(new)} IN
    /\ term' = new
    /\ client' = [c \in Clients |->
          IF c \in ended THEN [life |-> "freed", fd |-> FALSE, term |-> None]
          ELSE client[c]]
    /\ UNCHANGED code
    /\ terminals' = terminals \ Freed(new)
End(new) ==
    LET ended == UNION {Attached(t) : t \in Freed(new)} IN
    /\ term' = new
    /\ client' = [c \in Clients |->
          IF c \in ended THEN [life |-> "freed", fd |-> FALSE, term |-> None]
          ELSE client[c]]
    /\ code' = [c \in Clients |->
          IF c \in ended /\ client[c].fd THEN "status" ELSE code[c]]
    /\ terminals' = terminals \ Freed(new)

-----------------------------------------------------------------------------
(* The applications and the windows *)

\* The application exits, by itself or on some signal.
AppExits(t) ==
    /\ server = "up"
    /\ term[t].app \in {"running", "killed"}
    /\ term' = [term EXCEPT ![t].app = "zombie"]
    /\ UNCHANGED <<client, code, terminals, theme, server>>

\* fdm_reap(), on SIGCHLD: every child that has exited is reaped.
FdmReap ==
    /\ server = "up"
    /\ \E t \in Terms : term[t].app = "zombie"
    /\ End([t \in Terms |-> IF term[t].app = "zombie" THEN Reaped(term[t])
                            ELSE term[t]])
    /\ UNCHANGED <<theme, server>>

\* xdg_toplevel_close(), or the "quit" key binding.
WindowClosed(t) ==
    /\ server = "up"
    /\ term[t].life = "alive" /\ term[t].window
    /\ term' = [term EXCEPT ![t] = TermShutdown(@)]
    /\ UNCHANGED <<client, code, terminals, theme, server>>

\* fdm_shutdown().  Called with a terminal that is freed, it crashes.
FdmShutdown(t) ==
    /\ server = "up"
    /\ term[t].posted
    /\ \/ /\ term[t].life = "alive"
          /\ End([term EXCEPT ![t] =
                ShutdownMaybeDone([@ EXCEPT !.posted = FALSE, !.window = FALSE])])
          /\ UNCHANGED server
       \/ /\ term[t].life = "freed"
          /\ server' = "use after free"
          /\ UNCHANGED <<term, client, code, terminals>>
    /\ UNCHANGED theme

\* fdm_terminate_timeout(): after SIGKILL the application cannot but exit.
\* Faulty variant: SIGTERM is sent over and over.
NextSignalSame(signal) == signal
NextSignal(signal) == IF signal = "SIGTERM" THEN "SIGKILL" ELSE "disarmed"

FdmTerminateTimeout(t) ==
    /\ server = "up"
    /\ term[t].timer \in {"SIGTERM", "SIGKILL"}
    /\ term' = [term EXCEPT
          ![t].timer = NextSignal(@),
          ![t].app = IF @ = "running" /\ term[t].timer = "SIGKILL" THEN "killed"
                     ELSE @]
    /\ UNCHANGED <<client, code, terminals, theme, server>>

-----------------------------------------------------------------------------
(* The clients *)

\* fdm_server(): a footclient connects.
ClientConnects(c) ==
    /\ server = "up"
    /\ client[c].life = "none"
    /\ client' = [client EXCEPT ![c] = [life |-> "open", fd |-> TRUE, term |-> None]]
    /\ UNCHANGED <<term, code, terminals, theme, server>>

Disconnected == [life |-> "freed", fd |-> FALSE, term |-> None]

\* fdm_client(): the setup packet is complete, but wrong, or there is no
\* monitor, or term_init() fails.  A wrong packet is not answered.
SetupFails(c) ==
    /\ server = "up"
    /\ client[c].life = "open" /\ client[c].term = None
    /\ client' = [client EXCEPT ![c] = Disconnected]
    /\ code' \in {code, [code EXCEPT ![c] = "error"]}
    /\ UNCHANGED <<term, terminals, theme, server>>

\* fdm_client(): a terminal is instantiated, and the application started.
SetupSucceeds(c, t) ==
    /\ server = "up"
    /\ client[c].life = "open" /\ client[c].term = None
    /\ term[t].life = "none"
    /\ \E hold \in BOOLEAN :
          term' = [term EXCEPT ![t] =
                    [NoTerminal EXCEPT !.life = "alive", !.hold = hold,
                                       !.window = TRUE, !.child = TRUE,
                                       !.app = "running", !.theme = theme]]
    /\ \/ /\ client' = [client EXCEPT ![c].term = t]
          /\ UNCHANGED <<code, terminals>>
       \/ /\ client' = [client EXCEPT ![c] = Disconnected]      \* --no-wait
          /\ code' = [code EXCEPT ![c] = "status"]
          /\ terminals' = terminals \cup {t}
    /\ UNCHANGED <<theme, server>>

\* client_destroy(): the terminal of the instance, if there is one, is destroyed.
\* Faulty variant: it is left alone.
ClientDestroyOnly(c) ==
    /\ client' = [client EXCEPT ![c] = Disconnected]
    /\ UNCHANGED term
ClientDestroy(c) ==
    /\ client' = [client EXCEPT ![c] = Disconnected]
    /\ term' = [t \in Terms |-> IF t = client[c].term THEN TermDestroy(term[t])
                                ELSE term[t]]

\* fdm_client() with EPOLLHUP: the footclient is gone.
ClientHangsUp(c) ==
    /\ server = "up"
    /\ "hangup" \in Allowed
    /\ client[c].life = "open" /\ client[c].fd
    /\ \/ \E t \in Terms :
            /\ client[c].term = t /\ ~term[t].inProgress
            /\ term' = [term EXCEPT ![t] = TermShutdown(@)]
            /\ client' = [client EXCEPT ![c].fd = FALSE]
       \/ /\ \A t \in Terms : client[c].term = t => term[t].inProgress
          /\ ClientDestroy(c)
    /\ UNCHANGED <<code, terminals, theme, server>>

-----------------------------------------------------------------------------
(* Themes *)

\* term_theme_switch_to_*(): nothing to do, or it needs the window.
Switch(S, to) ==
    \/ /\ \A t \in S : term[t].theme # to => term[t].window
       /\ term' = [t \in Terms |->
                    IF t \in S THEN [term[t] EXCEPT !.theme = to] ELSE term[t]]
       /\ UNCHANGED server
    \/ /\ \E t \in S : term[t].theme # to /\ ~term[t].window
       /\ server' = "no window"
       /\ UNCHANGED term

\* fdm_client(): the footclient forwards a signal it got.
ClientSigusr(c, to) ==
    /\ server = "up"
    /\ "sigusr" \in Allowed
    /\ client[c].life = "open" /\ client[c].fd /\ client[c].term # None
    /\ Switch({client[c].term}, to)
    /\ UNCHANGED <<client, code, terminals, theme>>

\* server_global_theme_switch_to_*(): every client is taken to have an instance.
GlobalSwitch(to) ==
    /\ server = "up"
    /\ "global" \in Allowed
    /\ theme' = to
    /\ LET open == {c \in Clients : client[c].life = "open"} IN
       \/ /\ \A c \in open : client[c].term # None
          /\ Switch({client[c].term : c \in open} \cup terminals, to)
       \/ /\ \E c \in open : client[c].term = None
          /\ server' = "no instance"
          /\ UNCHANGED term
    /\ UNCHANGED <<client, code, terminals>>

-----------------------------------------------------------------------------
\* server_destroy(), on SIGINT or SIGTERM, when the compositor hangs up or the
\* event loop fails.
ServerExits ==
    /\ server = "up"
    /\ "exit" \in Allowed
    /\ server' = "exited"
    /\ term' = [t \in Terms |-> IF term[t].life = "alive" THEN TermDestroy(term[t])
                                ELSE term[t]]
    /\ code' = [c \in Clients |->
                    IF client[c].life = "open" /\ client[c].fd THEN "error"
                    ELSE code[c]]
    /\ client' = [c \in Clients |->
                    IF client[c].life = "open" THEN Disconnected ELSE client[c]]
    /\ terminals' = {}
    /\ UNCHANGED theme

Next ==
    \/ \E t \in Terms : \/ AppExits(t) \/ WindowClosed(t) \/ FdmShutdown(t)
                        \/ FdmTerminateTimeout(t)
    \/ FdmReap
    \/ \E c \in Clients : \/ ClientConnects(c) \/ SetupFails(c)
                          \/ \E t \in Terms : SetupSucceeds(c, t)
                          \/ ClientHangsUp(c)
                          \/ \E to \in Themes : ClientSigusr(c, to)
    \/ \E to \in Themes : GlobalSwitch(to)
    \/ ServerExits

Spec == Init /\ [][Next]_vars

\* The event loop runs, and the kernel ends an application that got SIGKILL.
\* Nothing is assumed of applications that did not, nor of the clients.
Fairness ==
    /\ WF_vars(FdmReap)
    /\ \A t \in Terms :
        /\ WF_vars(FdmShutdown(t))
        /\ WF_vars(FdmTerminateTimeout(t))
        /\ WF_vars(AppExits(t) /\ term[t].app = "killed")

FairSpec == Spec /\ Fairness

-----------------------------------------------------------------------------
(* Properties *)

\* Type correctness, and: nothing of a shutdown is done before it is marked as
\* in progress, for the sake of everything that looks at that mark.
TypeOK ==
    /\ term \in [Terms -> Terminals]
    /\ \A t \in Terms :
        term[t].life = "alive" /\ (term[t].posted \/ ~term[t].window)
            => term[t].inProgress
    /\ client \in [Clients -> Connections]
    /\ code \in [Clients -> {"none", "status", "error"}]
    /\ terminals \subseteq Terms
    /\ theme \in Themes
    /\ server \in {"up", "exited", "use after free", "no window", "no instance"}

\* The server has ended on one of the error paths, not by returning.
Crashed == server \notin {"up", "exited"}

\* The terminate timer runs for a terminal that exists and whose application was
\* not reaped: fdm_terminate_timeout()'s assertion holds, it sees no freed
\* terminal, and it never signals a process group whose number may by then
\* belong to some other process.
TimerExact ==
    \A t \in Terms : term[t].timer # "none" =>
        /\ term[t].life = "alive" /\ term[t].inProgress
        /\ ~term[t].terminated
        /\ term[t].app \notin {"none", "reaped"}

\* The reaper's callback sees no freed terminal, and no exit of an application
\* goes unnoticed: it is registered exactly until it is reaped.
ReaperExact ==
    \A t \in Terms :
        term[t].child <=> term[t].life = "alive" /\ term[t].app # "reaped"

\* Every terminal has one owner, its client or the server; no client refers to a
\* terminal that was freed, whichever of them went first.
OwnedOnce ==
    \A t \in Terms :
        Cardinality(Attached(t)) + (IF t \in terminals THEN 1 ELSE 0)
            = IF term[t].life = "alive" THEN 1 ELSE 0

\* Terminals, their timers, callbacks and owners: nothing refers to a terminal
\* that was freed, and nothing that is alive is forgotten.
NothingDangles == TypeOK /\ TimerExact /\ ReaperExact /\ OwnedOnce

\* When a terminal is destroyed its window is gone and its application reaped,
\* unless the server exits or its footclient hangs up: fdm_shutdown() and the
\* reaper's callback are then called for a terminal that still exists, in either
\* order.
BothDone(t) ==
    /\ ~term[t].posted \/ FdmShutdown(t)
    /\ term[t].terminated \/ term[t].app = "zombie"
DestroyedWhenDone ==
    [][\A t \in Freed(term') :
        BothDone(t) \/ ServerExits \/ \E c \in Clients : ClientHangsUp(c)]_vars

\* "Only when *both* tasks have completed do we consider ourselves fully
\* shutdown.  This is when we can call term_destroy()."  Does NOT hold, even if
\* the server does not exit: when a footclient hangs up after its window was
\* closed the event descriptor is left behind, with a pointer to the terminal.
DestroyedOnlyWhenDone ==
    [][\A t \in Freed(term') : BothDone(t) \/ ServerExits]_vars

\* A connection to a footclient is closed only after the answer that the
\* footclient waits for was sent, unless the footclient closed it or its setup
\* packet was wrong: no footclient whose terminal lived waits for ever or reports
\* a failure of the server's.
AnsweredBeforeClosed ==
    [][\A c \in Clients :
        (\E t \in Terms : c \in Attached(t)) /\ client[c].fd
            /\ client'[c].life = "freed"
            => code'[c] # "none" \/ ClientHangsUp(c)]_vars

\* A shutdown ends: the terminal is destroyed, however stubborn its application,
\* unless the server crashes first.
ShutdownEnds ==
    \A t \in Terms : term[t].inProgress ~> (term[t].life = "freed" \/ Crashed)

\* "You can send SIGUSR1/SIGUSR2 to a foot --server process too, in which case
\* all client instances will switch theme."  Does NOT hold: a client that has
\* not sent all of its setup packet has no instance.
GlobalSwitchWorks == server # "no instance"

\* "When sending SIGUSR1/SIGUSR2 to a footclient instance, the theme is changed
\* in that instance only."  Does NOT hold: the window may be destroyed already.
ClientSwitchWorks == server # "no window"
=============================================================================

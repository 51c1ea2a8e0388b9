--------------------------- MODULE LifecycleProofs ---------------------------
(***************************************************************************)
(* Proofs that, for any number of terminals and footclients, the terminate *)
(* timer and the reaper's callback never outlive the terminal they point   *)
(* to, and that every terminal has exactly one owner.                      *)
(*                                                                         *)
(* The functions of terminal.c change one terminal each; what they keep is *)
(* stated for a single terminal (Sound) and proved function by function.   *)
(* The invariant of the specification is that every terminal is sound and  *)
(* every terminal that is alive is owned once.                             *)
(*                                                                         *)
(* The second part is about Notify, for any number of messages, helpers,   *)
(* ids, icons and slots of the cache: the reports an application asked for *)
(* are those it gets.  An entry of term->active_notifications is related   *)
(* to its helper by what of the output was read so far (Reads), one piece  *)
(* at a time (PieceReads); as long as every helper could be started there  *)
(* is one entry for each helper that was not reaped, and a descriptor of   *)
(* its own (OneHelperEach).  The cache keeps the last version of an icon,  *)
(* and every icon while there are no more of them than slots (Latest).     *)
(***************************************************************************)
EXTENDS Lifecycle, Notify, NumberLemmas, SequenceTheorems, FiniteSetTheorems, TLAPS

\* What holds of a terminal between two turns of the event loop.
Sound(r) ==
    /\ r \in Terminals
    /\ r.life = "alive" /\ (r.posted \/ ~r.window) => r.inProgress
    /\ r.life = "alive" /\ r.posted => r.window
    /\ r.timer # "none" => r.life = "alive" /\ r.inProgress /\ ~r.terminated
    /\ r.child <=> r.life = "alive" /\ r.app # "reaped"
    /\ r.app \in {"running", "killed", "zombie"} => r.life = "alive"
    /\ r.life = "alive" => /\ r.app # "none"
                           /\ r.terminated <=> r.app = "reaped"

Others ==
    /\ client \in [Clients -> Connections]
    /\ code \in [Clients -> {"none", "status", "error"}]
    /\ terminals \subseteq Terms
    /\ theme \in Themes
    /\ server \in {"up", "exited", "use after free", "no window", "no instance"}

\* Ownership, without counting.
AttachedAlive ==
    \A t \in Terms : \A c \in Attached(t) :
        term[t].life = "alive" /\ t \notin terminals
AttachedOnce ==
    \A t \in Terms : \A c, d \in Attached(t) : c = d
UnattachedAlive == \A t \in terminals : term[t].life = "alive"
AliveOwned ==
    \A t \in Terms : term[t].life = "alive" => t \in terminals \/ Attached(t) # {}

Owned == AttachedAlive /\ AttachedOnce /\ UnattachedAlive /\ AliveOwned

AllSound == term \in [Terms -> Terminals] /\ \A t \in Terms : Sound(term[t])

IInv == AllSound /\ Others /\ Owned

-----------------------------------------------------------------------------
(* The functions of terminal.c *)

\* term_destroy() leaves no timer, no callback and no application behind.
LEMMA DestroySound ==
    ASSUME NEW r \in Terminals
    PROVE  Sound(TermDestroy(r)) /\ TermDestroy(r).life = "freed"
BY DEF Terminals, Sound, TermDestroy

\* term_shutdown() keeps a terminal sound, and alive.
LEMMA ShutdownSound ==
    ASSUME NEW r, Sound(r), r.life = "alive"
    PROVE  Sound(TermShutdown(r)) /\ TermShutdown(r).life = "alive"
BY DEF Terminals, Sound, TermShutdown

\* shutdown_maybe_done() keeps a terminal sound, or frees it.
LEMMA MaybeDoneSound ==
    ASSUME NEW r, Sound(r), r.life = "alive"
    PROVE  /\ Sound(ShutdownMaybeDone(r))
           /\ ShutdownMaybeDone(r).life \in {"alive", "freed"}
BY DestroySound DEF Sound, ShutdownMaybeDone

\* fdm_reap() keeps a terminal sound whose application exited, or frees it: the
\* timer is disarmed before anything else.
LEMMA ReapedSound ==
    ASSUME NEW r, Sound(r), r.app = "zombie"
    PROVE  Sound(Reaped(r)) /\ Reaped(r).life \in {"alive", "freed"}
<1> DEFINE s == [r EXCEPT !.app = "reaped", !.child = FALSE,
                          !.terminated = TRUE, !.timer = "none"]
<1>1. r.life = "alive"
  BY DEF Sound
<1>2. Sound(s) /\ s.life = "alive" /\ s.inProgress = r.inProgress
      /\ s.hold = r.hold
  BY <1>1 DEF Sound, Terminals
<1>3. Reaped(r) = IF r.inProgress THEN ShutdownMaybeDone(s)
                  ELSE IF r.hold THEN s ELSE TermShutdown(s)
  <2>1. [[r EXCEPT !.app = "reaped", !.child = FALSE]
            EXCEPT !.terminated = TRUE, !.timer = "none"] = s
    BY DEF Sound, Terminals
  <2>2. [r EXCEPT !.app = "reaped", !.child = FALSE].inProgress = r.inProgress
    BY DEF Sound, Terminals
  <2>3. [r EXCEPT !.app = "reaped", !.child = FALSE].hold = r.hold
    BY DEF Sound, Terminals
  <2> QED
    BY <2>1, <2>2, <2>3 DEF Reaped, ClientTerminated
<1> HIDE DEF s
<1> QED
  BY <1>2, <1>3, ShutdownSound, MaybeDoneSound

\* fdm_shutdown() keeps a terminal sound, or frees it.
LEMMA FdmShutdownSound ==
    ASSUME NEW r, Sound(r), r.life = "alive", r.posted
    PROVE  LET s == ShutdownMaybeDone([r EXCEPT !.posted = FALSE, !.window = FALSE])
           IN  Sound(s) /\ s.life \in {"alive", "freed"}
<1> DEFINE s == [r EXCEPT !.posted = FALSE, !.window = FALSE]
<1>1. Sound(s) /\ s.life = "alive"
  BY DEF Sound, Terminals
<1> HIDE DEF s
<1>2. Sound(ShutdownMaybeDone(s)) /\ ShutdownMaybeDone(s).life \in {"alive", "freed"}
  BY <1>1, MaybeDoneSound
<1> QED
  BY <1>2 DEF s

\* A terminal that is not yet instantiated is sound.
LEMMA NoTerminalSound == Sound(NoTerminal)
BY DEF Sound, NoTerminal, Terminals, Themes

-----------------------------------------------------------------------------
(* Every terminal stays sound *)

\* An action that changes one terminal, to a sound one.
LEMMA OneSound ==
    ASSUME AllSound, NEW t \in Terms, NEW r, Sound(r),
           term' = [term EXCEPT ![t] = r]
    PROVE  AllSound'
<1>1. r \in Terminals
  BY DEF Sound
<1> QED
  BY <1>1 DEF AllSound

\* server_destroy(), fdm_reap() and the theme switches change many.
LEMMA ManySound ==
    ASSUME AllSound, NEW f, term' = f, DOMAIN f = Terms,
           f = [t \in Terms |-> f[t]], \A t \in Terms : Sound(f[t])
    PROVE  AllSound'
<1>1. \A t \in Terms : f[t] \in Terminals
  BY DEF Sound
<1> QED
  BY <1>1 DEF AllSound

\* No theme switch leaves a terminal that is not sound.
LEMMA SwitchSound ==
    ASSUME AllSound, NEW S, NEW to \in Themes, Switch(S, to)
    PROVE  AllSound'
<1>1. CASE UNCHANGED term
  BY <1>1 DEF AllSound
<1>2. CASE term' = [t \in Terms |->
                    IF t \in S THEN [term[t] EXCEPT !.theme = to] ELSE term[t]]
  <2>1. ASSUME NEW t \in Terms PROVE Sound([term[t] EXCEPT !.theme = to])
    BY DEF AllSound, Sound, Terminals
  <2>2. \A t \in Terms : Sound(term[t])
    BY DEF AllSound
  <2> QED
    BY <1>2, <2>1, <2>2, ManySound
<1> QED
  BY <1>1, <1>2 DEF Switch

\* No action leaves a terminal that is not sound.
LEMMA StepSound == IInv /\ [Next]_vars => AllSound'
<1> SUFFICES ASSUME AllSound, Others, Owned, [Next]_vars PROVE AllSound'
  BY DEF IInv
<1>0. \A t \in Terms : Sound(term[t]) /\ term[t] \in Terminals
  BY DEF AllSound
<1>same. CASE UNCHANGED term
  BY <1>same DEF AllSound
<1>1. ASSUME NEW t \in Terms, AppExits(t) PROVE AllSound'
  <2>1. Sound([term[t] EXCEPT !.app = "zombie"])
    BY <1>0, <1>1 DEF AppExits, Sound, Terminals
  <2> QED
    BY <1>1, <2>1, OneSound DEF AppExits
<1>2. ASSUME NEW t \in Terms, WindowClosed(t) PROVE AllSound'
  BY <1>0, <1>2, ShutdownSound, OneSound DEF WindowClosed
<1>3. ASSUME NEW t \in Terms, FdmShutdown(t) PROVE AllSound'
  <2> DEFINE r == ShutdownMaybeDone([term[t] EXCEPT !.posted = FALSE, !.window = FALSE])
  <2>1. CASE term[t].life = "alive" /\ term' = [term EXCEPT ![t] = r]
    <3>1. Sound(r)
      BY <2>1, <1>0, <1>3, FdmShutdownSound DEF FdmShutdown
    <3> HIDE DEF r
    <3> QED
      BY <2>1, <3>1, OneSound
  <2> QED
    BY <1>3, <2>1, <1>same DEF FdmShutdown, End
<1>4. ASSUME NEW t \in Terms, FdmTerminateTimeout(t) PROVE AllSound'
  <2> DEFINE r == [term[t] EXCEPT
          !.timer = NextSignal(@),
          !.app = IF @ = "running" /\ term[t].timer = "SIGKILL" THEN "killed" ELSE @]
  <2>1. Sound(r)
    <3> DEFINE s == term[t]
               signal == NextSignal(s.timer)
               app == IF s.app = "running" /\ s.timer = "SIGKILL" THEN "killed" ELSE s.app
    <3>1. Sound(s) /\ s.timer \in {"SIGTERM", "SIGKILL"}
      BY <1>0, <1>4 DEF FdmTerminateTimeout
    <3>2. signal \in {"SIGKILL", "disarmed"}
      BY DEF NextSignal
    <3>3. r = [s EXCEPT !.timer = signal, !.app = app]
      OBVIOUS
    <3>4. app = s.app \/ (s.app = "running" /\ app = "killed")
      OBVIOUS
    <3> HIDE DEF s, signal, app, r
    <3> QED BY ONLY <3>1, <3>2, <3>3, <3>4 DEF Sound, Terminals
  <2>2. term' = [term EXCEPT ![t] = r]
    BY <1>4 DEF FdmTerminateTimeout
  <2> HIDE DEF r
  <2> QED
    BY <2>1, <2>2, OneSound
<1>5. ASSUME FdmReap PROVE AllSound'
  <2>1. term' = [t \in Terms |-> IF term[t].app = "zombie" THEN Reaped(term[t])
                                 ELSE term[t]]
    BY <1>5 DEF FdmReap, End
  <2>2. \A t \in Terms : term[t].app = "zombie" => Sound(Reaped(term[t]))
    BY <1>0, ReapedSound
  <2> QED
    BY <1>0, <2>1, <2>2, ManySound
<1>6. ASSUME NEW c \in Clients, NEW t \in Terms, SetupSucceeds(c, t) PROVE AllSound'
  <2>1. PICK hold \in BOOLEAN : term' = [term EXCEPT ![t] =
                    [NoTerminal EXCEPT !.life = "alive", !.hold = hold,
                                       !.window = TRUE, !.child = TRUE,
                                       !.app = "running", !.theme = theme]]
    BY <1>6 DEF SetupSucceeds
  <2> DEFINE r == [NoTerminal EXCEPT !.life = "alive", !.hold = hold,
                                     !.window = TRUE, !.child = TRUE,
                                     !.app = "running", !.theme = theme]
  <2>2. Sound(r)
    BY DEF Sound, NoTerminal, Terminals, Others
  <2> HIDE DEF r
  <2> QED
    BY <2>1, <2>2, OneSound DEF r
<1>7. ASSUME NEW c \in Clients, ClientHangsUp(c) PROVE AllSound'
  <2>1. ASSUME NEW t \in Terms, client[c].term = t, ~term[t].inProgress,
               term' = [term EXCEPT ![t] = TermShutdown(@)]
        PROVE  AllSound'
    <3>1. t # None /\ client[c].life = "open"
      BY <1>7, LifecycleAssumption DEF ClientHangsUp
    <3>2. c \in Attached(t)
      BY <2>1, <3>1 DEF Attached
    <3>3. term[t].life = "alive"
      BY <3>2 DEF Owned, AttachedAlive
    <3> QED
      BY <2>1, <3>3, <1>0, ShutdownSound, OneSound
  <2>2. CASE ClientDestroy(c)
    BY <2>2, <1>0, DestroySound, ManySound DEF ClientDestroy
  <2> QED
    BY <1>7, <2>1, <2>2 DEF ClientHangsUp
<1>8. ASSUME ServerExits PROVE AllSound'
  BY <1>8, <1>0, DestroySound, ManySound DEF ServerExits
<1>9. ASSUME NEW c \in Clients, NEW to \in Themes, ClientSigusr(c, to) PROVE AllSound'
  BY <1>9, SwitchSound DEF ClientSigusr
<1>10. ASSUME NEW to \in Themes, GlobalSwitch(to) PROVE AllSound'
  BY <1>10, SwitchSound, <1>same DEF GlobalSwitch
<1>11. ASSUME NEW c \in Clients, ClientConnects(c) \/ SetupFails(c) PROVE AllSound'
  BY <1>11, <1>same DEF ClientConnects, SetupFails
<1> QED
  BY <1>same, <1>1, <1>2, <1>3, <1>4, <1>5, <1>6, <1>7, <1>8, <1>9, <1>10, <1>11
  DEF Next, vars

-----------------------------------------------------------------------------
(* The connections, and who owns which terminal *)

\* No action leaves a connection, an answer, the theme or the server with a
\* value that is not its own.
LEMMA StepOthers == Others /\ [Next]_vars => Others'
<1> SUFFICES ASSUME Others, [Next]_vars PROVE Others'
  OBVIOUS
<1> USE DEF Others
<1>0. Disconnected \in Connections
  BY DEF Disconnected, Connections
<1>end. ASSUME NEW new, End(new)
        PROVE  /\ client' \in [Clients -> Connections]
               /\ code' \in [Clients -> {"none", "status", "error"}]
               /\ terminals' \subseteq Terms
  <2>1. client' \in [Clients -> Connections]
    BY <1>end, <1>0 DEF End, Disconnected
  <2>2. code' \in [Clients -> {"none", "status", "error"}]
    BY <1>end DEF End
  <2> QED
    BY <1>end, <2>1, <2>2 DEF End
<1>1. ASSUME NEW t \in Terms,
             AppExits(t) \/ WindowClosed(t) \/ FdmTerminateTimeout(t)
      PROVE  Others'
  BY <1>1 DEF AppExits, WindowClosed, FdmTerminateTimeout
<1>2. ASSUME NEW t \in Terms, FdmShutdown(t) PROVE Others'
  BY <1>2, <1>end DEF FdmShutdown
<1>3. ASSUME FdmReap PROVE Others'
  BY <1>3, <1>end DEF FdmReap
<1>4. ASSUME NEW c \in Clients, ClientConnects(c) PROVE Others'
  <2>1. [life |-> "open", fd |-> TRUE, term |-> None] \in Connections
    BY DEF Connections
  <2> QED
    BY <1>4, <2>1 DEF ClientConnects
<1>5. ASSUME NEW c \in Clients, SetupFails(c) PROVE Others'
  BY <1>5, <1>0 DEF SetupFails
<1>6. ASSUME NEW c \in Clients, NEW t \in Terms, SetupSucceeds(c, t) PROVE Others'
  <2>1. client' \in [Clients -> Connections]
    BY <1>6, <1>0 DEF SetupSucceeds, Connections
  <2> QED
    BY <1>6, <2>1 DEF SetupSucceeds
<1>7. ASSUME NEW c \in Clients, ClientHangsUp(c) PROVE Others'
  <2>1. client' \in [Clients -> Connections]
    <3>1. client[c] \in Connections
      OBVIOUS
    <3>2. [client[c] EXCEPT !.fd = FALSE] \in Connections
      BY <3>1 DEF Connections
    <3>3. client' = [client EXCEPT ![c] = [@ EXCEPT !.fd = FALSE]]
          \/ client' = [client EXCEPT ![c] = Disconnected]
      BY <1>7 DEF ClientHangsUp, ClientDestroy
    <3> QED
      BY <1>0, <3>2, <3>3
  <2> QED
    BY <1>7, <2>1 DEF ClientHangsUp
<1>8. ASSUME NEW c \in Clients, NEW to \in Themes, ClientSigusr(c, to) PROVE Others'
  BY <1>8 DEF ClientSigusr, Switch
<1>9. ASSUME NEW to \in Themes, GlobalSwitch(to) PROVE Others'
  BY <1>9 DEF GlobalSwitch, Switch
<1>10. ASSUME ServerExits PROVE Others'
  BY <1>10, <1>0 DEF ServerExits
<1>11. CASE UNCHANGED vars
  BY <1>11 DEF vars
<1> QED
  BY <1>1, <1>2, <1>3, <1>4, <1>5, <1>6, <1>7, <1>8, <1>9, <1>10, <1>11 DEF Next

\* What a step does to the terminals and to the clients attached to them, of
\* which the ownership follows.
KeepsLives == \A t \in Terms : term'[t].life = term[t].life
KeepsAttached == \A t \in Terms : Attached(t)' = Attached(t)

\* Nothing changes owner if no terminal begins or ends.
LEMMA KeepOwned ==
    ASSUME Owned, terminals \subseteq Terms,
           KeepsLives, KeepsAttached, UNCHANGED terminals
    PROVE  Owned'
BY DEF Owned, AttachedAlive, AttachedOnce, UnattachedAlive, AliveOwned,
       KeepsLives, KeepsAttached

\* Terminals that end lose their client, or are no longer the server's.
LEMMA EndOwned ==
    ASSUME Owned, terminals \subseteq Terms, NEW F,
           \A t \in Terms : term'[t].life = IF t \in F THEN "freed" ELSE term[t].life,
           \A t \in Terms : Attached(t)' = IF t \in F THEN {} ELSE Attached(t),
           terminals' = terminals \ F
    PROVE  Owned'
BY DEF Owned, AttachedAlive, AttachedOnce, UnattachedAlive, AliveOwned

\* End() frees exactly the terminals that it says are freed.
LEMMA EndKeepsOwned ==
    ASSUME Owned, Others, NEW new, End(new),
           \A t \in Terms : \/ new[t].life = term[t].life
                            \/ new[t].life = "freed"
    PROVE  Owned'
<1>1. \A t \in Terms :
          term'[t].life = IF t \in Freed(new) THEN "freed" ELSE term[t].life
  BY DEF End, Freed
<1>2. ASSUME NEW t \in Terms
      PROVE  Attached(t)' = IF t \in Freed(new) THEN {} ELSE Attached(t)
  <2> DEFINE ended == UNION {Attached(u) : u \in Freed(new)}
  <2>1. \A c \in Clients : client'[c] =
          IF c \in ended THEN [life |-> "freed", fd |-> FALSE, term |-> None]
          ELSE client[c]
    BY DEF End
  <2>2. \A c \in Attached(t) : c \in ended <=> t \in Freed(new)
    BY DEF Attached, Freed
  <2> HIDE DEF ended
  <2>3. \A c \in Clients :
          c \in Attached(t)' <=> c \in Attached(t) /\ c \notin ended
    BY <2>1 DEF Attached
  <2>4. Attached(t)' \subseteq Clients /\ Attached(t) \subseteq Clients
    BY DEF Attached
  <2> QED
    BY <2>2, <2>3, <2>4
<1>3. terminals' = terminals \ Freed(new)
  BY DEF End
<1> QED
  BY <1>1, <1>2, <1>3, EndOwned DEF Others

\* No action leaves a terminal with no owner or two, or a client with a terminal
\* that was freed.
LEMMA StepOwned == IInv /\ [Next]_vars => Owned'
<1> SUFFICES ASSUME AllSound, Others, Owned, [Next]_vars PROVE Owned'
  BY DEF IInv
<1>0. \A t \in Terms : Sound(term[t]) /\ term[t] \in Terminals
  BY DEF AllSound
<1>00. terminals \subseteq Terms /\ client \in [Clients -> Connections]
  BY DEF Others
<1>keep. ASSUME UNCHANGED <<client, terminals>>, KeepsLives PROVE Owned'
  <2>1. KeepsAttached
    BY <1>keep DEF KeepsAttached, Attached
  <2> QED
    BY <2>1, <1>keep, <1>00, KeepOwned
<1>switch. ASSUME NEW S, NEW to, Switch(S, to) PROVE KeepsLives
  <2>1. ASSUME NEW t \in Terms PROVE [term[t] EXCEPT !.theme = to].life = term[t].life
    BY <1>0 DEF Terminals
  <2> QED
    BY <1>switch, <2>1 DEF Switch, KeepsLives
<1>same. CASE UNCHANGED <<term, client, terminals>>
  BY <1>same, <1>keep DEF KeepsLives
<1>1. ASSUME NEW t \in Terms, AppExits(t) PROVE Owned'
  <2>1. KeepsLives
    BY <1>1, <1>0 DEF AppExits, KeepsLives, AllSound, Terminals
  <2> QED
    BY <1>1, <2>1, <1>keep DEF AppExits
<1>2. ASSUME NEW t \in Terms, WindowClosed(t) PROVE Owned'
  <2>1. KeepsLives
    BY <1>2, <1>0, ShutdownSound DEF WindowClosed, KeepsLives, AllSound
  <2> QED
    BY <1>2, <2>1, <1>keep DEF WindowClosed
<1>3. ASSUME NEW t \in Terms, FdmShutdown(t) PROVE Owned'
  <2> DEFINE r == ShutdownMaybeDone([term[t] EXCEPT !.posted = FALSE, !.window = FALSE])
  <2>1. CASE term[t].life = "alive" /\ End([term EXCEPT ![t] = r])
    <3>1. r.life \in {"alive", "freed"}
      BY <2>1, <1>0, <1>3, FdmShutdownSound DEF FdmShutdown
    <3> HIDE DEF r
    <3>2. \A u \in Terms : \/ [term EXCEPT ![t] = r][u].life = term[u].life
                           \/ [term EXCEPT ![t] = r][u].life = "freed"
      BY <2>1, <3>1 DEF AllSound
    <3> QED
      BY <2>1, <3>2, EndKeepsOwned
  <2> QED
    BY <1>3, <2>1, <1>same DEF FdmShutdown
<1>4. ASSUME NEW t \in Terms, FdmTerminateTimeout(t) PROVE Owned'
  <2>1. KeepsLives
    BY <1>4, <1>0 DEF FdmTerminateTimeout, KeepsLives, AllSound, Terminals
  <2> QED
    BY <1>4, <2>1, <1>keep DEF FdmTerminateTimeout
<1>5. ASSUME FdmReap PROVE Owned'
  <2> DEFINE new == [t \in Terms |-> IF term[t].app = "zombie" THEN Reaped(term[t])
                                     ELSE term[t]]
  <2>1. End(new)
    BY <1>5 DEF FdmReap
  <2>2. ASSUME NEW t \in Terms
        PROVE  new[t].life = term[t].life \/ new[t].life = "freed"
    <3>1. term[t].app = "zombie" => term[t].life = "alive"
      BY <1>0 DEF Sound
    <3> QED
      BY <1>0, <3>1, ReapedSound
  <2> HIDE DEF new
  <2> QED
    BY <2>1, <2>2, EndKeepsOwned
<1>6. ASSUME NEW c \in Clients,
             ClientConnects(c) \/ SetupFails(c) \/ \E to \in Themes : ClientSigusr(c, to)
      PROVE  Owned'
  <2>1. CASE ClientConnects(c) \/ SetupFails(c)
    <3>1. KeepsLives /\ UNCHANGED terminals
      BY <2>1 DEF ClientConnects, SetupFails, KeepsLives
    <3>2. KeepsAttached
      BY <2>1, <1>00, LifecycleAssumption
      DEF ClientConnects, SetupFails, Disconnected, KeepsAttached, Attached
    <3> QED
      BY <3>1, <3>2, <1>00, KeepOwned
  <2>2. CASE \E to \in Themes : ClientSigusr(c, to)
    <3>1. KeepsLives
      BY <2>2, <1>switch DEF ClientSigusr
    <3> QED
      BY <2>2, <3>1, <1>keep DEF ClientSigusr
  <2> QED
    BY <1>6, <2>1, <2>2
<1>7. ASSUME NEW to \in Themes, GlobalSwitch(to) PROVE Owned'
  <2>1. KeepsLives
    BY <1>7, <1>switch DEF GlobalSwitch, KeepsLives
  <2> QED
    BY <1>7, <2>1, <1>keep DEF GlobalSwitch
<1>8. ASSUME NEW c \in Clients, NEW t \in Terms, SetupSucceeds(c, t) PROVE Owned'
  <2>1. /\ term'[t].life = "alive"
        /\ \A u \in Terms \ {t} : term'[u].life = term[u].life
    BY <1>8 DEF SetupSucceeds, NoTerminal, AllSound
  <2>2. Attached(t) = {} /\ t \notin terminals
    BY <1>8 DEF SetupSucceeds, Owned, AttachedAlive, UnattachedAlive
  <2>3. c \notin UNION {Attached(u) : u \in Terms}
    BY <1>8, LifecycleAssumption DEF SetupSucceeds, Attached
  <2>4. CASE client' = [client EXCEPT ![c].term = t] /\ UNCHANGED terminals
    <3>1. Attached(t)' = {c}
      BY <1>8, <1>00, <2>2, <2>4 DEF SetupSucceeds, Attached, Connections
    <3>2. \A u \in Terms \ {t} : Attached(u)' = Attached(u)
      BY <1>8, <1>00, <2>3, <2>4 DEF SetupSucceeds, Attached, Connections
    <3> QED
      BY <1>00, <1>8, <2>1, <2>2, <2>4, <3>1, <3>2
      DEF Owned, AttachedAlive, AttachedOnce, UnattachedAlive, AliveOwned
  <2>5. CASE client' = [client EXCEPT ![c] = Disconnected]
             /\ terminals' = terminals \cup {t}
    <3>1. \A u \in Terms : Attached(u)' = Attached(u)
      BY <1>00, <2>3, <2>5 DEF Attached, Disconnected
    <3> QED
      BY <1>00, <1>8, <2>1, <2>2, <2>5, <3>1
      DEF Owned, AttachedAlive, AttachedOnce, UnattachedAlive, AliveOwned
  <2> QED
    BY <1>8, <2>4, <2>5 DEF SetupSucceeds
<1>9. ASSUME NEW c \in Clients, ClientHangsUp(c) PROVE Owned'
  <2>1. ASSUME NEW t \in Terms, client[c].term = t,
               term' = [term EXCEPT ![t] = TermShutdown(@)],
               client' = [client EXCEPT ![c].fd = FALSE]
        PROVE  Owned'
    <3>1. c \in Attached(t)
      BY <1>9, <2>1 DEF ClientHangsUp, Attached
    <3>2. term[t].life = "alive"
      BY <3>1 DEF Owned, AttachedAlive
    <3>3. KeepsLives
      BY <2>1, <3>2, <1>0, ShutdownSound DEF KeepsLives, AllSound
    <3>4. KeepsAttached
      BY <1>00, <2>1 DEF KeepsAttached, Attached, Connections
    <3> QED
      BY <1>9, <3>3, <3>4, <1>00, KeepOwned DEF ClientHangsUp
  <2>2. CASE ClientDestroy(c)
    <3> DEFINE F == {t \in Terms : client[c].term = t}
    <3>1. \A t \in F : c \in Attached(t) /\ t \notin terminals
      BY <1>9 DEF ClientHangsUp, Attached, Owned, AttachedAlive
    <3>2. \A t \in Terms : term'[t].life = IF t \in F THEN "freed" ELSE term[t].life
      BY <2>2, <1>0, DestroySound DEF ClientDestroy
    <3>3. ASSUME NEW t \in Terms
          PROVE  Attached(t)' = IF t \in F THEN {} ELSE Attached(t)
      <4>1. \A d \in Attached(t) : t \in F => d = c
        BY <3>1 DEF Owned, AttachedOnce
      <4>2. c \in Attached(t) => t \in F
        BY DEF Attached
      <4>3. \A d \in Clients : d \in Attached(t)' <=> d \in Attached(t) /\ d # c
        BY <2>2, <1>00 DEF ClientDestroy, Disconnected, Attached
      <4>4. Attached(t)' \subseteq Clients /\ Attached(t) \subseteq Clients
        BY DEF Attached
      <4> HIDE DEF F
      <4> QED
        BY <4>1, <4>2, <4>3, <4>4
    <3>4. terminals' = terminals \ F
      BY <1>9, <3>1 DEF ClientHangsUp
    <3> HIDE DEF F
    <3> QED
      BY <3>2, <3>3, <3>4, <1>00, EndOwned
  <2> QED
    BY <1>9, <2>1, <2>2 DEF ClientHangsUp
<1>10. ASSUME ServerExits PROVE Owned'
  <2>1. \A t \in Terms : term'[t].life # "alive"
    BY <1>10, <1>0, DestroySound DEF ServerExits
  <2>2. \A t \in Terms : Attached(t)' = {}
    BY <1>10, <1>00 DEF ServerExits, Attached, Disconnected
  <2> QED
    BY <1>10, <2>1, <2>2
    DEF ServerExits, Owned, AttachedAlive, AttachedOnce, UnattachedAlive, AliveOwned
<1>11. CASE UNCHANGED vars
  BY <1>11, <1>same DEF vars
<1> QED
  BY <1>1, <1>2, <1>3, <1>4, <1>5, <1>6, <1>7, <1>8, <1>9, <1>10, <1>11 DEF Next

-----------------------------------------------------------------------------
(* The theorems *)

\* No terminal, client or owner exists at first.
LEMMA InitHolds == Init => IInv
<1> SUFFICES ASSUME Init PROVE IInv
  OBVIOUS
<1>1. AllSound
  BY NoTerminalSound DEF Init, AllSound, Sound
<1>2. Others
  BY DEF Init, Others, Connections, Themes
<1>3. \A t \in Terms : Attached(t) = {} /\ term[t].life # "alive"
  BY DEF Init, Attached, NoTerminal
<1>4. Owned
  BY <1>3 DEF Init, Owned, AttachedAlive, AttachedOnce, UnattachedAlive, AliveOwned
<1> QED
  BY <1>1, <1>2, <1>4 DEF IInv

\* The inductive invariant: every terminal is sound and owned once, at any moment
\* of any shutdown, hang-up or reap.
THEOREM InvHolds == Spec => []IInv
<1>1. IInv /\ [Next]_vars => IInv'
  BY StepSound, StepOthers, StepOwned DEF IInv
<1> QED
  BY InitHolds, <1>1, PTL DEF Spec

\* Type correctness, and no part of a shutdown is done before term_shutdown()
\* marked it as in progress.
THEOREM TypeCorrect == Spec => []TypeOK
<1>1. IInv => TypeOK
  BY DEF IInv, AllSound, Sound, Others, TypeOK
<1> QED
  BY <1>1, InvHolds, PTL

\* The terminate timer never fires for a terminal that was freed or for an
\* application that was reaped, however many terminals share the event loop.
THEOREM TimerIsExact == Spec => []TimerExact
<1>1. IInv => TimerExact
  BY DEF IInv, AllSound, Sound, Terminals, TimerExact
<1> QED
  BY <1>1, InvHolds, PTL

\* The reaper's callback is registered for a terminal exactly as long as the
\* terminal exists and its application was not reaped.
THEOREM ReaperIsExact == Spec => []ReaperExact
<1>1. IInv => ReaperExact
  BY DEF IInv, AllSound, Sound, ReaperExact
<1> QED
  BY <1>1, InvHolds, PTL

\* Every terminal that is alive has exactly one owner, a client or the server's
\* list, and one that was freed has none.
THEOREM EachOwnedOnce == Spec => []OwnedOnce
<1>1. ASSUME Owned, Others PROVE OwnedOnce
  <2> SUFFICES ASSUME NEW t \in Terms
               PROVE  Cardinality(Attached(t)) + (IF t \in terminals THEN 1 ELSE 0)
                        = IF term[t].life = "alive" THEN 1 ELSE 0
    BY DEF OwnedOnce
  <2>1. CASE Attached(t) = {}
    <3>1. Cardinality(Attached(t)) = 0
      BY <2>1, FS_EmptySet
    <3>2. t \in terminals <=> term[t].life = "alive"
      BY <1>1, <2>1 DEF Owned, AliveOwned, UnattachedAlive
    <3> QED
      BY <3>1, <3>2
  <2>2. CASE Attached(t) # {}
    <3>1. PICK c : Attached(t) = {c}
      BY <1>1, <2>2 DEF Owned, AttachedOnce
    <3>2. Cardinality(Attached(t)) = 1
      BY <3>1, FS_Singleton
    <3>3. term[t].life = "alive" /\ t \notin terminals
      BY <1>1, <2>2 DEF Owned, AttachedAlive
    <3> QED
      BY <3>2, <3>3
  <2> QED
    BY <2>1, <2>2
<1> QED
  BY <1>1, InvHolds, PTL DEF IInv

\* Timer, reaper and owners of a terminal never outlive it: everything that
\* term_shutdown() registers and the server lists, in one state.
THEOREM NothingIsDangling == Spec => []NothingDangles
<1>1. TypeOK /\ TimerExact /\ ReaperExact /\ OwnedOnce => NothingDangles
  BY DEF NothingDangles
<1> QED
  BY <1>1, TypeCorrect, TimerIsExact, ReaperIsExact, EachOwnedOnce, PTL

\* A terminal is freed by fdm_shutdown() or the reaper, whichever comes second,
\* unless its footclient hangs up or the server exits.
THEOREM DestroyedAfterBoth == Spec => DestroyedWhenDone
<1> DEFINE Excused(t) ==
        BothDone(t) \/ ServerExits \/ \E c \in Clients : ClientHangsUp(c)
<1>1. ASSUME IInv, [Next]_vars, NEW t \in Freed(term') PROVE Excused(t)
  <2>0. /\ t \in Terms /\ term'[t].life = "freed" /\ term[t].life # "freed"
        /\ \A u \in Terms : Sound(term[u]) /\ term[u] \in Terminals
        /\ term \in [Terms -> Terminals]
    BY <1>1 DEF Freed, IInv, AllSound
  <2>same. term'[t].life # term[t].life
    BY <2>0
  <2>1. ASSUME NEW u \in Terms, AppExits(u) PROVE FALSE
    BY <2>same, <2>0, <2>1 DEF AppExits, Terminals
  <2>2. ASSUME NEW u \in Terms, WindowClosed(u) PROVE FALSE
    BY <2>same, <2>0, <2>2, ShutdownSound DEF WindowClosed
  <2>3. ASSUME NEW u \in Terms, FdmShutdown(u) PROVE Excused(t)
    <3> DEFINE s == [term[u] EXCEPT !.posted = FALSE, !.window = FALSE]
    <3>1. term' = [term EXCEPT ![u] = ShutdownMaybeDone(s)]
      BY <2>same, <2>3 DEF FdmShutdown, End
    <3>2. u = t
      BY <2>same, <2>0, <3>1
    <3>3. term[t].life = "alive" /\ s.life = "alive"
      BY <2>0, <2>3, <3>2 DEF FdmShutdown, Terminals
    <3>4. s.terminated = term[t].terminated
      BY <2>0, <3>2 DEF Terminals
    <3> HIDE DEF s
    <3>5. term[t].terminated
      BY <2>0, <3>1, <3>2, <3>3, <3>4 DEF ShutdownMaybeDone
    <3> QED
      BY <2>3, <3>2, <3>5 DEF BothDone
  <2>4. ASSUME NEW u \in Terms, FdmTerminateTimeout(u) PROVE FALSE
    BY <2>same, <2>0, <2>4 DEF FdmTerminateTimeout, Terminals
  <2>5. ASSUME FdmReap PROVE BothDone(t)
    <3>1. term'[t] = IF term[t].app = "zombie" THEN Reaped(term[t]) ELSE term[t]
      BY <2>0, <2>5 DEF FdmReap, End
    <3>2. term[t].app = "zombie" /\ term[t].life = "alive"
      BY <2>0, <2>same, <3>1 DEF Sound
    <3>3. ~term[t].posted
      <4>1. ASSUME term[t].window PROVE Reaped(term[t]).life # "freed"
        <5> DEFINE s == [term[t] EXCEPT !.app = "reaped", !.child = FALSE]
                   v == [s EXCEPT !.terminated = TRUE, !.timer = "none"]
        <5>1. v.life = "alive" /\ v.window /\ v.inProgress = term[t].inProgress
          BY <2>0, <3>2, <4>1 DEF Terminals
        <5>2. TermShutdown(v).life = "alive"
          BY <2>0, <3>2 DEF TermShutdown, Terminals
        <5>3. Reaped(term[t]) \in {ShutdownMaybeDone(v), v, TermShutdown(v)}
          BY DEF Reaped, ClientTerminated
        <5> HIDE DEF s, v
        <5> QED
          BY <5>1, <5>2, <5>3 DEF ShutdownMaybeDone
      <4> QED
        BY <2>0, <3>1, <3>2, <4>1 DEF Sound
    <3> QED
      BY <3>2, <3>3 DEF BothDone
  <2>6. ASSUME NEW c \in Clients, ClientConnects(c) \/ SetupFails(c) PROVE FALSE
    BY <2>same, <2>6 DEF ClientConnects, SetupFails
  <2>7. ASSUME NEW c \in Clients, NEW u \in Terms, SetupSucceeds(c, u) PROVE FALSE
    BY <2>same, <2>0, <2>7 DEF SetupSucceeds, NoTerminal
  <2>8. ASSUME NEW S, NEW to, Switch(S, to) PROVE FALSE
    <3>1. [term[t] EXCEPT !.theme = to].life = term[t].life
      BY <2>0 DEF Terminals
    <3> QED
      BY <2>same, <2>0, <2>8, <3>1 DEF Switch
  <2>9. ASSUME NEW c \in Clients, NEW to \in Themes, ClientSigusr(c, to) PROVE FALSE
    BY <2>8, <2>9 DEF ClientSigusr
  <2>10. ASSUME NEW to \in Themes, GlobalSwitch(to) PROVE FALSE
    BY <2>same, <2>8, <2>10 DEF GlobalSwitch
  <2>11. CASE UNCHANGED vars
    BY <2>same, <2>11 DEF vars
  <2> QED
    BY <1>1, <2>1, <2>2, <2>3, <2>4, <2>5, <2>6, <2>7, <2>9, <2>10, <2>11 DEF Next
<1>2. IInv /\ [Next]_vars => [\A t \in Freed(term') : Excused(t)]_vars
  BY <1>1
<1> QED
  BY <1>2, InvHolds, PTL DEF Spec, DestroyedWhenDone

\* No connection whose terminal lived is closed by the server before it was sent
\* an answer.
THEOREM AnswerComesFirst == Spec => AnsweredBeforeClosed
<1> DEFINE Answered(c) ==
        (\E t \in Terms : c \in Attached(t)) /\ client[c].fd
            /\ client'[c].life = "freed"
            => code'[c] # "none" \/ ClientHangsUp(c)
<1>1. ASSUME IInv, [Next]_vars, NEW c \in Clients PROVE Answered(c)
  <2> SUFFICES ASSUME NEW t \in Terms, c \in Attached(t), client[c].fd,
                      client'[c].life = "freed"
               PROVE  code'[c] # "none" \/ ClientHangsUp(c)
    OBVIOUS
  <2>0. /\ client[c].life = "open" /\ client[c].term = t /\ t # None
        /\ client'[c] # client[c]
        /\ client \in [Clients -> Connections]
        /\ code \in [Clients -> {"none", "status", "error"}]
    BY <1>1, LifecycleAssumption DEF Attached, IInv, Others
  <2>1. ASSUME NEW new, End(new) PROVE code'[c] # "none"
    <3> DEFINE ended == UNION {Attached(u) : u \in Freed(new)}
    <3>1. client'[c] = IF c \in ended THEN [life |-> "freed", fd |-> FALSE, term |-> None]
                       ELSE client[c]
      BY <2>1 DEF End
    <3>2. code'[c] = IF c \in ended /\ client[c].fd THEN "status" ELSE code[c]
      BY <2>1 DEF End
    <3> QED
      BY <2>0, <3>1, <3>2
  <2>2. ASSUME NEW u \in Terms,
               AppExits(u) \/ WindowClosed(u) \/ FdmTerminateTimeout(u)
        PROVE  FALSE
    BY <2>0, <2>2 DEF AppExits, WindowClosed, FdmTerminateTimeout
  <2>3. ASSUME NEW u \in Terms, FdmShutdown(u) PROVE code'[c] # "none"
    BY <2>0, <2>1, <2>3 DEF FdmShutdown
  <2>4. ASSUME FdmReap PROVE code'[c] # "none"
    BY <2>1, <2>4 DEF FdmReap
  <2>5. ASSUME NEW d \in Clients, ClientConnects(d) \/ SetupFails(d) PROVE FALSE
    BY <2>0, <2>5 DEF ClientConnects, SetupFails
  <2>6. ASSUME NEW d \in Clients, NEW u \in Terms, SetupSucceeds(d, u) PROVE FALSE
    BY <2>0, <2>6 DEF SetupSucceeds
  <2>7. ASSUME NEW d \in Clients, ClientHangsUp(d) PROVE ClientHangsUp(c)
    <3>1. d = c
      BY <2>0, <2>7 DEF ClientHangsUp, ClientDestroy
    <3> QED
      BY <2>7, <3>1
  <2>8. ASSUME NEW d \in Clients, NEW to \in Themes, ClientSigusr(d, to) PROVE FALSE
    BY <2>0, <2>8 DEF ClientSigusr
  <2>9. ASSUME NEW to \in Themes, GlobalSwitch(to) PROVE FALSE
    BY <2>0, <2>9 DEF GlobalSwitch
  <2>10. ASSUME ServerExits PROVE code'[c] # "none"
    BY <2>0, <2>10 DEF ServerExits
  <2>11. CASE UNCHANGED vars
    BY <2>0, <2>11 DEF vars
  <2> QED
    BY <1>1, <2>2, <2>3, <2>4, <2>5, <2>6, <2>7, <2>8, <2>9, <2>10, <2>11 DEF Next
<1>2. IInv /\ [Next]_vars => [\A c \in Clients : Answered(c)]_vars
  BY <1>1
<1> QED
  BY <1>2, InvHolds, PTL DEF Spec, AnsweredBeforeClosed

-----------------------------------------------------------------------------
(* Notifications: what an invariant is made of.                            *)

(* The lines and pieces a helper prints, and what is kept of them.         *)
LineKind == [kind : {"number", "default"}, n : Nat]
PieceKind == [line : LineKind, ends : BOOLEAN]
SomeId == AppIds \cup {NoId}

NoteKind ==
  [begun : BOOLEAN, id : SomeId, report : BOOLEAN, closed : BOOLEAN,
   texts : Seq(SomeId), buttons : Nat, icon : Icons \cup {NoIcon}, data : BOOLEAN]

EntryKind ==
  [id : SomeId, external : Nat, report : BOOLEAN, closed : BOOLEAN, pid : Int,
   fd : Int, rest : Seq(PieceKind), buttons : Nat, activated : BOOLEAN, button : Nat]

ReportKind == [kind : {"activated", "closed"}, id : SomeId, button : Nat]

HelperKind ==
  [pid : Nat, prints : Nat \ {0}, id : SomeId, report : BOOLEAN, closed : BOOLEAN,
   buttons : Nat, state : {"running", "exited", "reaped"}, pipe : Seq(PieceKind),
   said : Seq(PieceKind), texts : Seq(SomeId), replaced : BOOLEAN,
   lost : BOOLEAN, reports : Seq(ReportKind)]

SlotKind == [id : Icons \cup {NoIcon}, version : Nat]
PastKind == [messages : Nat, added : Seq(Icons), strays : Nat]

(* A descriptor is open for one helper.                                    *)
NotifyTypes ==
  /\ chunk \in NoteKind
  /\ active \in Seq(EntryKind)
  /\ helper \in Seq(HelperKind) /\ Len(helper) <= MaxHelpers
  /\ fds \in [Fds -> 0 .. Len(helper)]
  /\ \A a, b \in Fds : fds[a] # 0 /\ fds[a] = fds[b] => a = b
  /\ icons \in [1 .. CacheSize -> SlotKind]
  /\ past \in PastKind
  /\ failed \in BOOLEAN

(* What a helper says: its id, in a piece or two, and one line more.       *)
Pieces(s, h) ==
  \A i \in 1 .. Len(s) :
    /\ i = 1 => s[i].line = Number(h.prints)
    /\ ~s[i].ends => i = 1
    /\ s[i].line = Number(h.prints) => \A j \in 1 .. i - 1 : ~s[j].ends
    /\ s[i].line # Number(h.prints) =>
         /\ i = Len(s) /\ s[i].ends
         /\ \E j \in 1 .. i - 1 : s[j].ends
         /\ s[i].line = Default \/ \E b \in 1 .. h.buttons : s[i].line = Number(b)

WellSaid(h) ==
  /\ Pieces(h.said, h)
  /\ h.state # "running" /\ h.said # <<>> => h.said[Len(h.said)].ends

(* What was not read yet is the end of what was said.                      *)
Unread(h) ==
  /\ Len(h.pipe) <= Len(h.said)
  /\ \A i \in 1 .. Len(h.pipe) : h.pipe[i] = h.said[(Len(h.said) - Len(h.pipe)) + i]

WholeTexts(n) == \A i \in 1 .. Len(n.texts) : n.texts[i] = n.id

(* A helper, if every one could be started unless fails.                   *)
HelperKept(h, fails) ==
  /\ WholeTexts(h) /\ WellSaid(h) /\ Unread(h)
  /\ h.state # "reaped" => h.reports = <<>>
  /\ ~fails /\ h.state = "reaped" /\ ~h.lost => h.reports = Due(h)

(* An entry is what its helper's first c pieces make of it.                *)
Reads(e, h, c) ==
  /\ e.external = IF \E i \in 1 .. c : h.said[i].ends THEN h.prints ELSE 0
  /\ e.activated <=> \E i \in 1 .. c : h.said[i].line # Number(h.prints)
  /\ e.button = IF e.activated THEN h.said[c].line.n ELSE 0

Asks(e, h) ==
  /\ e.id = h.id /\ e.buttons = h.buttons
  /\ e.report = (h.report /\ ~h.replaced)
  /\ e.closed = (h.closed /\ ~h.replaced)

ReadOf(h) == Len(h.said) - Len(h.pipe)

EntryKept(e, hs, fs) ==
  /\ e.pid \in 1 .. Len(hs)
  /\ hs[e.pid].state # "reaped" /\ ~hs[e.pid].lost
  /\ Asks(e, hs[e.pid])
  /\ Reads(e, hs[e.pid], ReadOf(hs[e.pid]))
  /\ e.fd # -1 => e.fd \in Fds /\ fs[e.fd] = e.pid

(* As long as every helper could be started: an entry for each helper that *)
(* was not reaped (or forgotten), and the other way around.                *)
OneHelperEach(es, hs, fs) ==
  /\ \A k \in 1 .. Len(es) : EntryKept(es[k], hs, fs)
  /\ \A j, k \in 1 .. Len(es) : es[j].pid = es[k].pid => j = k
  /\ \A fd \in Fds : fs[fd] # 0 => \E k \in 1 .. Len(es) : es[k].pid = fs[fd] /\ es[k].fd = fd
  /\ \A p \in 1 .. Len(hs) : hs[p].state # "reaped" /\ ~hs[p].lost =>
       \E k \in 1 .. Len(es) : es[k].pid = p

VersionsOf(added, i) == {v \in 1 .. Len(added) : added[v] = i}

Latest(slots, added) ==
  /\ \A s \in 1 .. CacheSize : slots[s].id # NoIcon =>
       /\ slots[s].version \in VersionsOf(added, slots[s].id)
       /\ \A v \in VersionsOf(added, slots[s].id) : v <= slots[s].version
  /\ \A s, t \in 1 .. CacheSize : slots[s].id # NoIcon /\ slots[s].id = slots[t].id => s = t
  /\ Cardinality(ToSet(added)) <= CacheSize =>
       \A v \in 1 .. Len(added) : \E s \in 1 .. CacheSize : slots[s].id = added[v]

HelpersInv ==
  /\ WholeTexts(chunk)
  /\ \A p \in 1 .. Len(helper) : HelperKept(helper[p], failed)
  /\ ~failed => OneHelperEach(active, helper, fds)

NotifyInv == NotifyTypes /\ HelpersInv /\ Latest(icons, past.added)

LEMMA MinOf ==
  ASSUME NEW T, T \subseteq Nat, T # {}
  PROVE  Min(T) \in T
<1>1. PICK x \in T : \A y \in T : x <= y
  BY SmallestOf
<1>2. T \subseteq Int
  OBVIOUS
<1>3. Min(T) = x
  BY ONLY <1>1, <1>2, MinIs
<1> QED BY <1>3

(* There are more descriptors than helpers.                                *)
LEMMA LowestIsFree ==
  ASSUME NotifyTypes
  PROVE  Lowest \in Fds /\ fds[Lowest] = 0
<1> DEFINE n == Len(helper)
           free == {fd \in Fds : fds[fd] = 0}
<1>1. n \in Nat /\ n <= MaxHelpers /\ MaxHelpers \in Nat
  BY NotifyAssumption DEF NotifyTypes
<1>2. fds \in [Fds -> 0 .. n] /\ \A a, b \in Fds : fds[a] # 0 /\ fds[a] = fds[b] => a = b
  BY DEF NotifyTypes
<1>3. Fds \subseteq Nat
  BY <1>1 DEF Fds
<1> HIDE DEF n
<1>4. free # {}
  <2> SUFFICES ASSUME free = {} PROVE FALSE
    OBVIOUS
  <2>1. fds \in [Fds -> 1 .. n]
    BY <1>1, <1>2
  <2>2. IsFiniteSet(Fds) /\ Cardinality(Fds) = MaxHelpers + 1
    <3>1. 1 \in Int /\ MaxHelpers + 1 \in Int
      BY <1>1
    <3>2. IsFiniteSet(1 .. MaxHelpers + 1)
          /\ Cardinality(1 .. MaxHelpers + 1) =
               IF 1 > MaxHelpers + 1 THEN 0 ELSE (MaxHelpers + 1) - 1 + 1
      BY ONLY <3>1, FS_Interval
    <3> QED BY <3>2, <1>1 DEF Fds
  <2>3. IsFiniteSet(1 .. n) /\ Cardinality(1 .. n) = n
    <3>1. 1 \in Int /\ n \in Int
      BY <1>1
    <3>2. IsFiniteSet(1 .. n) /\ Cardinality(1 .. n) = IF 1 > n THEN 0 ELSE n - 1 + 1
      BY ONLY <3>1, FS_Interval
    <3> QED BY <3>2, <1>1
  <2>4. \E x, y \in Fds : x # y /\ fds[x] = fds[y]
    <3>1. Cardinality(1 .. n) < Cardinality(Fds)
      BY <2>2, <2>3, <1>1
    <3> QED BY ONLY <2>1, <2>2, <2>3, <3>1, FS_PigeonHole
  <2> QED BY <2>1, <2>4, <1>2
<1>5. Min(free) \in free
  BY <1>3, <1>4, MinOf
<1> QED BY <1>5 DEF Lowest

LEMMA RemovedIs ==
  ASSUME NEW X, NEW s \in Seq(X), NEW i \in 1 .. Len(s)
  PROVE  /\ RemoveAt(s, i) \in Seq(X)
         /\ Len(RemoveAt(s, i)) = Len(s) - 1
         /\ \A k \in 1 .. Len(s) - 1 : RemoveAt(s, i)[k] = s[IF k < i THEN k ELSE k + 1]
<1> DEFINE n == Len(s)
           a == SubSeq(s, 1, i - 1)
           b == SubSeq(s, i + 1, n)
<1>0. n \in Nat /\ i \in 1 .. n
  OBVIOUS
<1>1. a \in Seq(X) /\ Len(a) = i - 1 /\ \A k \in 1 .. i - 1 : a[k] = s[k]
  OBVIOUS
<1>2. b \in Seq(X) /\ Len(b) = n - i /\ \A k \in 1 .. n - i : b[k] = s[i + k]
  OBVIOUS
<1>3. RemoveAt(s, i) = a \o b
  BY DEF RemoveAt
<1> HIDE DEF a, b, n
<1>4. /\ a \o b \in Seq(X)
      /\ Len(a \o b) = Len(a) + Len(b)
      /\ \A k \in 1 .. Len(a) + Len(b) : (a \o b)[k] = IF k <= Len(a) THEN a[k] ELSE b[k - Len(a)]
  BY ONLY <1>1, <1>2, ConcatProperties
<1>5. ASSUME NEW k \in 1 .. n - 1 PROVE (a \o b)[k] = s[IF k < i THEN k ELSE k + 1]
  <2>1. CASE k < i
    <3>1. k \in 1 .. i - 1 /\ k <= i - 1 /\ k \in 1 .. (i - 1) + (n - i)
      BY <2>1, <1>0
    <3>2. (a \o b)[k] = a[k]
      BY <3>1, <1>1, <1>2, <1>4
    <3> QED BY <3>1, <3>2, <2>1, <1>1
  <2>2. CASE k >= i
    <3>1. k - (i - 1) \in 1 .. n - i /\ i + (k - (i - 1)) = k + 1 /\ k \in 1 .. (i - 1) + (n - i)
          /\ ~(k <= i - 1) /\ ~(k < i)
      BY <2>2, <1>0
    <3>2. (a \o b)[k] = b[k - (i - 1)]
      BY <3>1, <1>1, <1>2, <1>4
    <3>3. b[k - (i - 1)] = s[i + (k - (i - 1))]
      BY <3>1, <1>2
    <3> QED BY <3>1, <3>2, <3>3
  <2>3. k < i \/ k >= i
    BY <1>0
  <2> QED BY <2>1, <2>2, <2>3
<1>6. (i - 1) + (n - i) = n - 1
  BY <1>0
<1> QED BY <1>1, <1>2, <1>3, <1>4, <1>5, <1>6 DEF n

-----------------------------------------------------------------------------
(* Reading what a helper has printed.                                      *)

(* A line changes what was activated and the external id, nothing else.    *)
SameEntry(d, e) ==
  /\ d.id = e.id /\ d.report = e.report /\ d.closed = e.closed /\ d.pid = e.pid
  /\ d.fd = e.fd /\ d.buttons = e.buttons

LEMMA LineIs ==
  ASSUME NEW e \in EntryKind, NEW line \in LineKind
  PROVE  LET number == line.kind = "number"
             pressed == e.external # 0 /\ line.n \in 1 .. e.buttons
         IN  /\ Line(e, line) \in EntryKind
             /\ SameEntry(Line(e, line), e)
             /\ Line(e, line).external = IF number /\ e.external = 0 THEN line.n ELSE e.external
             /\ Line(e, line).activated = (e.activated \/ ~number \/ pressed)
             /\ Line(e, line).button = IF number /\ pressed THEN line.n ELSE e.button
<1>1. CASE line.kind = "number" /\ e.external = 0
  <2>1. Line(e, line) = [e EXCEPT !.external = line.n]
    BY <1>1 DEF Line
  <2> QED BY <2>1, <1>1 DEF EntryKind, LineKind, SameEntry
<1>2. CASE line.kind = "number" /\ e.external # 0 /\ line.n \in 1 .. e.buttons
  <2>1. Line(e, line) = [e EXCEPT !.activated = TRUE, !.button = line.n]
    BY <1>2 DEF Line
  <2> QED BY <2>1, <1>2 DEF EntryKind, LineKind, SameEntry
<1>3. CASE line.kind = "default"
  <2>1. Line(e, line) = [e EXCEPT !.activated = TRUE]
    BY <1>3 DEF Line
  <2> QED BY <2>1, <1>3 DEF EntryKind, LineKind, SameEntry
<1>4. CASE line.kind = "number" /\ e.external # 0 /\ line.n \notin 1 .. e.buttons
  <2>1. Line(e, line) = e
    BY <1>4 DEF Line
  <2> QED BY <2>1, <1>4 DEF EntryKind, LineKind, SameEntry
<1>5. line.kind \in {"number", "default"}
  BY DEF LineKind
<1> QED BY <1>1, <1>2, <1>3, <1>4, <1>5

LEMMA ReadPieceIs ==
  ASSUME NEW e \in EntryKind, NEW piece \in PieceKind
  PROVE  /\ ReadPiece(e, piece) \in EntryKind
         /\ SameEntry(ReadPiece(e, piece), e)
         /\ \/ /\ piece.ends
               /\ ReadPiece(e, piece).external = Line(e, piece.line).external
               /\ ReadPiece(e, piece).activated = Line(e, piece.line).activated
               /\ ReadPiece(e, piece).button = Line(e, piece.line).button
            \/ /\ ~piece.ends
               /\ ReadPiece(e, piece).external = e.external
               /\ ReadPiece(e, piece).activated = e.activated
               /\ ReadPiece(e, piece).button = e.button
<1>1. CASE piece.ends
  <2> DEFINE d == Line(e, piece.line)
  <2>1. d \in EntryKind /\ SameEntry(d, e)
    <3>1. piece.line \in LineKind
      BY DEF PieceKind
    <3> QED BY <3>1, LineIs
  <2>2. ReadPiece(e, piece) = [d EXCEPT !.rest = <<>>]
    BY <1>1 DEF ReadPiece
  <2> HIDE DEF d
  <2>3. [d EXCEPT !.rest = <<>>] \in EntryKind
    <3>1. <<>> \in Seq(PieceKind)
      OBVIOUS
    <3> QED BY <2>1, <3>1 DEF EntryKind
  <2>4. SameEntry([d EXCEPT !.rest = <<>>], e)
    <3>1. SameEntry([d EXCEPT !.rest = <<>>], d)
      BY <2>1 DEF EntryKind, SameEntry
    <3> QED BY <3>1, <2>1 DEF SameEntry
  <2>5. [d EXCEPT !.rest = <<>>].external = d.external
        /\ [d EXCEPT !.rest = <<>>].activated = d.activated
        /\ [d EXCEPT !.rest = <<>>].button = d.button
    BY <2>1 DEF EntryKind
  <2> QED BY <1>1, <2>2, <2>3, <2>4, <2>5 DEF d
<1>2. CASE ~piece.ends
  <2>1. ReadPiece(e, piece) = [e EXCEPT !.rest = Append(e.rest, piece)]
    BY <1>2 DEF ReadPiece
  <2>2. Append(e.rest, piece) \in Seq(PieceKind)
    <3>1. e.rest \in Seq(PieceKind)
      BY DEF EntryKind
    <3> QED BY <3>1
  <2> QED BY <1>2, <2>1, <2>2 DEF EntryKind, SameEntry
<1> QED BY <1>1, <1>2

(* One piece more: the id is learnt with the end of the first line, and    *)
(* the line after it is what the user did.                                 *)
LEMMA PieceReads ==
  ASSUME NEW h \in HelperKind, WellSaid(h), NEW e \in EntryKind, Asks(e, h),
         NEW c \in Nat, c + 1 \in 1 .. Len(h.said), Reads(e, h, c)
  PROVE  /\ Asks(ReadPiece(e, h.said[c + 1]), h)
         /\ Reads(ReadPiece(e, h.said[c + 1]), h, c + 1)
<1> DEFINE s == h.said
           n == Len(s)
           piece == s[c + 1]
           d == ReadPiece(e, piece)
<1>1. n \in Nat /\ h.buttons \in Nat /\ h.prints \in Nat \ {0}
      /\ \A i \in 1 .. n : s[i] \in PieceKind
  BY DEF HelperKind
<1>2. piece \in PieceKind /\ piece.line \in LineKind /\ piece.ends \in BOOLEAN
  <2>1. piece \in PieceKind
    BY <1>1
  <2> QED BY <2>1 DEF PieceKind
<1>3. \A i \in 1 .. n :
        /\ i = 1 => s[i].line = Number(h.prints)
        /\ ~s[i].ends => i = 1
        /\ s[i].line = Number(h.prints) => \A j \in 1 .. i - 1 : ~s[j].ends
        /\ s[i].line # Number(h.prints) =>
             /\ i = n /\ s[i].ends
             /\ \E j \in 1 .. i - 1 : s[j].ends
             /\ s[i].line = Default \/ \E b \in 1 .. h.buttons : s[i].line = Number(b)
  BY DEF WellSaid, Pieces
<1>4. /\ e.external = IF \E i \in 1 .. c : s[i].ends THEN h.prints ELSE 0
      /\ e.activated <=> \E i \in 1 .. c : s[i].line # Number(h.prints)
      /\ e.button = IF e.activated THEN s[c].line.n ELSE 0
  BY DEF Reads
<1>5. c + 1 \in 1 .. n /\ (c + 1) - 1 = c /\ c \in 0 .. n - 1
  BY <1>1
<1>6. SameEntry(d, e)
  BY <1>2, ReadPieceIs
<1>7. Asks(d, h)
  BY <1>6 DEF SameEntry, Asks
<1> HIDE DEF n, s
\* What is read already does not say what the user did, as more was said.
<1>8. e.activated = FALSE /\ e.button = 0
  <2>1. \A i \in 1 .. c : i \in 1 .. n /\ i # n
    BY <1>1, <1>5
  <2>2. ~ \E i \in 1 .. c : s[i].line # Number(h.prints)
    BY <1>3, <2>1
  <2>3. e.activated \in BOOLEAN
    BY DEF EntryKind
  <2> QED BY <1>4, <2>2, <2>3
<1>9. \A i : i \in 1 .. c + 1 <=> i \in 1 .. c \/ i = c + 1
  BY <1>5
<1>10. \/ /\ piece.ends
          /\ d.external = Line(e, piece.line).external
          /\ d.activated = Line(e, piece.line).activated
          /\ d.button = Line(e, piece.line).button
       \/ /\ ~piece.ends
          /\ d.external = e.external /\ d.activated = e.activated /\ d.button = e.button
  BY <1>2, ReadPieceIs
<1>11. LET line == piece.line
           number == line.kind = "number"
           pressed == e.external # 0 /\ line.n \in 1 .. e.buttons
       IN  /\ Line(e, line).external = IF number /\ e.external = 0 THEN line.n ELSE e.external
           /\ Line(e, line).activated = (e.activated \/ ~number \/ pressed)
           /\ Line(e, line).button = IF number /\ pressed THEN line.n ELSE e.button
  BY <1>2, LineIs
<1>12. Reads(d, h, c + 1) <=>
         /\ d.external = IF \E i \in 1 .. c + 1 : s[i].ends THEN h.prints ELSE 0
         /\ d.activated <=> \E i \in 1 .. c + 1 : s[i].line # Number(h.prints)
         /\ d.button = IF d.activated THEN piece.line.n ELSE 0
  BY DEF Reads, s
<1> DEFINE ended(k) == \E i \in 1 .. k : s[i].ends
           other(k) == \E i \in 1 .. k : s[i].line # Number(h.prints)
<1>13. /\ ended(c + 1) <=> ended(c) \/ piece.ends
       /\ other(c + 1) <=> piece.line # Number(h.prints)
  <2>1. ~other(c)
    BY <1>4, <1>8
  <2> QED BY <1>9, <2>1
<1>14. e.external = IF ended(c) THEN h.prints ELSE 0
  BY <1>4
<1>15. e.buttons = h.buttons
  BY DEF Asks
<1>16. /\ ~piece.ends => c + 1 = 1 /\ piece.line = Number(h.prints)
       /\ piece.line = Number(h.prints) => ~ended(c)
       /\ piece.line # Number(h.prints) =>
             /\ ended(c)
             /\ piece.line = Default \/ \E b \in 1 .. h.buttons : piece.line = Number(b)
  BY <1>3, <1>5
<1> HIDE DEF ended, other, piece, d
<1>17. CASE ~piece.ends
  <2>1. d.external = e.external /\ d.activated = FALSE /\ d.button = 0
    BY <1>8, <1>10, <1>17
  <2>2. ended(c + 1) <=> ended(c)
    BY <1>13, <1>17
  <2>3. ~other(c + 1)
    BY <1>13, <1>16, <1>17
  <2> QED BY <2>1, <2>2, <2>3, <1>7, <1>12, <1>14 DEF ended, other, piece, d, s
<1>18. CASE piece.ends /\ piece.line = Number(h.prints)
  <2>1. e.external = 0 /\ ~ended(c)
    BY <1>14, <1>16, <1>18
  <2>2. piece.line.kind = "number" /\ piece.line.n = h.prints
    BY <1>18 DEF Number
  <2>3. d.external = h.prints /\ d.activated = FALSE /\ d.button = 0
    BY <1>8, <1>10, <1>11, <1>18, <2>1, <2>2
  <2> QED BY <2>3, <1>12, <1>13, <1>18, <1>7 DEF ended, other, piece, d, s
<1>19. CASE piece.ends /\ piece.line # Number(h.prints)
  <2>1. e.external = h.prints /\ e.external # 0 /\ ended(c)
    BY <1>1, <1>14, <1>16, <1>19
  <2>2. d.external = h.prints /\ d.activated = TRUE /\ d.button = piece.line.n
    <3>1. CASE piece.line = Default
      <4>1. piece.line.kind # "number" /\ piece.line.n = 0
        BY <3>1 DEF Default
      <4> QED BY <4>1, <1>8, <1>10, <1>11, <1>19, <2>1
    <3>2. CASE \E b \in 1 .. h.buttons : piece.line = Number(b)
      <4>1. piece.line.kind = "number" /\ piece.line.n \in 1 .. e.buttons
        BY <3>2, <1>15 DEF Number
      <4> QED BY <4>1, <1>8, <1>10, <1>11, <1>19, <2>1
    <3> QED BY <3>1, <3>2, <1>16, <1>19
  <2> QED BY <2>1, <2>2, <1>12, <1>13, <1>19, <1>7 DEF ended, other, piece, d, s
<1> QED BY <1>2, <1>17, <1>18, <1>19

LEMMA ConsumedIs ==
  ASSUME NEW e \in EntryKind, NEW b \in Seq(PieceKind)
  PROVE  \E f : /\ f[0] = e
                /\ \A k \in 0 .. Len(b) : f[k] \in EntryKind
                /\ \A k \in 1 .. Len(b) : f[k] = ReadPiece(f[k - 1], b[k])
                /\ Consumed(e, b) = f[Len(b)]
<1> DEFINE n == Len(b)
           Y == EntryKind
           Rec(g) == [k \in 0 .. n |-> IF k = 0 THEN e ELSE ReadPiece(g[k - 1], b[k])]
           f == CHOOSE g : g = Rec(g)
           step == [j \in Nat |-> [u \in Y |-> IF j + 1 \in 1 .. n THEN ReadPiece(u, b[j + 1])
                                               ELSE u]]
<1>1. n \in Nat /\ \A k \in 1 .. n : b[k] \in PieceKind
  OBVIOUS
<1>2. e \in Y
  OBVIOUS
<1>3. ASSUME NEW u \in Y, NEW k \in 1 .. n PROVE ReadPiece(u, b[k]) \in Y
  BY <1>1, ReadPieceIs
<1> HIDE DEF Y, n
<1>4. step \in [Nat -> [Y -> Y]]
  BY <1>3
<1>5. PICK h \in [0 .. n -> Y] : h[0] = e /\ \A i \in 0 .. n - 1 : h[i + 1] = step[i][h[i]]
  <2> HIDE DEF step, Rec, f
  <2>1. \E h : Recursive(h, Y, e, step, n)
    BY <1>1, <1>2, <1>4, FiniteRecursion
  <2> QED BY <2>1 DEF Recursive
<1>6. h = Rec(h)
  <2> SUFFICES ASSUME NEW k \in 0 .. n PROVE h[k] = Rec(h)[k]
    OBVIOUS
  <2>1. CASE k = 0
    BY <2>1, <1>5
  <2>2. CASE k # 0
    <3>1. k - 1 \in 0 .. n - 1 /\ (k - 1) + 1 = k /\ k \in 1 .. n /\ k - 1 \in Nat /\ k - 1 \in 0 .. n
      BY <2>2, <1>1
    <3>2. h[k] = step[k - 1][h[k - 1]] /\ h[k - 1] \in Y
      <4> HIDE DEF step, Rec, f
      <4>1. h[(k - 1) + 1] = step[k - 1][h[k - 1]]
        BY <1>5, <3>1
      <4> QED BY <4>1, <3>1, <1>5
    <3>3. step[k - 1][h[k - 1]] = ReadPiece(h[k - 1], b[k])
      BY <3>1, <3>2
    <3> QED BY <3>2, <3>3, <2>2
  <2> QED BY <2>1, <2>2
<1>7. f = Rec(f)
  <2> HIDE DEF Rec
  <2> QED BY <1>6
<1>8. Consumed(e, b) = f[n]
  BY DEF Consumed, n
<1> HIDE DEF f, step
<1>9. \A k \in 0 .. n : f[k] = IF k = 0 THEN e ELSE ReadPiece(f[k - 1], b[k])
  <2>1. \A k \in 0 .. n : Rec(f)[k] = IF k = 0 THEN e ELSE ReadPiece(f[k - 1], b[k])
    OBVIOUS
  <2> HIDE DEF Rec
  <2> QED BY <1>7, <2>1
<1> HIDE DEF Rec
<1>10. f[0] = e /\ \A k \in 1 .. n : f[k] = ReadPiece(f[k - 1], b[k])
  <2>1. 0 \in 0 .. n /\ \A k \in 1 .. n : k \in 0 .. n /\ k # 0
    BY <1>1
  <2> QED BY <1>9, <2>1
<1> DEFINE T == {k \in Nat : k <= n => f[k] \in Y}
<1>11. 0 \in T
  BY <1>2, <1>10
<1>12. ASSUME NEW k \in Nat, k \in T PROVE k + 1 \in T
  <2> SUFFICES ASSUME k + 1 <= n PROVE f[k + 1] \in Y
    OBVIOUS
  <2>1. k + 1 \in 1 .. n /\ (k + 1) - 1 = k /\ k <= n
    BY <1>1
  <2>2. f[k + 1] = ReadPiece(f[k], b[k + 1])
    BY <2>1, <1>10
  <2>3. f[k] \in Y
    BY <1>12, <2>1
  <2> QED BY <2>1, <2>2, <2>3, <1>3
<1> HIDE DEF T
<1>13. Nat \subseteq T
  BY <1>11, <1>12, Induction
<1>14. \A k \in 0 .. n : f[k] \in Y
  <2> SUFFICES ASSUME NEW k \in 0 .. n PROVE f[k] \in Y
    OBVIOUS
  <2>1. k \in Nat /\ k <= n
    BY <1>1
  <2> QED BY <2>1, <1>13 DEF T
<1> QED BY <1>8, <1>10, <1>14 DEF n, Y

(* Whatever is read, an entry stays one, for the same helper.              *)
LEMMA ConsumedKeeps ==
  ASSUME NEW e \in EntryKind, NEW b \in Seq(PieceKind)
  PROVE  Consumed(e, b) \in EntryKind /\ SameEntry(Consumed(e, b), e)
<1>1. PICK f : /\ f[0] = e
               /\ \A k \in 0 .. Len(b) : f[k] \in EntryKind
               /\ \A k \in 1 .. Len(b) : f[k] = ReadPiece(f[k - 1], b[k])
               /\ Consumed(e, b) = f[Len(b)]
  BY ConsumedIs
<1> DEFINE n == Len(b)
<1>2. n \in Nat /\ \A k \in 1 .. n : b[k] \in PieceKind
  OBVIOUS
<1> HIDE DEF n
<1> DEFINE T == {k \in Nat : k <= n => SameEntry(f[k], e)}
<1>3. 0 \in T
  BY <1>1 DEF SameEntry
<1>4. ASSUME NEW k \in Nat, k \in T PROVE k + 1 \in T
  <2> SUFFICES ASSUME k + 1 <= n PROVE SameEntry(f[k + 1], e)
    OBVIOUS
  <2>1. k + 1 \in 1 .. n /\ (k + 1) - 1 = k /\ k <= n /\ k \in 0 .. n
    BY <1>2
  <2>2. f[k + 1] = ReadPiece(f[k], b[k + 1]) /\ f[k] \in EntryKind
    BY <2>1, <1>1 DEF n
  <2>3. SameEntry(f[k + 1], f[k])
    BY <2>1, <2>2, <1>2, ReadPieceIs
  <2>4. SameEntry(f[k], e)
    BY <1>4, <2>1
  <2> QED BY <2>3, <2>4 DEF SameEntry
<1> HIDE DEF T
<1>5. Nat \subseteq T
  BY <1>3, <1>4, Induction
<1>6. n \in T /\ n \in 0 .. n
  BY <1>2, <1>5
<1> QED BY <1>1, <1>2, <1>6 DEF T, n

(* All that is unread: then the entry is what the whole output says.       *)
LEMMA ConsumedReads ==
  ASSUME NEW h \in HelperKind, WellSaid(h), Unread(h), NEW e \in EntryKind, Asks(e, h),
         Reads(e, h, ReadOf(h))
  PROVE  /\ Asks(Consumed(e, h.pipe), h)
         /\ Reads(Consumed(e, h.pipe), h, Len(h.said))
<1> DEFINE b == h.pipe
           n == Len(b)
           c == ReadOf(h)
<1>1. b \in Seq(PieceKind) /\ n \in Nat /\ Len(h.said) \in Nat /\ n <= Len(h.said)
  BY DEF HelperKind, Unread
<1>2. c \in Nat /\ c + n = Len(h.said) /\ c = Len(h.said) - n
  BY <1>1 DEF ReadOf
<1>3. \A k \in 1 .. n : b[k] = h.said[c + k]
  BY <1>2 DEF Unread
<1>4. PICK f : /\ f[0] = e
               /\ \A k \in 0 .. n : f[k] \in EntryKind
               /\ \A k \in 1 .. n : f[k] = ReadPiece(f[k - 1], b[k])
               /\ Consumed(e, b) = f[n]
  <2> HIDE DEF b
  <2> QED BY <1>1, ConsumedIs
<1> HIDE DEF n, c, b
<1> DEFINE T == {k \in Nat : k <= n => Asks(f[k], h) /\ Reads(f[k], h, c + k)}
<1>5. 0 \in T
  <2>1. c + 0 = c
    BY <1>2
  <2> QED BY <1>4, <2>1 DEF c
<1>6. ASSUME NEW k \in Nat, k \in T PROVE k + 1 \in T
  <2> SUFFICES ASSUME k + 1 <= n PROVE Asks(f[k + 1], h) /\ Reads(f[k + 1], h, c + (k + 1))
    OBVIOUS
  <2>1. k + 1 \in 1 .. n /\ (k + 1) - 1 = k /\ k <= n /\ k \in 0 .. n
        /\ c + k \in Nat /\ (c + k) + 1 \in 1 .. Len(h.said) /\ (c + k) + 1 = c + (k + 1)
    <3> DEFINE m == Len(h.said)
    <3>1. n \in Nat /\ m \in Nat /\ c \in Nat /\ c + n = m
      BY <1>1, <1>2
    <3> HIDE DEF m
    <3>2. k + 1 \in 1 .. n /\ (k + 1) - 1 = k /\ k <= n /\ k \in 0 .. n
      BY <3>1
    <3>3. c + k \in Nat /\ (c + k) + 1 \in 1 .. m /\ (c + k) + 1 = c + (k + 1)
      BY <3>1
    <3> QED BY <3>2, <3>3 DEF m
  <2>2. f[k + 1] = ReadPiece(f[k], h.said[(c + k) + 1]) /\ f[k] \in EntryKind
    BY <2>1, <1>3, <1>4
  <2>3. Asks(f[k], h) /\ Reads(f[k], h, c + k)
    BY <1>6, <2>1
  <2> HIDE DEF T
  <2>4. Asks(f[k + 1], h) /\ Reads(f[k + 1], h, (c + k) + 1)
    <3> DEFINE m == c + k
               u == f[k]
    <3>1. m \in Nat /\ m + 1 \in 1 .. Len(h.said) /\ u \in EntryKind /\ Asks(u, h) /\ Reads(u, h, m)
      BY <2>1, <2>2, <2>3
    <3> HIDE DEF m, u
    <3>2. Asks(ReadPiece(u, h.said[m + 1]), h) /\ Reads(ReadPiece(u, h.said[m + 1]), h, m + 1)
      BY <3>1, PieceReads
    <3> QED BY <3>2, <2>2 DEF m, u
  <2> QED BY <2>4, <2>1
<1> HIDE DEF T
<1>7. Nat \subseteq T
  BY <1>5, <1>6, Induction
<1>8. n \in T /\ n <= n
  BY <1>1, <1>7
<1> QED BY <1>2, <1>4, <1>8 DEF T, b

-----------------------------------------------------------------------------
(* What the steps of a helper do to it, and to its entry.                  *)

LEMMA HelperHas ==
  ASSUME NEW h \in HelperKind
  PROVE  /\ h.prints \in Nat \ {0} /\ h.buttons \in Nat /\ h.id \in SomeId
         /\ h.report \in BOOLEAN /\ h.closed \in BOOLEAN /\ h.replaced \in BOOLEAN
         /\ h.lost \in BOOLEAN
         /\ h.state \in {"running", "exited", "reaped"}
         /\ h.pipe \in Seq(PieceKind) /\ h.said \in Seq(PieceKind)
         /\ h.texts \in Seq(SomeId) /\ h.reports \in Seq(ReportKind)
         /\ Len(h.pipe) \in Nat /\ Len(h.said) \in Nat
         /\ \A i \in 1 .. Len(h.said) : h.said[i] \in PieceKind
BY DEF HelperKind

\* Nothing its entry depends on has changed.
SameSeen(g, h) ==
  /\ g.state = "reaped" <=> h.state = "reaped"
  /\ g.lost = h.lost
  /\ \A e : Asks(e, h) => Asks(e, g)
  /\ \A e : Reads(e, h, ReadOf(h)) => Reads(e, g, ReadOf(g))

LEMMA SeenStays ==
  ASSUME NEW es, NEW hs, NEW gs, NEW fs, Len(gs) = Len(hs),
         \A p \in 1 .. Len(hs) : SameSeen(gs[p], hs[p]),
         OneHelperEach(es, hs, fs)
  PROVE  OneHelperEach(es, gs, fs)
<1>1. ASSUME NEW k \in 1 .. Len(es) PROVE EntryKept(es[k], gs, fs)
  <2> DEFINE e == es[k]
  <2>1. EntryKept(e, hs, fs)
    BY DEF OneHelperEach
  <2> HIDE DEF e
  <2>2. SameSeen(gs[e.pid], hs[e.pid])
    BY <2>1 DEF EntryKept
  <2>3. EntryKept(e, gs, fs)
    BY <2>1, <2>2 DEF EntryKept, SameSeen
  <2> QED BY <2>3 DEF e
<1>2. ASSUME NEW p \in 1 .. Len(hs), gs[p].state # "reaped", ~gs[p].lost
      PROVE  \E k \in 1 .. Len(es) : es[k].pid = p
  <2>1. hs[p].state # "reaped" /\ ~hs[p].lost
    BY <1>2 DEF SameSeen
  <2> QED BY <2>1 DEF OneHelperEach
<1> QED BY <1>1, <1>2 DEF OneHelperEach

LEMMA PiecesAppend ==
  ASSUME NEW h \in HelperKind, NEW s \in Seq(PieceKind), NEW piece \in PieceKind, Pieces(s, h),
         \A i \in 1 .. Len(s) : s[i].line = Number(h.prints),
         s = <<>> => piece.line = Number(h.prints),
         ~piece.ends => s = <<>>,
         piece.line = Number(h.prints) => \A j \in 1 .. Len(s) : ~s[j].ends,
         piece.line # Number(h.prints) =>
             /\ piece.ends
             /\ \E j \in 1 .. Len(s) : s[j].ends
             /\ piece.line = Default \/ \E b \in 1 .. h.buttons : piece.line = Number(b)
  PROVE  Pieces(Append(s, piece), h)
<1> DEFINE t == Append(s, piece)
           n == Len(s)
<1>1. n \in Nat /\ Len(t) = n + 1 /\ t[n + 1] = piece /\ \A i \in 1 .. n : t[i] = s[i]
  BY AppendProperties
<1>2. s = <<>> => n = 0
  OBVIOUS
<1>3. n = 0 => s = <<>>
  BY EmptySeq
<1> HIDE DEF t
<1>4. ASSUME NEW i \in 1 .. n
      PROVE  /\ i = 1 => t[i].line = Number(h.prints)
             /\ ~t[i].ends => i = 1
             /\ t[i].line = Number(h.prints) => \A j \in 1 .. i - 1 : ~t[j].ends
             /\ t[i].line = Number(h.prints)
  <2>1. \A j \in 1 .. i - 1 : t[j] = s[j]
    BY <1>1
  <2>2. t[i] = s[i]
    BY <1>1
  <2> QED BY <2>1, <2>2 DEF Pieces
<1>5. /\ n + 1 = 1 => piece.line = Number(h.prints)
      /\ ~piece.ends => n + 1 = 1
      /\ piece.line = Number(h.prints) => \A j \in 1 .. n : ~t[j].ends
      /\ piece.line # Number(h.prints) =>
           /\ piece.ends
           /\ \E j \in 1 .. n : t[j].ends
           /\ piece.line = Default \/ \E b \in 1 .. h.buttons : piece.line = Number(b)
  <2>1. \A j \in 1 .. n : t[j].ends = s[j].ends
    BY <1>1
  <2> QED BY <2>1, <1>1, <1>2, <1>3
<1>6. \A i \in 1 .. n + 1 : i \in 1 .. n \/ i = n + 1
  BY <1>1
<1>7. (n + 1) - 1 = n
  BY <1>1
<1> HIDE DEF n
<1> QED BY <1>1, <1>4, <1>5, <1>6, <1>7 DEF Pieces, t

LEMMA PrintingKeeps ==
  ASSUME NEW h \in HelperKind, NEW fails, HelperKept(h, fails), h.state = "running",
         NEW line \in NextLines(h),
         NEW ends \in IF h.said = <<>> THEN BOOLEAN ELSE {TRUE},
         NEW g, g = [h EXCEPT !.pipe = Append(h.pipe, [line |-> line, ends |-> ends]),
                              !.said = Append(h.said, [line |-> line, ends |-> ends])]
  PROVE  g \in HelperKind /\ HelperKept(g, fails) /\ SameSeen(g, h)
<1> DEFINE piece == [line |-> line, ends |-> ends]
           s == h.said
           n == Len(s)
           t == Append(s, piece)
<1>1. /\ h.prints \in Nat \ {0} /\ h.buttons \in Nat /\ s \in Seq(PieceKind)
      /\ h.pipe \in Seq(PieceKind) /\ n \in Nat /\ Len(h.pipe) \in Nat
      /\ \A i \in 1 .. n : s[i] \in PieceKind
  BY HelperHas
<1>2. /\ WholeTexts(h) /\ Pieces(s, h) /\ Unread(h) /\ h.reports = <<>>
  BY DEF HelperKept, WellSaid
<1>3. s = <<>> <=> n = 0
  BY <1>1
<1>4. ends \in BOOLEAN /\ (s # <<>> => ends)
  OBVIOUS
<1>5. /\ \A i \in 1 .. n : s[i].line = Number(h.prints)
      /\ piece \in PieceKind
      /\ s = <<>> => line = Number(h.prints)
      /\ line = Number(h.prints) => \A j \in 1 .. n : ~s[j].ends
      /\ line # Number(h.prints) =>
             /\ \E j \in 1 .. n : s[j].ends
             /\ line = Default \/ \E b \in 1 .. h.buttons : line = Number(b)
  <2>0. \A m \in Nat : Number(m) \in LineKind
    BY DEF Number, LineKind
  <2>1. CASE s = <<>>
    <3>1. line = Number(h.prints)
      BY <2>1 DEF NextLines
    <3>2. line \in LineKind
      BY <3>1, <2>0, <1>1
    <3>3. piece \in PieceKind
      BY <3>2, <1>4 DEF PieceKind
    <3> QED BY <2>1, <3>1, <3>3, <1>3
  <2>2. CASE WithinLine(h)
    <3>1. s # <<>> /\ ~s[n].ends /\ line = s[n].line
      BY <2>2 DEF NextLines, WithinLine, Last
    <3>2. n \in 1 .. n
      BY <3>1, <1>1, <1>3
    <3>3. n = 1 /\ s[1].line = Number(h.prints)
      BY <3>1, <3>2, <1>2 DEF Pieces
    <3>4. line \in LineKind
      BY <3>1, <3>3, <2>0, <1>1
    <3>5. piece \in PieceKind
      BY <3>4, <1>4 DEF PieceKind
    <3> QED BY <3>1, <3>3, <3>5
  <2>3. CASE s # <<>> /\ ~WithinLine(h)
    <3>1. n \in 1 .. n /\ 1 \in 1 .. n
      BY <2>3, <1>1, <1>3
    <3>2. s[n].ends
      BY <2>3 DEF WithinLine, Last
    <3>3. s[1].line = Number(h.prints)
      BY <3>1, <1>2 DEF Pieces
    <3>4. ~ \E i \in DOMAIN s : s[i].line # s[1].line
      BY <2>3 DEF NextLines
    <3>5. \A i \in 1 .. n : s[i].line = Number(h.prints)
      BY <3>3, <3>4, <1>1
    <3>6. line \in {Default} \cup {Number(b) : b \in (1 .. h.buttons) \ {h.prints}}
      BY <2>3, <3>4 DEF NextLines
    <3>7. line # Number(h.prints)
      BY <3>6 DEF Number, Default
    <3>8. line = Default \/ \E b \in 1 .. h.buttons : line = Number(b)
      BY <3>6
    <3>9. Default \in LineKind /\ \A b \in 1 .. h.buttons : Number(b) \in LineKind
      BY <2>0, <1>1 DEF Default, LineKind
    <3>10. piece \in PieceKind
      BY <3>8, <3>9, <1>4 DEF PieceKind
    <3> QED BY <2>3, <3>1, <3>2, <3>5, <3>7, <3>8, <3>10
  <2> QED BY <2>1, <2>2, <2>3
<1> HIDE DEF n, s
<1>6. Pieces(t, h)
  <2> HIDE DEF piece
  <2>1. piece.line = line /\ piece.ends = ends
    BY DEF piece
  <2>2. ~piece.ends => s = <<>>
    BY <2>1, <1>4
  <2>3. piece.line # Number(h.prints) => piece.ends
    BY <2>1, <1>1, <1>3, <1>4, <1>5
  <2> QED BY <2>1, <2>2, <2>3, <1>1, <1>2, <1>5, PiecesAppend DEF n
<1> HIDE DEF piece
<1>7. /\ t \in Seq(PieceKind) /\ Len(t) = n + 1 /\ t[n + 1] = piece
      /\ \A i \in 1 .. n : t[i] = s[i]
  BY <1>1, <1>5, AppendProperties DEF n
<1> DEFINE q == Append(h.pipe, piece)
           m == Len(h.pipe)
<1>8. /\ q \in Seq(PieceKind) /\ Len(q) = m + 1 /\ q[m + 1] = piece
      /\ \A i \in 1 .. m : q[i] = h.pipe[i]
  BY <1>1, <1>5, AppendProperties
<1> HIDE DEF t, q
<1>9. g = [h EXCEPT !.pipe = q, !.said = t]
  BY DEF q, t, piece, s
<1>10. g \in HelperKind
  BY <1>7, <1>8, <1>9 DEF HelperKind
<1>11. /\ g.pipe = q /\ g.said = t /\ g.prints = h.prints /\ g.buttons = h.buttons
       /\ g.id = h.id /\ g.report = h.report /\ g.closed = h.closed /\ g.state = h.state
       /\ g.texts = h.texts /\ g.replaced = h.replaced /\ g.lost = h.lost
       /\ g.reports = h.reports
  BY <1>9 DEF HelperKind
<1> HIDE DEF m
<1>12. WholeTexts(g) /\ WellSaid(g)
  <2>1. Pieces(t, g)
    BY <1>6, <1>11 DEF Pieces
  <2>2. WholeTexts(g)
    BY <1>2, <1>11 DEF WholeTexts
  <2> QED BY <2>1, <2>2, <1>11 DEF WellSaid
<1>13. m \in Nat /\ m <= n /\ \A i \in 1 .. m : h.pipe[i] = s[(n - m) + i]
  BY <1>1, <1>2 DEF Unread, m, n, s
<1>14. Unread(g)
  <2> SUFFICES ASSUME NEW i \in 1 .. m + 1 PROVE q[i] = t[((n + 1) - (m + 1)) + i]
    <3>1. Len(g.pipe) = m + 1 /\ Len(g.said) = n + 1 /\ m + 1 <= n + 1
      BY <1>1, <1>7, <1>8, <1>11, <1>13
    <3> QED BY <3>1, <1>11 DEF Unread
  <2>1. CASE i \in 1 .. m
    <3>1. ((n + 1) - (m + 1)) + i = (n - m) + i /\ (n - m) + i \in 1 .. n
      BY <2>1, <1>1, <1>13
    <3> QED BY <2>1, <3>1, <1>7, <1>8, <1>13
  <2>2. CASE i = m + 1
    <3>1. ((n + 1) - (m + 1)) + i = n + 1
      BY <2>2, <1>1, <1>13
    <3> QED BY <2>2, <3>1, <1>7, <1>8
  <2> QED BY <2>1, <2>2, <1>13
<1>15. HelperKept(g, fails)
  BY <1>2, <1>11, <1>12, <1>14 DEF HelperKept
<1>16. ReadOf(g) = ReadOf(h) /\ ReadOf(h) \in 0 .. n
  <2>1. ReadOf(g) = (n + 1) - (m + 1) /\ ReadOf(h) = n - m
    BY <1>7, <1>8, <1>11 DEF ReadOf, n, m, s
  <2> QED BY <2>1, <1>1, <1>13
<1>17. SameSeen(g, h)
  <2>1. \A e : Asks(e, h) => Asks(e, g)
    BY <1>11 DEF Asks
  <2>2. ASSUME NEW e, Reads(e, h, ReadOf(h)) PROVE Reads(e, g, ReadOf(g))
    <3> DEFINE c == ReadOf(h)
    <3>1. \A i \in 1 .. c : g.said[i] = h.said[i]
      BY <1>1, <1>7, <1>11, <1>16 DEF s
    <3>2. c = 0 \/ c \in 1 .. c
      BY <1>1, <1>16
    <3>3. c = 0 => ~e.activated
      BY <2>2 DEF Reads
    <3>4. Reads(e, h, c)
      BY <2>2
    <3>5. e.activated => g.said[c].line.n = h.said[c].line.n
      BY <3>1, <3>2, <3>3
    <3> HIDE DEF c
    <3>6. Reads(e, g, c)
      BY <3>1, <3>4, <3>5, <1>11 DEF Reads
    <3> QED BY <3>6, <1>16 DEF c
  <2> QED BY <2>1, <2>2, <1>11 DEF SameSeen
<1> QED BY <1>10, <1>15, <1>17

LEMMA HelperChanges ==
  ASSUME NEW hs \in Seq(HelperKind), NEW p \in 1 .. Len(hs), NEW g \in HelperKind,
         NEW gs, gs = [hs EXCEPT ![p] = g]
  PROVE  /\ gs \in Seq(HelperKind) /\ Len(gs) = Len(hs)
         /\ gs[p] = g
         /\ \A q \in 1 .. Len(hs) : q # p => gs[q] = hs[q]
BY ExceptSeq

LEMMA SeenReflexive ==
  ASSUME NEW h PROVE SameSeen(h, h)
BY DEF SameSeen

(* One helper changes, and nothing its entry depends on.                   *)
LEMMA OneChanges ==
  ASSUME NotifyInv, NEW p \in 1 .. Len(helper), NEW g \in HelperKind,
         HelperKept(g, failed), SameSeen(g, helper[p]),
         helper' = [helper EXCEPT ![p] = g],
         UNCHANGED <<chunk, active, fds, icons, past, failed>>
  PROVE  NotifyInv'
<1>1. helper \in Seq(HelperKind) /\ NotifyTypes /\ HelpersInv /\ Latest(icons, past.added)
  BY DEF NotifyInv, NotifyTypes
<1>2. /\ helper' \in Seq(HelperKind) /\ Len(helper') = Len(helper)
      /\ helper'[p] = g
      /\ \A q \in 1 .. Len(helper) : q # p => helper'[q] = helper[q]
  BY <1>1, HelperChanges
<1>3. NotifyTypes'
  BY <1>1, <1>2 DEF NotifyTypes
<1>4. \A q \in 1 .. Len(helper') : HelperKept(helper'[q], failed')
  BY <1>1, <1>2 DEF HelpersInv
<1>5. ~failed' => OneHelperEach(active', helper', fds')
  <2> SUFFICES ASSUME ~failed PROVE OneHelperEach(active, helper', fds)
    OBVIOUS
  <2>1. \A q \in 1 .. Len(helper) : SameSeen(helper'[q], helper[q])
    <3> SUFFICES ASSUME NEW q \in 1 .. Len(helper) PROVE SameSeen(helper'[q], helper[q])
      OBVIOUS
    <3>1. CASE q = p
      BY <3>1, <1>2
    <3>2. CASE q # p
      BY <3>2, <1>2, SeenReflexive
    <3> QED BY <3>1, <3>2
  <2>2. OneHelperEach(active, helper, fds)
    BY <1>1 DEF HelpersInv
  <2> QED BY <2>1, <2>2, <1>2, SeenStays
<1>6. HelpersInv'
  <2>1. WholeTexts(chunk')
    BY <1>1 DEF HelpersInv
  <2> QED BY <2>1, <1>4, <1>5 DEF HelpersInv
<1> QED BY <1>1, <1>3, <1>6 DEF NotifyInv

LEMMA AllKept ==
  ASSUME NotifyInv
  PROVE  /\ helper \in Seq(HelperKind) /\ Len(helper) \in Nat
         /\ DOMAIN helper = 1 .. Len(helper)
         /\ \A p \in 1 .. Len(helper) : helper[p] \in HelperKind /\ HelperKept(helper[p], failed)
         /\ active \in Seq(EntryKind) /\ Len(active) \in Nat
         /\ DOMAIN active = 1 .. Len(active)
         /\ \A k \in 1 .. Len(active) : active[k] \in EntryKind
         /\ ~failed => OneHelperEach(active, helper, fds)
         /\ fds \in [Fds -> 0 .. Len(helper)]
         /\ failed \in BOOLEAN
<1>1. helper \in Seq(HelperKind) /\ active \in Seq(EntryKind)
  BY DEF NotifyInv, NotifyTypes
<1>2. \A p \in 1 .. Len(helper) : HelperKept(helper[p], failed)
  BY DEF NotifyInv, HelpersInv
<1>3. ~failed => OneHelperEach(active, helper, fds)
  BY DEF NotifyInv, HelpersInv
<1>4. fds \in [Fds -> 0 .. Len(helper)] /\ failed \in BOOLEAN
  BY DEF NotifyInv, NotifyTypes
<1>5. /\ Len(helper) \in Nat /\ DOMAIN helper = 1 .. Len(helper)
      /\ \A p \in 1 .. Len(helper) : helper[p] \in HelperKind
  BY <1>1
<1>6. /\ Len(active) \in Nat /\ DOMAIN active = 1 .. Len(active)
      /\ \A p \in 1 .. Len(active) : active[p] \in EntryKind
  BY <1>1
<1> QED BY <1>1, <1>2, <1>3, <1>4, <1>5, <1>6

LEMMA PrintsInv ==
  ASSUME NotifyInv, NEW p \in DOMAIN helper, PrintsLine(p)
  PROVE  NotifyInv'
<1> DEFINE h == helper[p]
<1>1. /\ helper \in Seq(HelperKind) /\ p \in 1 .. Len(helper) /\ h \in HelperKind
      /\ HelperKept(h, failed) /\ h.state = "running"
  BY AllKept DEF PrintsLine
<1>2. PICK line \in NextLines(h), ends \in IF h.said = <<>> THEN BOOLEAN ELSE {TRUE} :
         helper' = [helper EXCEPT ![p].pipe = Append(@, [line |-> line, ends |-> ends]),
                                  ![p].said = Append(@, [line |-> line, ends |-> ends])]
  BY DEF PrintsLine
<1> DEFINE piece == [line |-> line, ends |-> ends]
           g == [h EXCEPT !.pipe = Append(h.pipe, piece), !.said = Append(h.said, piece)]
<1>3. g \in HelperKind /\ HelperKept(g, failed) /\ SameSeen(g, h)
  <2> HIDE DEF h
  <2> QED BY <1>1, <1>2, PrintingKeeps
<1>4. helper' = [helper EXCEPT ![p] = g]
  BY <1>1, <1>2
<1>5. UNCHANGED <<chunk, active, fds, icons, past, failed>>
  BY DEF PrintsLine
<1> HIDE DEF g
<1> QED BY <1>1, <1>3, <1>4, <1>5, OneChanges

LEMMA ExitsInv ==
  ASSUME NotifyInv, NEW p \in DOMAIN helper, Exits(p)
  PROVE  NotifyInv'
<1> DEFINE h == helper[p]
           g == [h EXCEPT !.state = "exited"]
<1>1. /\ helper \in Seq(HelperKind) /\ p \in 1 .. Len(helper) /\ h \in HelperKind
      /\ HelperKept(h, failed) /\ h.state = "running" /\ ~WithinLine(h)
  BY AllKept DEF Exits
<1>2. helper' = [helper EXCEPT ![p] = g]
  BY <1>1 DEF Exits
<1>3. UNCHANGED <<chunk, active, fds, icons, past, failed>>
  BY DEF Exits
<1> HIDE DEF h
<1>4. g \in HelperKind
  BY <1>1 DEF HelperKind
<1>5. /\ g.pipe = h.pipe /\ g.said = h.said /\ g.prints = h.prints /\ g.buttons = h.buttons
      /\ g.id = h.id /\ g.report = h.report /\ g.closed = h.closed /\ g.state = "exited"
      /\ g.texts = h.texts /\ g.replaced = h.replaced /\ g.lost = h.lost
      /\ g.reports = h.reports
  BY <1>1 DEF HelperKind
<1> HIDE DEF g
<1>6. SameSeen(g, h)
  BY <1>1, <1>5 DEF SameSeen, Asks, Reads, ReadOf
<1>7. HelperKept(g, failed)
  <2>1. WholeTexts(g) /\ Unread(g)
    BY <1>1, <1>5 DEF HelperKept, WholeTexts, Unread
  <2>2. g.said # <<>> => g.said[Len(g.said)].ends
    BY <1>1, <1>5 DEF WithinLine, Last
  <2>3. Pieces(g.said, g)
    BY <1>1, <1>5 DEF HelperKept, WellSaid, Pieces
  <2> QED BY <2>1, <2>2, <2>3, <1>1, <1>5 DEF HelperKept, WellSaid
<1> QED BY <1>1, <1>2, <1>3, <1>4, <1>6, <1>7, OneChanges DEF h

-----------------------------------------------------------------------------
(* Reading the output.                                                     *)

LEMMA ReadByIs ==
  ASSUME NEW e \in EntryKind, NEW h \in HelperKind
  PROVE  LET d == ReadBy(e, h)
         IN  /\ d \in EntryKind
             /\ d.pid = e.pid
             /\ d.fd = IF h.state = "running" THEN e.fd ELSE -1
             /\ \A g : Asks(Consumed(e, h.pipe), g) => Asks(d, g)
             /\ \A g, c : Reads(Consumed(e, h.pipe), g, c) => Reads(d, g, c)
<1> DEFINE r == Consumed(e, h.pipe)
<1>1. r \in EntryKind /\ SameEntry(r, e)
  BY HelperHas, ConsumedKeeps
<1>2. ReadBy(e, h) = IF h.state = "running" THEN r ELSE [r EXCEPT !.fd = -1]
  BY DEF ReadBy
<1> HIDE DEF r
<1>3. CASE h.state = "running"
  BY <1>1, <1>2, <1>3 DEF SameEntry, r
<1>4. CASE h.state # "running"
  <2> DEFINE d == [r EXCEPT !.fd = -1]
  <2>1. d \in EntryKind
    <3>1. -1 \in Int
      OBVIOUS
    <3> HIDE DEF d
    <3>2. d = [r EXCEPT !.fd = -1]
      BY DEF d
    <3> QED BY <1>1, <3>1, <3>2 DEF EntryKind
  <2>2. /\ d.fd = -1 /\ d.pid = r.pid /\ d.id = r.id /\ d.buttons = r.buttons
        /\ d.report = r.report /\ d.closed = r.closed /\ d.external = r.external
        /\ d.activated = r.activated /\ d.button = r.button
    BY <1>1 DEF EntryKind
  <2>3. ReadBy(e, h) = d
    BY <1>2, <1>4
  <2> HIDE DEF d
  <2>4. \A g : Asks(r, g) => Asks(d, g)
    BY <2>2 DEF Asks
  <2>5. \A g, c : Reads(r, g, c) => Reads(d, g, c)
    BY <2>2 DEF Reads
  <2>6. d.pid = e.pid
    BY <2>2, <1>1 DEF SameEntry
  <2> QED BY <2>1, <2>2, <2>3, <2>4, <2>5, <2>6, <1>4 DEF r
<1> QED BY <1>3, <1>4

LEMMA EntryChanges ==
  ASSUME NEW es \in Seq(EntryKind), NEW k \in 1 .. Len(es), NEW d \in EntryKind,
         NEW ds, ds = [es EXCEPT ![k] = d]
  PROVE  /\ ds \in Seq(EntryKind) /\ Len(ds) = Len(es)
         /\ ds[k] = d
         /\ \A j \in 1 .. Len(es) : j # k => ds[j] = es[j]
BY ExceptSeq

\* The descriptor of an entry is its helper's only.
LEMMA OneEntryPerFd ==
  ASSUME NEW es, NEW hs, NEW fs, OneHelperEach(es, hs, fs), NEW fd \in Fds, fs[fd] # 0
  PROVE  \E k \in 1 .. Len(es) :
            /\ es[k].pid = fs[fd] /\ es[k].fd = fd
            /\ \A j \in 1 .. Len(es) : es[j].fd = fd => j = k
<1>1. PICK k \in 1 .. Len(es) : es[k].pid = fs[fd] /\ es[k].fd = fd
  BY DEF OneHelperEach
<1>2. ASSUME NEW j \in 1 .. Len(es), es[j].fd = fd PROVE j = k
  <2>1. fd # -1
    BY NotifyAssumption DEF Fds
  <2>2. EntryKept(es[j], hs, fs)
    BY DEF OneHelperEach
  <2>3. es[j].pid = fs[fd]
    BY <2>1, <2>2, <1>2 DEF EntryKept
  <2> QED BY <2>3, <1>1 DEF OneHelperEach
<1> QED BY <1>1, <1>2

LEMMA ReadEach ==
  ASSUME active \in Seq(EntryKind), helper \in Seq(HelperKind), NEW fd \in Fds,
         OneHelperEach(active, helper, fds), fds \in [Fds -> 0 .. Len(helper)], fds[fd] # 0,
         WellSaid(helper[fds[fd]]), Unread(helper[fds[fd]]),
         [helper[fds[fd]] EXCEPT !.pipe = <<>>] \in HelperKind,
         NEW k \in 1 .. Len(active), active[k].fd = fd
  PROVE  OneHelperEach([active EXCEPT ![k] = ReadBy(active[k], helper[fds[fd]])],
                       [helper EXCEPT ![fds[fd]] = [helper[fds[fd]] EXCEPT !.pipe = <<>>]],
                       IF helper[fds[fd]].state # "running" THEN [fds EXCEPT ![fd] = 0] ELSE fds)
<1> DEFINE p == fds[fd]
           h == helper[p]
           e == active[k]
           d == ReadBy(e, h)
           n == Len(active)
           g == [h EXCEPT !.pipe = <<>>]
           ds == [active EXCEPT ![k] = d]
           gs == [helper EXCEPT ![p] = g]
           ft == IF h.state # "running" THEN [fds EXCEPT ![fd] = 0] ELSE fds
<1>1. p \in 1 .. Len(helper)
  OBVIOUS
<1>2. h \in HelperKind /\ e \in EntryKind /\ g \in HelperKind
  BY <1>1
<1>3. e.pid = p /\ \A j \in 1 .. n : active[j].fd = fd => j = k
  BY OneEntryPerFd
<1>4. EntryKept(e, helper, fds)
  BY DEF OneHelperEach
<1>5. h.state # "reaped" /\ ~h.lost /\ Asks(e, h) /\ Reads(e, h, ReadOf(h))
  BY <1>3, <1>4 DEF EntryKept
<1>6. /\ g.pipe = <<>> /\ g.said = h.said /\ g.prints = h.prints /\ g.buttons = h.buttons
      /\ g.id = h.id /\ g.report = h.report /\ g.closed = h.closed /\ g.state = h.state
      /\ g.replaced = h.replaced /\ g.lost = h.lost
  BY <1>2 DEF HelperKind
<1>7. Asks(Consumed(e, h.pipe), h) /\ Reads(Consumed(e, h.pipe), h, Len(h.said))
  <2>1. WellSaid(h) /\ Unread(h)
    OBVIOUS
  <2> HIDE DEF e, h
  <2> QED BY <2>1, <1>2, <1>5, ConsumedReads
<1>8. /\ d \in EntryKind /\ d.pid = p /\ d.fd = IF h.state = "running" THEN fd ELSE -1
      /\ Asks(d, h) /\ Reads(d, h, Len(h.said))
  <2>1. e.fd = fd
    OBVIOUS
  <2> HIDE DEF e, h
  <2> QED BY <2>1, <1>2, <1>3, <1>7, ReadByIs
<1> HIDE DEF d
<1>9. /\ gs \in Seq(HelperKind) /\ Len(gs) = Len(helper) /\ gs[p] = g
      /\ \A q \in 1 .. Len(helper) : q # p => gs[q] = helper[q]
  <2> HIDE DEF p, g
  <2> QED BY <1>1, <1>2, HelperChanges
<1>10. /\ Len(ds) = n /\ ds[k] = d /\ \A j \in 1 .. n : j # k => ds[j] = active[j]
  BY <1>8, EntryChanges
<1>11. \A f \in Fds : ft[f] = IF f = fd /\ h.state # "running" THEN 0 ELSE fds[f]
  OBVIOUS
<1>12. /\ \A j \in 1 .. n : EntryKept(active[j], helper, fds)
       /\ \A i, j \in 1 .. n : active[i].pid = active[j].pid => i = j
       /\ \A f \in Fds : fds[f] # 0 => \E j \in 1 .. n : active[j].pid = fds[f] /\ active[j].fd = f
       /\ \A q \in 1 .. Len(helper) : helper[q].state # "reaped" /\ ~helper[q].lost =>
             \E j \in 1 .. n : active[j].pid = q
  BY DEF OneHelperEach
<1>13. fd # -1
  BY NotifyAssumption DEF Fds
<1>14. \A j \in 1 .. n : ds[j].pid = active[j].pid
  BY <1>3, <1>8, <1>10
<1>15. active[k].fd = fd
  OBVIOUS
<1> HIDE DEF p, n, e, ds, gs, ft, g, h
<1>16. EntryKept(ds[k], gs, ft)
  <2>1. ReadOf(g) = Len(h.said)
    <3>1. Len(h.said) \in Nat /\ Len(<<>>) = 0
      BY <1>2, HelperHas
    <3> QED BY <3>1, <1>6 DEF ReadOf
  <2>2. Asks(d, g) /\ Reads(d, g, ReadOf(g))
    <3>1. Asks(d, g)
      BY <1>6, <1>8 DEF Asks
    <3> DEFINE m == Len(h.said)
    <3>2. Reads(d, h, m)
      BY <1>8
    <3> HIDE DEF m
    <3>3. Reads(d, g, m)
      BY <1>6, <3>2 DEF Reads
    <3> QED BY <2>1, <3>1, <3>3 DEF m
  <2>3. d.fd # -1 => d.fd \in Fds /\ ft[d.fd] = p
    BY <1>8, <1>11 DEF p
  <2> QED BY <2>2, <2>3, <1>1, <1>5, <1>6, <1>8, <1>9, <1>10 DEF EntryKept
<1>17. ASSUME NEW j \in 1 .. n, j # k PROVE EntryKept(ds[j], gs, ft)
  <2>1. ds[j] = active[j] /\ EntryKept(active[j], helper, fds)
    BY <1>10, <1>12, <1>17
  <2>2. active[j].pid # p /\ active[j].fd # fd
    BY <1>3, <1>12, <1>17 DEF e
  <2>3. gs[active[j].pid] = helper[active[j].pid]
    BY <2>1, <2>2, <1>9 DEF EntryKept
  <2>4. active[j].fd \in Fds => ft[active[j].fd] = fds[active[j].fd]
    BY <2>2, <1>11
  <2> HIDE DEF OneHelperEach
  <2> QED BY <2>1, <2>3, <2>4, <1>9 DEF EntryKept
<1>18. ASSUME NEW f \in Fds, ft[f] # 0
       PROVE  \E j \in 1 .. n : ds[j].pid = ft[f] /\ ds[j].fd = f
  <2>1. ft[f] = fds[f] /\ fds[f] # 0 /\ (f = fd => h.state = "running")
    BY <1>11, <1>18
  <2>2. PICK j \in 1 .. n : active[j].pid = fds[f] /\ active[j].fd = f
    BY <2>1, <1>12
  <2>3. ds[j].fd = f
    BY <2>1, <2>2, <1>8, <1>10, <1>15
  <2> QED BY <2>1, <2>2, <2>3, <1>14
<1>19. ASSUME NEW q \in 1 .. Len(gs), gs[q].state # "reaped", ~gs[q].lost
       PROVE  \E j \in 1 .. n : ds[j].pid = q
  <2>1. helper[q].state # "reaped" /\ ~helper[q].lost /\ q \in 1 .. Len(helper)
    <3>1. q \in 1 .. Len(helper)
      BY <1>9
    <3>2. CASE q = p
      BY <3>1, <3>2, <1>5 DEF h
    <3>3. CASE q # p
      BY <3>1, <3>3, <1>9, <1>19
    <3> QED BY <3>2, <3>3
  <2>2. PICK j \in 1 .. n : active[j].pid = q
    BY <2>1, <1>12
  <2> QED BY <2>2, <1>14
<1>20. \A i, j \in 1 .. n : ds[i].pid = ds[j].pid => i = j
  BY <1>12, <1>14
<1>21. OneHelperEach(ds, gs, ft)
  BY <1>10, <1>16, <1>17, <1>18, <1>19, <1>20 DEF OneHelperEach
<1> QED BY <1>21 DEF ds, gs, ft, g, h, p, d, e

LEMMA ReadOutputInv ==
  ASSUME NotifyInv, NEW fd \in Fds, ReadOutput(fd)
  PROVE  NotifyInv'
<1> DEFINE p == fds[fd]
           h == helper[p]
           for == {k \in DOMAIN active : active[k].fd = fd}
           g == [h EXCEPT !.pipe = <<>>]
<1>1. /\ helper \in Seq(HelperKind) /\ p \in 1 .. Len(helper) /\ h \in HelperKind
      /\ HelperKept(h, failed) /\ fds \in [Fds -> 0 .. Len(helper)] /\ fds[fd] # 0
      /\ active \in Seq(EntryKind) /\ DOMAIN active = 1 .. Len(active)
      /\ failed \in BOOLEAN /\ (~failed => OneHelperEach(active, helper, fds))
  <2>1. fds[fd] # 0
    BY DEF ReadOutput
  <2>2. fds[fd] \in 1 .. Len(helper)
    BY <2>1, AllKept
  <2> QED BY <2>1, <2>2, AllKept
<1>2. /\ helper' = [helper EXCEPT ![p] = g]
      /\ active' = IF for = {} THEN active ELSE [active EXCEPT ![Min(for)] = ReadBy(active[Min(for)], h)]
      /\ fds' = IF h.state # "running" THEN [fds EXCEPT ![fd] = 0] ELSE fds
      /\ UNCHANGED <<chunk, icons, past, failed>>
  BY DEF ReadOutput
<1>3. for # {} => Min(for) \in 1 .. Len(active) /\ active[Min(for)].fd = fd
  <2> SUFFICES ASSUME for # {} PROVE Min(for) \in 1 .. Len(active) /\ active[Min(for)].fd = fd
    OBVIOUS
  <2>1. for \subseteq Nat
    BY <1>1
  <2>2. Min(for) \in for
    <3> HIDE DEF for
    <3> QED BY <2>1, MinOf
  <2> QED BY <2>2, <1>1
<1> DEFINE k == Min(for)
           d == ReadBy(active[k], h)
<1>4. for # {} => active[k] \in EntryKind /\ d \in EntryKind /\ active' = [active EXCEPT ![k] = d]
  <2> SUFFICES ASSUME for # {} PROVE active[k] \in EntryKind /\ d \in EntryKind
                                     /\ active' = [active EXCEPT ![k] = d]
    OBVIOUS
  <2>1. active[k] \in EntryKind
    BY <1>1, <1>3
  <2>2. d \in EntryKind
    <3> HIDE DEF k, h
    <3> QED BY <2>1, <1>1, ReadByIs
  <2> QED BY <2>1, <2>2, <1>2
<1> HIDE DEF h, p, for
<1>5. g \in HelperKind
  <2>1. <<>> \in Seq(PieceKind)
    OBVIOUS
  <2> QED BY <2>1, <1>1 DEF HelperKind
<1>6. /\ g.pipe = <<>> /\ g.said = h.said /\ g.prints = h.prints /\ g.buttons = h.buttons
      /\ g.id = h.id /\ g.report = h.report /\ g.closed = h.closed /\ g.state = h.state
      /\ g.texts = h.texts /\ g.replaced = h.replaced /\ g.lost = h.lost
      /\ g.reports = h.reports
  BY <1>1 DEF HelperKind
<1>7. HelperKept(g, failed)
  <2>1. Len(h.said) \in Nat /\ Len(<<>>) = 0
    BY <1>1, HelperHas
  <2>2. WholeTexts(g) /\ Unread(g)
    BY <1>1, <1>6, <2>1 DEF HelperKept, WholeTexts, Unread
  <2>3. WellSaid(g)
    BY <1>1, <1>6 DEF HelperKept, WellSaid, Pieces
  <2>4. Due(g) = Due(h)
    BY <1>6 DEF Due, Did
  <2> QED BY <2>2, <2>3, <2>4, <1>1, <1>6 DEF HelperKept
<1> HIDE DEF g
<1>8. /\ helper' \in Seq(HelperKind) /\ Len(helper') = Len(helper) /\ helper'[p] = g
      /\ \A q \in 1 .. Len(helper) : q # p => helper'[q] = helper[q]
  BY <1>1, <1>2, <1>5, HelperChanges
<1>9. active' \in Seq(EntryKind)
  <2>1. CASE for = {}
    BY <2>1, <1>1, <1>2
  <2>2. CASE for # {}
    <3> HIDE DEF d, k
    <3>1. k \in 1 .. Len(active)
      BY <2>2, <1>3 DEF k
    <3> QED BY <2>2, <3>1, <1>1, <1>4, EntryChanges
  <2> QED BY <2>1, <2>2
<1>10. /\ fds' \in [Fds -> 0 .. Len(helper)]
       /\ \A f \in Fds : fds'[f] = fds[f] \/ fds'[f] = 0
  BY <1>1, <1>2
<1>11. NotifyTypes'
  <2>1. NotifyTypes
    BY DEF NotifyInv
  <2>2. \A a, b \in Fds : fds'[a] # 0 /\ fds'[a] = fds'[b] => a = b
    BY <2>1, <1>10 DEF NotifyTypes
  <2> QED BY <2>1, <2>2, <1>2, <1>8, <1>9, <1>10 DEF NotifyTypes
<1>12. \A q \in 1 .. Len(helper') : HelperKept(helper'[q], failed')
  BY <1>2, <1>7, <1>8, AllKept
<1>13. ~failed' => OneHelperEach(active', helper', fds')
  <2> SUFFICES ASSUME ~failed PROVE OneHelperEach(active', helper', fds')
    BY <1>2
  <2>1. OneHelperEach(active, helper, fds)
    BY <1>1
  <2>2. \E j \in 1 .. Len(active) : active[j].fd = fd
    BY <2>1, <1>1 DEF OneHelperEach
  <2>3. for # {}
    BY <2>2, <1>1 DEF for
  <2>4. k \in 1 .. Len(active) /\ active[k].fd = fd
    BY <2>3, <1>3
  <2>5. active' = [active EXCEPT ![k] = ReadBy(active[k], h)]
    BY <2>3, <1>4
  <2>6. WellSaid(h) /\ Unread(h)
    BY <1>1 DEF HelperKept
  <2> HIDE DEF k, d
  <2>7. /\ active \in Seq(EntryKind) /\ helper \in Seq(HelperKind)
        /\ fds \in [Fds -> 0 .. Len(helper)] /\ fds[fd] # 0
    BY <1>1
  <2>8. /\ helper' = [helper EXCEPT ![fds[fd]] = [helper[fds[fd]] EXCEPT !.pipe = <<>>]]
        /\ fds' = IF helper[fds[fd]].state # "running" THEN [fds EXCEPT ![fd] = 0] ELSE fds
        /\ active' = [active EXCEPT ![k] = ReadBy(active[k], helper[fds[fd]])]
    BY <2>5, <1>2 DEF h, p, g
  <2>9. /\ WellSaid(helper[fds[fd]]) /\ Unread(helper[fds[fd]])
        /\ [helper[fds[fd]] EXCEPT !.pipe = <<>>] \in HelperKind
    BY <2>6, <1>5 DEF h, p, g
  <2>10. OneHelperEach([active EXCEPT ![k] = ReadBy(active[k], helper[fds[fd]])],
             [helper EXCEPT ![fds[fd]] = [helper[fds[fd]] EXCEPT !.pipe = <<>>]],
             IF helper[fds[fd]].state # "running" THEN [fds EXCEPT ![fd] = 0] ELSE fds)
    BY <2>1, <2>4, <2>7, <2>9, ReadEach
  <2> QED BY <2>8, <2>10
<1>14. HelpersInv'
  <2>1. WholeTexts(chunk')
    BY <1>2 DEF NotifyInv, HelpersInv
  <2> QED BY <2>1, <1>12, <1>13 DEF HelpersInv
<1>15. Latest(icons', past'.added)
  BY <1>2 DEF NotifyInv
<1> QED BY <1>11, <1>14, <1>15 DEF NotifyInv

-----------------------------------------------------------------------------
(* Reaping a helper.                                                       *)

LEMMA ReportsType ==
  ASSUME NEW e \in EntryKind
  PROVE  Reports(e) \in Seq(ReportKind)
<1> DEFINE a == [kind |-> "activated", id |-> e.id, button |-> e.button]
           c == [kind |-> "closed", id |-> e.id, button |-> 0]
           x == IF e.activated /\ e.report THEN <<a>> ELSE <<>>
           y == IF e.closed THEN <<c>> ELSE <<>>
<1>1. a \in ReportKind /\ c \in ReportKind
  BY DEF EntryKind, ReportKind
<1> HIDE DEF a, c
<1>2. x \in Seq(ReportKind) /\ y \in Seq(ReportKind)
  BY <1>1
<1>3. Reports(e) = x \o y
  BY DEF Reports, a, c
<1> HIDE DEF x, y
<1>4. x \o y \in Seq(ReportKind)
  BY <1>2, ConcatProperties
<1> QED BY <1>3, <1>4

LEMMA DidIs ==
  ASSUME NEW h \in HelperKind, WellSaid(h)
  PROVE  /\ Did(h) # {} <=> \E i \in 1 .. Len(h.said) : h.said[i].line # Number(h.prints)
         /\ Did(h) # {} => Len(h.said) \in Nat \ {0} /\ Max(Did(h)) = Len(h.said)
<1> DEFINE s == h.said
           n == Len(s)
<1>1. s \in Seq(PieceKind) /\ n \in Nat /\ DOMAIN s = 1 .. n
  BY HelperHas
<1>2. \A i \in 1 .. n :
        /\ i = 1 => s[i].line = Number(h.prints)
        /\ s[i].line # Number(h.prints) => i = n /\ s[i].ends
  BY DEF WellSaid, Pieces
<1>3. Did(h) = {i \in 1 .. n : s[i].ends /\ s[i].line # s[1].line}
  BY <1>1 DEF Did
<1> HIDE DEF n, s
<1>4. n # 0 => s[1].line = Number(h.prints)
  BY <1>1, <1>2
<1>5. ASSUME NEW i \in Did(h) PROVE i = n /\ i \in 1 .. n /\ s[i].line # Number(h.prints)
  <2>1. i \in 1 .. n /\ s[i].line # s[1].line
    BY <1>3
  <2>2. s[i].line # Number(h.prints)
    BY <2>1, <1>1, <1>4
  <2> QED BY <2>1, <2>2, <1>2
<1>6. ASSUME NEW i \in 1 .. n, s[i].line # Number(h.prints) PROVE i \in Did(h)
  <2>1. s[i].ends /\ s[1].line = Number(h.prints)
    BY <1>1, <1>2, <1>4, <1>6
  <2> QED BY <2>1, <1>3, <1>6
<1>7. Did(h) # {} => n \in Nat \ {0} /\ Max(Did(h)) = n
  <2> SUFFICES ASSUME Did(h) # {} PROVE n \in Nat \ {0} /\ Max(Did(h)) = n
    OBVIOUS
  <2>1. PICK i \in Did(h) : TRUE
    OBVIOUS
  <2>2. n \in Did(h) /\ n \in 1 .. n
    BY <2>1, <1>5
  <2>3. Did(h) \subseteq Int /\ \A j \in Did(h) : j <= n
    BY <1>1, <1>5
  <2>4. Max(Did(h)) = n
    BY ONLY <2>2, <2>3, MaxIs
  <2> QED BY <2>2, <2>4, <1>1
<1>8. Did(h) # {} <=> \E i \in 1 .. n : s[i].line # Number(h.prints)
  BY <1>5, <1>6
<1> QED BY <1>7, <1>8 DEF n, s

(* An entry that has read everything reports what is due.                  *)
LEMMA ReapedDue ==
  ASSUME NEW h \in HelperKind, WellSaid(h), NEW e \in EntryKind, Asks(e, h),
         Reads(e, h, Len(h.said))
  PROVE  Reports(e) = Due(h)
<1> DEFINE acts == \E i \in 1 .. Len(h.said) : h.said[i].line # Number(h.prints)
<1>1. /\ Did(h) # {} <=> acts
      /\ Did(h) # {} => Max(Did(h)) = Len(h.said)
  BY DidIs
<1>2. e.activated <=> acts
  BY DEF Reads
<1>3. e.activated => e.button = h.said[Len(h.said)].line.n
  BY DEF Reads
<1> HIDE DEF acts
<1>4. e.id = h.id /\ e.report = (h.report /\ ~h.replaced) /\ e.closed = (h.closed /\ ~h.replaced)
  BY DEF Asks
<1>5. /\ h.report \in BOOLEAN /\ h.closed \in BOOLEAN /\ h.replaced \in BOOLEAN
      /\ e.activated \in BOOLEAN
  BY DEF HelperKind, EntryKind
<1> DEFINE x == IF e.activated /\ e.report
                THEN <<[kind |-> "activated", id |-> e.id, button |-> e.button]>> ELSE <<>>
           y == IF e.closed THEN <<[kind |-> "closed", id |-> e.id, button |-> 0]>> ELSE <<>>
           z == IF h.report /\ Did(h) # {}
                THEN <<[kind |-> "activated", id |-> h.id,
                        button |-> h.said[Max(Did(h))].line.n]>> ELSE <<>>
           w == IF h.closed THEN <<[kind |-> "closed", id |-> h.id, button |-> 0]>> ELSE <<>>
<1>6. Reports(e) = x \o y
  BY DEF Reports
<1>7. Due(h) = IF h.replaced THEN <<>> ELSE z \o w
  BY DEF Due
<1>8. CASE h.replaced
  <2>1. x = <<>> /\ y = <<>>
    BY <1>4, <1>5, <1>8
  <2>2. <<>> \o <<>> = <<>>
    OBVIOUS
  <2> HIDE DEF x, y
  <2> QED BY <2>1, <2>2, <1>6, <1>7, <1>8
<1>9. CASE ~h.replaced
  <2>1. y = w
    BY <1>4, <1>5, <1>9
  <2>2. x = z
    <3>1. e.activated /\ e.report <=> h.report /\ Did(h) # {}
      BY <1>1, <1>2, <1>4, <1>5, <1>9
    <3>2. Did(h) # {} => e.button = h.said[Max(Did(h))].line.n
      BY <1>1, <1>2, <1>3
    <3> QED BY <3>1, <3>2, <1>4
  <2> HIDE DEF x, y, z, w
  <2> QED BY <2>1, <2>2, <1>6, <1>7, <1>9
<1> QED BY <1>8, <1>9

LEMMA ReapInv ==
  ASSUME NotifyInv, NEW p \in DOMAIN helper, Reap(p)
  PROVE  NotifyInv'
<1> DEFINE h == helper[p]
           of == {k \in DOMAIN active : active[k].pid = p}
           k == Min(of)
           e == active[k]
           n == Len(active)
           reports == IF of = {} THEN <<>> ELSE Reports(e)
           g == [h EXCEPT !.state = "reaped", !.lost = h.lost \/ h.pipe # <<>>, !.pipe = <<>>,
                          !.reports = reports]
<1>1. /\ helper \in Seq(HelperKind) /\ p \in 1 .. Len(helper) /\ h \in HelperKind
      /\ HelperKept(h, failed) /\ fds \in [Fds -> 0 .. Len(helper)] /\ h.state = "exited"
      /\ active \in Seq(EntryKind) /\ DOMAIN active = 1 .. n /\ n \in Nat
      /\ failed \in BOOLEAN /\ (~failed => OneHelperEach(active, helper, fds))
  <2>1. h.state = "exited"
    BY DEF Reap
  <2> QED BY <2>1, AllKept
<1>2. /\ active' = IF of = {} THEN active ELSE RemoveAt(active, k)
      /\ fds' = [fd \in Fds |-> IF of # {} /\ fd \in Closes(e) THEN 0 ELSE fds[fd]]
      /\ UNCHANGED <<chunk, icons, past, failed>>
  BY DEF Reap
<1>3. helper' = [helper EXCEPT ![p] = g]
  <2>1. helper' = [helper EXCEPT ![p].state = "reaped",
                                 ![p].lost = @ \/ h.pipe # <<>>,
                                 ![p].pipe = <<>>,
                                 ![p].reports = reports]
    BY DEF Reap
  <2> HIDE DEF reports, of
  <2> QED BY <2>1, <1>1
<1>4. of # {} => k \in 1 .. n /\ e.pid = p /\ e \in EntryKind
  <2> SUFFICES ASSUME of # {} PROVE k \in 1 .. n /\ e.pid = p /\ e \in EntryKind
    OBVIOUS
  <2>1. of \subseteq Nat
    BY <1>1
  <2>2. Min(of) \in of
    <3> HIDE DEF of
    <3> QED BY <2>1, MinOf
  <2> QED BY <2>2, <1>1
<1>5. \A j \in 1 .. n : active[j].pid = p => j \in of
  BY <1>1
<1>6. reports \in Seq(ReportKind)
  <2>1. CASE of = {}
    BY <2>1
  <2>2. CASE of # {}
    <3> HIDE DEF e, of
    <3> QED BY <2>2, <1>4, ReportsType
  <2> QED BY <2>1, <2>2
<1> HIDE DEF h, of, e, reports
<1>7. g \in HelperKind
  <2>1. <<>> \in Seq(PieceKind) /\ (h.lost \/ h.pipe # <<>>) \in BOOLEAN
    OBVIOUS
  <2> QED BY <2>1, <1>1, <1>6 DEF HelperKind
<1>8. /\ g.pipe = <<>> /\ g.said = h.said /\ g.prints = h.prints /\ g.buttons = h.buttons
      /\ g.id = h.id /\ g.report = h.report /\ g.closed = h.closed /\ g.state = "reaped"
      /\ g.texts = h.texts /\ g.replaced = h.replaced /\ g.lost = (h.lost \/ h.pipe # <<>>)
      /\ g.reports = reports
  BY <1>1 DEF HelperKind
<1> HIDE DEF g
<1>9. /\ helper' \in Seq(HelperKind) /\ Len(helper') = Len(helper) /\ helper'[p] = g
      /\ \A q \in 1 .. Len(helper) : q # p => helper'[q] = helper[q]
  BY <1>1, <1>3, <1>7, HelperChanges
<1>10. ~failed =>
         /\ \A j \in 1 .. n : EntryKept(active[j], helper, fds)
         /\ \A i, j \in 1 .. n : active[i].pid = active[j].pid => i = j
         /\ \A f \in Fds : fds[f] # 0 => \E j \in 1 .. n : active[j].pid = fds[f] /\ active[j].fd = f
         /\ \A q \in 1 .. Len(helper) : helper[q].state # "reaped" /\ ~helper[q].lost =>
              \E j \in 1 .. n : active[j].pid = q
  BY <1>1 DEF OneHelperEach
<1> HIDE DEF n, k
<1>11. ~failed /\ ~g.lost => g.reports = Due(g)
  <2> SUFFICES ASSUME ~failed, ~g.lost PROVE g.reports = Due(g)
    OBVIOUS
  <2>1. ~h.lost /\ h.pipe = <<>>
    BY <1>8
  <2>2. of # {}
    BY <2>1, <1>1, <1>5, <1>10 DEF h
  <2>3. EntryKept(e, helper, fds)
    BY <2>2, <1>4, <1>10 DEF e
  <2>4. Asks(e, h) /\ Reads(e, h, ReadOf(h))
    BY <2>2, <2>3, <1>4 DEF EntryKept, h
  <2>5. ReadOf(h) = Len(h.said)
    <3>1. Len(h.said) \in Nat /\ Len(<<>>) = 0
      BY <1>1, HelperHas
    <3> QED BY <3>1, <2>1 DEF ReadOf
  <2>6. WellSaid(h)
    BY <1>1 DEF HelperKept
  <2>7. Reports(e) = Due(h)
    <3>1. Reads(e, h, Len(h.said))
      BY <2>4, <2>5
    <3> QED BY <3>1, <2>2, <2>4, <2>6, <1>1, <1>4, ReapedDue
  <2>8. Due(g) = Due(h)
    BY <1>8 DEF Due, Did
  <2> QED BY <2>2, <2>7, <2>8, <1>8 DEF reports
<1>12. HelperKept(g, failed)
  <2>1. Len(h.said) \in Nat /\ Len(<<>>) = 0
    BY <1>1, HelperHas
  <2>2. WholeTexts(g) /\ Unread(g)
    BY <1>1, <1>8, <2>1 DEF HelperKept, WholeTexts, Unread
  <2>3. WellSaid(g)
    <3>1. WellSaid(h) /\ h.state # "running"
      BY <1>1 DEF HelperKept
    <3>2. Pieces(g.said, g)
      <4>1. Pieces(h.said, h)
        BY <3>1 DEF WellSaid
      <4> QED BY ONLY <4>1, <1>8 DEF Pieces
    <3>3. g.said # <<>> => g.said[Len(g.said)].ends
      BY <3>1, <1>8 DEF WellSaid
    <3> QED BY <3>2, <3>3 DEF WellSaid
  <2> QED BY <2>2, <2>3, <1>8, <1>11 DEF HelperKept
<1> DEFINE at(i) == IF i < k THEN i ELSE i + 1
<1>13. of # {} => /\ active' \in Seq(EntryKind) /\ Len(active') = n - 1
                  /\ \A i \in 1 .. n - 1 : active'[i] = active[at(i)]
  <2> SUFFICES ASSUME of # {}
               PROVE  /\ active' \in Seq(EntryKind) /\ Len(active') = n - 1
                      /\ \A i \in 1 .. n - 1 : active'[i] = active[at(i)]
    OBVIOUS
  <2>1. active' = RemoveAt(active, k) /\ k \in 1 .. Len(active)
    BY <1>2, <1>4 DEF n
  <2> QED BY <2>1, <1>1, RemovedIs DEF n
<1>14. active' \in Seq(EntryKind)
  BY <1>1, <1>2, <1>13
<1>15. /\ fds' \in [Fds -> 0 .. Len(helper)]
       /\ \A f \in Fds : fds'[f] = fds[f] \/ fds'[f] = 0
  BY <1>1, <1>2
<1>16. NotifyTypes'
  <2>1. NotifyTypes
    BY DEF NotifyInv
  <2>2. \A a, b \in Fds : fds'[a] # 0 /\ fds'[a] = fds'[b] => a = b
    BY <2>1, <1>15 DEF NotifyTypes
  <2> QED BY <2>1, <2>2, <1>2, <1>9, <1>14, <1>15 DEF NotifyTypes
<1>17. \A q \in 1 .. Len(helper') : HelperKept(helper'[q], failed')
  <2> SUFFICES ASSUME NEW q \in 1 .. Len(helper) PROVE HelperKept(helper'[q], failed)
    BY <1>2, <1>9
  <2>1. CASE q = p
    BY <2>1, <1>9, <1>12
  <2>2. CASE q # p
    BY <2>2, <1>9, AllKept
  <2> QED BY <2>1, <2>2
\* An entry of another helper is as before.
<1>18. ASSUME ~failed, NEW j \in 1 .. n, active[j].pid # p
       PROVE  EntryKept(active[j], helper', fds')
  <2> DEFINE a == active[j]
  <2>1. EntryKept(a, helper, fds) /\ a.pid # p
    BY <1>10, <1>18
  <2>2. a.fd # -1 => fds'[a.fd] = fds[a.fd]
    <3> SUFFICES ASSUME a.fd # -1 PROVE fds'[a.fd] = fds[a.fd]
      OBVIOUS
    <3>1. a.fd \in Fds /\ fds[a.fd] = a.pid
      BY <2>1 DEF EntryKept
    <3>2. ~(of # {} /\ a.fd \in Closes(e))
      <4> SUFFICES ASSUME of # {}, a.fd \in Closes(e) PROVE FALSE
        OBVIOUS
      <4>1. e.fd = a.fd /\ e.pid = p
        BY <1>4 DEF Closes
      <4>2. EntryKept(e, helper, fds)
        BY <1>4, <1>10, <1>18 DEF e
      <4>3. fds[a.fd] = p
        BY <4>1, <4>2 DEF EntryKept
      <4> QED BY <4>3, <3>1, <2>1
    <3> QED BY <3>1, <3>2, <1>2
  <2> HIDE DEF a
  <2>3. EntryKept(a, helper', fds')
    BY <2>1, <2>2, <1>9 DEF EntryKept
  <2> QED BY <2>3 DEF a
<1>19. ~failed => OneHelperEach(active', helper', fds')
  <2> SUFFICES ASSUME ~failed PROVE OneHelperEach(active', helper', fds')
    OBVIOUS
  <2>1. ASSUME NEW q \in 1 .. Len(helper), helper'[q].state # "reaped", ~helper'[q].lost
        PROVE  q # p /\ \E j \in 1 .. n : active[j].pid = q
    <3>1. q # p
      BY <2>1, <1>8, <1>9
    <3> QED BY <2>1, <3>1, <1>9, <1>10
  <2>2. CASE of = {}
    <3>1. active' = active /\ \A j \in 1 .. n : active[j].pid # p
      BY <2>2, <1>2, <1>5
    <3>2. \A f \in Fds : fds'[f] = fds[f]
      BY <2>2, <1>2
    <3>3. \A f \in Fds : fds'[f] # 0 =>
             \E j \in 1 .. n : active[j].pid = fds'[f] /\ active[j].fd = f
      BY <3>2, <1>10
    <3>4. Len(active') = n
      BY <3>1 DEF n
    <3> QED BY <2>1, <3>1, <3>3, <3>4, <1>9, <1>10, <1>18 DEF OneHelperEach
  <2>3. CASE of # {}
    <3>1. /\ k \in 1 .. n /\ active[k].pid = p /\ e = active[k]
          /\ Len(active') = n - 1 /\ \A i \in 1 .. n - 1 : active'[i] = active[at(i)]
      BY <2>3, <1>4, <1>13 DEF e
    <3>2. \A i \in 1 .. n - 1 : at(i) \in 1 .. n /\ at(i) # k
      BY <3>1, <1>1
    <3>3. \A i, j \in 1 .. n - 1 : at(i) = at(j) => i = j
      BY <3>1, <1>1
    <3>4. ASSUME NEW j \in 1 .. n, j # k PROVE \E i \in 1 .. n - 1 : at(i) = j
      <4> DEFINE i == IF j < k THEN j ELSE j - 1
      <4>1. i \in 1 .. n - 1 /\ at(i) = j
        BY <3>1, <3>4, <1>1
      <4> HIDE DEF i, at
      <4> QED BY <4>1
    <3> HIDE DEF at
    <3>5. \A i \in 1 .. n - 1 : active[at(i)].pid # p
      BY <3>1, <3>2, <1>10
    <3>6. \A i \in 1 .. n - 1 : EntryKept(active'[i], helper', fds')
      BY <3>1, <3>2, <3>5, <1>18
    <3>7. \A i, j \in 1 .. n - 1 : active'[i].pid = active'[j].pid => i = j
      BY <3>1, <3>2, <3>3, <1>10
    <3>8. ASSUME NEW f \in Fds, fds'[f] # 0
          PROVE  \E i \in 1 .. n - 1 : active'[i].pid = fds'[f] /\ active'[i].fd = f
      <4>1. fds'[f] = fds[f] /\ f \notin Closes(e)
        BY <2>3, <3>8, <1>2
      <4>2. PICK j \in 1 .. n : active[j].pid = fds[f] /\ active[j].fd = f
        BY <3>8, <4>1, <1>10
      <4>3. j # k
        <5>1. e.pid > 0
          BY <3>1, <1>1
        <5> QED BY <5>1, <4>1, <4>2, <3>1 DEF Closes
      <4>4. PICK i \in 1 .. n - 1 : at(i) = j
        BY <4>3, <3>4
      <4> QED BY <4>1, <4>2, <4>4, <3>1
    <3>9. ASSUME NEW q \in 1 .. Len(helper), helper'[q].state # "reaped", ~helper'[q].lost
          PROVE  \E i \in 1 .. n - 1 : active'[i].pid = q
      <4>1. PICK j \in 1 .. n : active[j].pid = q /\ q # p
        BY <3>9, <2>1
      <4>2. PICK i \in 1 .. n - 1 : at(i) = j
        BY <4>1, <3>1, <3>4
      <4> QED BY <4>1, <4>2, <3>1
    <3> QED BY <3>1, <3>6, <3>7, <3>8, <3>9, <1>9 DEF OneHelperEach
  <2> QED BY <2>2, <2>3
<1>20. HelpersInv'
  <2>1. WholeTexts(chunk')
    BY <1>2 DEF NotifyInv, HelpersInv
  <2>2. failed' = failed
    BY <1>2
  <2> QED BY <2>1, <2>2, <1>17, <1>19 DEF HelpersInv
<1>21. Latest(icons', past'.added)
  BY <1>2 DEF NotifyInv
<1> QED BY <1>16, <1>20, <1>21 DEF NotifyInv

LEMMA ResetInv ==
  ASSUME NotifyInv, Reset
  PROVE  NotifyInv'
<1> DEFINE lose(h) == [h EXCEPT !.lost = h.lost \/ h.state # "reaped"]
           n == Len(helper)
<1>1. /\ helper \in Seq(HelperKind) /\ n \in Nat /\ DOMAIN helper = 1 .. n
      /\ \A p \in 1 .. n : helper[p] \in HelperKind /\ HelperKept(helper[p], failed)
      /\ failed \in BOOLEAN /\ fds \in [Fds -> 0 .. n]
      /\ DOMAIN active = 1 .. Len(active)
      /\ ~failed => OneHelperEach(active, helper, fds)
  BY AllKept
<1>2. /\ chunk' = NoChunk /\ active' = <<>> /\ failed' = failed
      /\ icons' = [i \in 1 .. CacheSize |-> NoSlot] /\ past' = [past EXCEPT !.added = <<>>]
      /\ fds' = [fd \in Fds |-> IF \E k \in DOMAIN active : fd \in Closes(active[k]) THEN 0
                                ELSE fds[fd]]
  BY DEF Reset
<1>3. helper' = [p \in 1 .. n |-> lose(helper[p])]
  BY <1>1 DEF Reset
<1> HIDE DEF n
<1>4. ASSUME NEW h \in HelperKind, HelperKept(h, failed)
      PROVE  /\ lose(h) \in HelperKind /\ HelperKept(lose(h), failed)
             /\ lose(h).state # "reaped" => lose(h).lost
  <2> DEFINE g == lose(h)
  <2>1. g \in HelperKind
    <3>1. (h.lost \/ h.state # "reaped") \in BOOLEAN
      OBVIOUS
    <3> QED BY <3>1 DEF HelperKind
  <2>2. /\ g.pipe = h.pipe /\ g.said = h.said /\ g.prints = h.prints /\ g.buttons = h.buttons
        /\ g.id = h.id /\ g.report = h.report /\ g.closed = h.closed /\ g.state = h.state
        /\ g.texts = h.texts /\ g.replaced = h.replaced
        /\ g.lost = (h.lost \/ h.state # "reaped")
        /\ g.reports = h.reports
    BY DEF HelperKind
  <2> HIDE DEF g
  <2>3. WholeTexts(g) /\ Unread(g)
    BY <1>4, <2>2 DEF HelperKept, WholeTexts, Unread
  <2>4. WellSaid(g)
    BY <1>4, <2>2 DEF HelperKept, WellSaid, Pieces
  <2>5. Due(g) = Due(h)
    BY <2>2 DEF Due, Did
  <2>6. HelperKept(g, failed)
    BY <1>4, <2>2, <2>3, <2>4, <2>5 DEF HelperKept
  <2>7. g.state # "reaped" => g.lost
    BY <2>2
  <2> QED BY <2>1, <2>6, <2>7 DEF g
<1> HIDE DEF lose
<1>5. \A p \in 1 .. n : lose(helper[p]) \in HelperKind /\ HelperKept(lose(helper[p]), failed)
                        /\ (lose(helper[p]).state # "reaped" => lose(helper[p]).lost)
  BY <1>1, <1>4
<1>6. helper' \in Seq(HelperKind) /\ Len(helper') = n
  BY <1>1, <1>3, <1>5
<1>7. \A p \in 1 .. n : helper'[p] = lose(helper[p])
  BY <1>3
<1>8. /\ fds' \in [Fds -> 0 .. n]
      /\ \A f \in Fds : fds'[f] = fds[f] \/ fds'[f] = 0
  BY <1>1, <1>2
<1>9. NotifyTypes'
  <2>1. NotifyTypes
    BY DEF NotifyInv
  <2>2. \A a, b \in Fds : fds'[a] # 0 /\ fds'[a] = fds'[b] => a = b
    BY <2>1, <1>8 DEF NotifyTypes
  <2>3. chunk' \in NoteKind
    BY <1>2 DEF NoChunk, NoteKind, SomeId
  <2>4. active' \in Seq(EntryKind)
    BY <1>2
  <2>5. icons' \in [1 .. CacheSize -> SlotKind]
    BY <1>2 DEF NoSlot, SlotKind
  <2>6. past' \in PastKind
    <3>1. <<>> \in Seq(Icons)
      OBVIOUS
    <3> QED BY <2>1, <3>1, <1>2 DEF NotifyTypes, PastKind
  <2>7. Len(helper') <= MaxHelpers
    BY <2>1, <1>6 DEF NotifyTypes, n
  <2> QED BY <2>2, <2>3, <2>4, <2>5, <2>6, <2>7, <1>1, <1>2, <1>6, <1>8 DEF NotifyTypes
\* Every descriptor that is open is closed with its entry.
<1>10. ASSUME ~failed, NEW fd \in Fds PROVE fds'[fd] = 0
  <2>1. CASE fds[fd] = 0
    BY <2>1, <1>8
  <2>2. CASE fds[fd] # 0
    <3>1. PICK k \in 1 .. Len(active) : active[k].pid = fds[fd] /\ active[k].fd = fd
      BY <2>2, <1>1, <1>10 DEF OneHelperEach
    <3>2. fds[fd] > 0
      BY <2>2, <1>1
    <3>3. fd \in Closes(active[k])
      BY <3>1, <3>2 DEF Closes
    <3> QED BY <3>1, <3>3, <1>1, <1>2
  <2> QED BY <2>1, <2>2
<1>11. ~failed' => OneHelperEach(active', helper', fds')
  <2> SUFFICES ASSUME ~failed PROVE OneHelperEach(active', helper', fds')
    BY <1>2
  <2>1. Len(active') = 0
    BY <1>2
  <2>2. \A p \in 1 .. n : helper'[p].state # "reaped" => helper'[p].lost
    BY <1>5, <1>7
  <2>3. \A fd \in Fds : fds'[fd] = 0
    BY <1>10
  <2> QED BY <2>1, <2>2, <2>3, <1>6 DEF OneHelperEach
<1>12. HelpersInv'
  <2>1. WholeTexts(chunk')
    BY <1>2 DEF WholeTexts, NoChunk
  <2>2. \A p \in 1 .. Len(helper') : HelperKept(helper'[p], failed')
    BY <1>2, <1>5, <1>6, <1>7
  <2> QED BY <2>1, <2>2, <1>11 DEF HelpersInv
<1>13. Latest(icons', past'.added)
  <2>1. past'.added = <<>>
    BY <1>2 DEF NotifyInv, NotifyTypes, PastKind
  <2>2. \A s \in 1 .. CacheSize : icons'[s].id = NoIcon
    BY <1>2 DEF NoSlot
  <2>3. Len(<<>>) = 0
    OBVIOUS
  <2> QED BY <2>1, <2>2, <2>3 DEF Latest
<1> QED BY <1>9, <1>12, <1>13 DEF NotifyInv

-----------------------------------------------------------------------------
(* The cache of icons.                                                     *)

LEMMA AddedFinite ==
  ASSUME NEW added \in Seq(Icons)
  PROVE  IsFiniteSet(ToSet(added))
<1> DEFINE n == Len(added)
           f == [i \in 1 .. n |-> added[i]]
<1>1. n \in Nat /\ DOMAIN added = 1 .. n
  OBVIOUS
<1>2. IsFiniteSet(1 .. n)
  BY <1>1, FS_Interval
<1>3. ToSet(added) = {added[i] : i \in 1 .. n}
  BY <1>1 DEF ToSet
<1>4. f \in Surjection(1 .. n, ToSet(added))
  <2>1. f \in [1 .. n -> ToSet(added)]
    BY <1>3
  <2>2. \A t \in ToSet(added) : \E i \in 1 .. n : f[i] = t
    BY <1>3
  <2> HIDE DEF f
  <2> QED BY <2>1, <2>2 DEF Surjection
<1> HIDE DEF f, n
<1> QED BY <1>2, <1>4, FS_Surjection

LEMMA VersionsAppend ==
  ASSUME NEW added \in Seq(Icons), NEW i \in Icons, NEW j
  PROVE  VersionsOf(Append(added, i), j) =
           IF j = i THEN VersionsOf(added, i) \cup {Len(added) + 1} ELSE VersionsOf(added, j)
<1> DEFINE n == Len(added)
           b == Append(added, i)
<1>1. n \in Nat /\ Len(b) = n + 1 /\ b[n + 1] = i /\ \A v \in 1 .. n : b[v] = added[v]
  BY AppendProperties
<1> HIDE DEF b
<1>2. \A v : v \in 1 .. n + 1 <=> v \in 1 .. n \/ v = n + 1
  BY <1>1
<1>3. VersionsOf(b, j) = {v \in 1 .. n + 1 : b[v] = j}
  BY <1>1 DEF VersionsOf
<1> HIDE DEF n
<1>4. VersionsOf(added, j) = {v \in 1 .. n : added[v] = j}
  BY DEF VersionsOf, n
<1>5. VersionsOf(b, j) = {v \in 1 .. n : added[v] = j} \cup (IF i = j THEN {n + 1} ELSE {})
  BY <1>1, <1>2, <1>3
<1> QED BY <1>4, <1>5 DEF b, n

(* A version more of an icon.                                              *)
LEMMA CacheKeeps ==
  ASSUME NEW slots \in [1 .. CacheSize -> SlotKind], NEW added \in Seq(Icons), NEW i \in Icons,
         Latest(slots, added)
  PROVE  LET t == Added(WithoutIcon(slots, i), i, Len(added) + 1)
         IN  t \in [1 .. CacheSize -> SlotKind] /\ Latest(t, Append(added, i))
<1> DEFINE n == Len(added)
           w == WithoutIcon(slots, i)
           free == {s \in DOMAIN w : w[s].id = NoIcon}
           new == [id |-> i, version |-> n + 1]
           t == Added(w, i, n + 1)
           b == Append(added, i)
           S == 1 .. CacheSize
<1>1. CacheSize \in Nat \ {0} /\ NoIcon \notin Icons
  BY NotifyAssumption
<1>2. n \in Nat /\ b \in Seq(Icons) /\ Len(b) = n + 1 /\ b[n + 1] = i
      /\ \A v \in 1 .. n : b[v] = added[v] /\ added[v] \in Icons
  BY AppendProperties
<1>3. w \in [S -> SlotKind] /\ \A s \in S : w[s] = IF slots[s].id = i THEN NoSlot ELSE slots[s]
  BY DEF WithoutIcon, NoSlot, SlotKind
<1>4. new \in SlotKind /\ new.id = i /\ new.version = n + 1
  BY <1>2 DEF SlotKind
<1>5. t = IF free # {} THEN [w EXCEPT ![Min(free)] = new]
          ELSE [s \in DOMAIN w |-> IF s < CacheSize THEN w[s + 1] ELSE new]
  BY DEF Added
<1>6. \A j : VersionsOf(b, j) = IF j = i THEN VersionsOf(added, i) \cup {n + 1}
                                ELSE VersionsOf(added, j)
  BY VersionsAppend
<1>7. \A j : \A v \in VersionsOf(added, j) : v \in 1 .. n
  BY DEF VersionsOf
<1> HIDE DEF t, w, new, b, n
\* What stays in the cache.
<1>8. ASSUME NEW s \in S, w[s].id # NoIcon
      PROVE  /\ w[s].id # i
             /\ w[s].version \in VersionsOf(b, w[s].id)
             /\ \A v \in VersionsOf(b, w[s].id) : v <= w[s].version
             /\ \A u \in S : w[u].id = w[s].id => u = s
             /\ \E v \in 1 .. n : added[v] = w[s].id
  <2>1. slots[s].id # i /\ w[s] = slots[s]
    BY <1>3, <1>8 DEF NoSlot
  <2>2. /\ slots[s].version \in VersionsOf(added, slots[s].id)
        /\ \A v \in VersionsOf(added, slots[s].id) : v <= slots[s].version
    BY <2>1, <1>8 DEF Latest
  <2>3. VersionsOf(b, slots[s].id) = VersionsOf(added, slots[s].id)
    BY <2>1, <1>6
  <2>4. ASSUME NEW u \in S, w[u].id = w[s].id PROVE u = s
    <3>1. w[u].id # NoIcon
      BY <2>4, <1>8
    <3>2. w[u] = slots[u]
      BY <3>1, <1>3 DEF NoSlot
    <3> QED BY <2>1, <2>4, <3>2, <1>8 DEF Latest
  <2>5. \E v \in 1 .. n : added[v] = w[s].id
    BY <2>1, <2>2 DEF VersionsOf, n
  <2> QED BY <2>1, <2>2, <2>3, <2>4, <2>5
<1>9. /\ new.version \in VersionsOf(b, i)
      /\ \A v \in VersionsOf(b, i) : v <= new.version
  BY <1>2, <1>4, <1>6, <1>7
<1>10. DOMAIN w = S
  BY <1>3
<1>11. CASE free # {}
  <2> DEFINE m == Min(free)
  <2>1. m \in S /\ w[m].id = NoIcon
    <3>1. free \subseteq Nat
      BY <1>10
    <3>2. Min(free) \in free
      <4> HIDE DEF free
      <4> QED BY <3>1, <1>11, MinOf
    <3> QED BY <3>2, <1>10
  <2> HIDE DEF m
  <2>2. t = [w EXCEPT ![m] = new]
    BY <1>5, <1>11 DEF m
  <2>3. t \in [S -> SlotKind] /\ \A s \in S : t[s] = IF s = m THEN new ELSE w[s]
    BY <2>1, <2>2, <1>3, <1>4
  <2>4. ASSUME NEW s \in S, t[s].id # NoIcon
        PROVE  /\ t[s].version \in VersionsOf(b, t[s].id)
               /\ \A v \in VersionsOf(b, t[s].id) : v <= t[s].version
               /\ \A u \in S : t[u].id = t[s].id => u = s
    <3>1. CASE s = m
      <4>1. t[s] = new
        BY <3>1, <2>3
      <4>2. \A u \in S : u # m => t[u].id # i
        BY <2>3, <1>8, <1>1
      <4> QED BY <3>1, <4>1, <4>2, <1>4, <1>9
    <3>2. CASE s # m
      <4>1. t[s] = w[s]
        BY <3>2, <2>3
      <4>2. w[s].id # i
        BY <4>1, <2>4, <1>8
      <4>3. \A u \in S : t[u].id = w[s].id => u # m /\ t[u] = w[u]
        BY <4>2, <2>3, <1>4
      <4> QED BY <4>1, <4>3, <2>4, <1>8
    <3> QED BY <3>1, <3>2
  <2>5. ASSUME Cardinality(ToSet(b)) <= CacheSize, NEW v \in 1 .. Len(b)
        PROVE  \E s \in S : t[s].id = b[v]
    <3>1. CASE b[v] = i
      BY <3>1, <2>1, <2>3, <1>4
    <3>2. CASE b[v] # i
      <4>1. v \in 1 .. n /\ b[v] = added[v] /\ added[v] \in Icons
        BY <3>2, <1>2
      <4>2. ToSet(added) \subseteq ToSet(b)
        <5>1. DOMAIN added = 1 .. n /\ DOMAIN b = 1 .. n + 1
          BY <1>2 DEF n
        <5> QED BY <5>1, <1>2 DEF ToSet
      <4>3. Cardinality(ToSet(added)) <= Cardinality(ToSet(b))
        BY <4>2, <1>2, AddedFinite, FS_Subset
      <4>4. Cardinality(ToSet(added)) \in Nat /\ Cardinality(ToSet(b)) \in Nat
        BY <1>2, AddedFinite, FS_CardinalityType
      <4>5. Cardinality(ToSet(added)) <= CacheSize
        BY <4>3, <4>4, <2>5, <1>1
      <4>6. PICK s \in S : slots[s].id = added[v]
        BY <4>1, <4>5 DEF Latest, n
      <4>7. w[s].id = added[v] /\ s # m
        BY <4>1, <4>6, <3>2, <2>1, <1>1, <1>3
      <4> QED BY <4>1, <4>7, <2>3
    <3> QED BY <3>1, <3>2
  <2>6. Latest(t, b)
    BY <2>4, <2>5 DEF Latest
  <2> QED BY <2>3, <2>6 DEF t, w, b, n
<1>12. CASE free = {}
  <2>1. \A s \in S : w[s].id # NoIcon
    BY <1>10, <1>12
  <2>2. t = [s \in S |-> IF s < CacheSize THEN w[s + 1] ELSE new]
    BY <1>5, <1>10, <1>12
  <2>3. \A s \in S : s < CacheSize => s + 1 \in S
    BY <1>1
  <2>4. t \in [S -> SlotKind] /\ \A s \in S : t[s] = IF s < CacheSize THEN w[s + 1] ELSE new
    BY <2>2, <2>3, <1>3, <1>4
  <2>5. \A s \in S : s < CacheSize \/ s = CacheSize
    BY <1>1
  <2>6. ASSUME NEW s \in S, t[s].id # NoIcon
        PROVE  /\ t[s].version \in VersionsOf(b, t[s].id)
               /\ \A v \in VersionsOf(b, t[s].id) : v <= t[s].version
               /\ \A u \in S : t[u].id = t[s].id => u = s
    <3>1. CASE s = CacheSize
      <4>1. t[s] = new
        BY <3>1, <2>4, <1>1
      <4>2. \A u \in S : u < CacheSize => t[u].id # i
        BY <2>1, <2>3, <2>4, <1>8
      <4> QED BY <3>1, <4>1, <4>2, <2>5, <1>4, <1>9
    <3>2. CASE s < CacheSize
      <4>1. t[s] = w[s + 1] /\ s + 1 \in S
        BY <3>2, <2>3, <2>4
      <4>2. w[s + 1].id # i
        BY <4>1, <2>1, <1>8
      <4>3. ASSUME NEW u \in S, t[u].id = t[s].id PROVE u = s
        <5>1. u < CacheSize
          BY <4>1, <4>2, <4>3, <2>4, <2>5, <1>4
        <5>2. t[u] = w[u + 1] /\ u + 1 \in S
          BY <5>1, <2>3, <2>4
        <5>3. u + 1 = s + 1
          BY <5>2, <4>1, <4>3, <2>1, <1>8
        <5> QED BY <5>3
      <4> QED BY <4>1, <4>3, <2>1, <1>8
    <3> QED BY <3>1, <3>2, <2>5
  \* The cache is full: there are more icons than slots.
  <2>7. ~ (Cardinality(ToSet(b)) <= CacheSize)
    <3> DEFINE X == ToSet(b) \ {i}
               f == [s \in S |-> w[s].id]
    <3>1. i \in ToSet(b)
      BY <1>2 DEF ToSet
    <3>2. IsFiniteSet(ToSet(b)) /\ Cardinality(ToSet(b)) \in Nat
      BY <1>2, AddedFinite, FS_CardinalityType
    <3>3. IsFiniteSet(X) /\ Cardinality(X) = Cardinality(ToSet(b)) - 1
      BY <3>1, <3>2, FS_RemoveElement
    <3>4. \A s \in S : w[s].id \in X
      <4> SUFFICES ASSUME NEW s \in S PROVE w[s].id \in X
        OBVIOUS
      <4>1. PICK v \in 1 .. n : added[v] = w[s].id
        BY <2>1, <1>8
      <4>2. v \in DOMAIN b /\ b[v] = w[s].id
        BY <4>1, <1>2
      <4> QED BY <4>2, <2>1, <1>8 DEF ToSet
    <3> HIDE DEF X
    <3>5. f \in Injection(S, X)
      <4>1. f \in [S -> X]
        BY <3>4
      <4>2. \A s, u \in S : f[s] = f[u] => s = u
        BY <2>1, <1>8
      <4> HIDE DEF f
      <4> QED BY <4>1, <4>2 DEF Injection, IsInjective
    <3> HIDE DEF f
    <3>6. Cardinality(S) <= Cardinality(X)
      BY <3>3, <3>5, FS_Injection
    <3>7. Cardinality(S) = CacheSize
      <4>1. 1 \in Int /\ CacheSize \in Int
        BY <1>1
      <4>2. Cardinality(1 .. CacheSize) = IF 1 > CacheSize THEN 0 ELSE CacheSize - 1 + 1
        BY ONLY <4>1, FS_Interval
      <4> QED BY <4>2, <1>1
    <3> QED BY <3>2, <3>3, <3>6, <3>7, <1>1
  <2>8. Latest(t, b)
    BY <2>6, <2>7 DEF Latest
  <2> QED BY <2>4, <2>8 DEF t, w, b, n
<1> QED BY <1>11, <1>12

-----------------------------------------------------------------------------
(* Messages.                                                               *)

LEMMA MessageHas ==
  ASSUME NEW m \in Messages
  PROVE  m.id \in SomeId /\ m.icon \in Icons \cup {NoIcon} /\ m.done \in BOOLEAN
BY DEF Messages, SomeId

LEMMA ChunkedIs ==
  ASSUME NotifyInv, NEW m \in Messages
  PROVE  Chunked(m) \in NoteKind /\ WholeTexts(Chunked(m))
<1> DEFINE n == IF Continues(m) THEN chunk ELSE [NoChunk EXCEPT !.begun = TRUE, !.id = m.id]
<1>1. chunk \in NoteKind /\ WholeTexts(chunk)
  BY DEF NotifyInv, NotifyTypes, HelpersInv
<1>2. m.id \in SomeId /\ m.icon \in Icons \cup {NoIcon}
  BY MessageHas
<1>3. n \in NoteKind /\ n.id = m.id /\ WholeTexts(n)
  <2>1. CASE Continues(m)
    BY <2>1, <1>1 DEF Continues
  <2>2. CASE ~Continues(m)
    <3> DEFINE q == [NoChunk EXCEPT !.begun = TRUE, !.id = m.id]
    <3>1. NoChunk \in NoteKind /\ NoChunk.texts = <<>>
      <4>1. <<>> \in Seq(SomeId)
        OBVIOUS
      <4> QED BY <4>1 DEF NoChunk, NoteKind, SomeId
    <3>2. n = q
      BY <2>2
    <3>3. q \in NoteKind /\ q.id = m.id /\ q.texts = NoChunk.texts
      BY <3>1, <1>2 DEF NoteKind
    <3>4. Len(<<>>) = 0
      OBVIOUS
    <3> HIDE DEF q, n
    <3>5. WholeTexts(q)
      BY <3>1, <3>3, <3>4 DEF WholeTexts
    <3> QED BY <3>2, <3>3, <3>5
  <2> QED BY <2>1, <2>2
<1>4. Chunked(m) = [n EXCEPT !.report = @ \/ m.ask = "report",
                             !.closed = @ \/ m.ask = "closed",
                             !.texts = IF m.kind = "text" THEN Append(@, m.id) ELSE @,
                             !.buttons = IF m.kind = "button" THEN @ + 1 ELSE @,
                             !.icon = IF m.icon = NoIcon THEN @ ELSE m.icon,
                             !.data = @ \/ m.kind = "icon"]
  BY DEF Chunked
<1> HIDE DEF n
<1> DEFINE texts == IF m.kind = "text" THEN Append(n.texts, m.id) ELSE n.texts
           c == [n EXCEPT !.report = n.report \/ m.ask = "report",
                          !.closed = n.closed \/ m.ask = "closed",
                          !.texts = texts,
                          !.buttons = IF m.kind = "button" THEN n.buttons + 1 ELSE n.buttons,
                          !.icon = IF m.icon = NoIcon THEN n.icon ELSE m.icon,
                          !.data = n.data \/ m.kind = "icon"]
<1>5. Chunked(m) = c
  BY <1>3, <1>4 DEF NoteKind
<1>6. n.texts \in Seq(SomeId) /\ n.buttons \in Nat /\ n.icon \in Icons \cup {NoIcon}
      /\ Len(n.texts) \in Nat
  BY <1>3 DEF NoteKind
<1>7. texts \in Seq(SomeId) /\ \A i \in 1 .. Len(texts) : texts[i] = m.id
  <2>1. \A i \in 1 .. Len(n.texts) : n.texts[i] = m.id
    BY <1>3 DEF WholeTexts
  <2>2. CASE m.kind = "text"
    <3> DEFINE a == Append(n.texts, m.id)
    <3>1. /\ a \in Seq(SomeId) /\ Len(a) = Len(n.texts) + 1 /\ a[Len(n.texts) + 1] = m.id
          /\ \A i \in 1 .. Len(n.texts) : a[i] = n.texts[i]
      BY <1>2, <1>6, AppendProperties
    <3>2. texts = a
      BY <2>2
    <3> HIDE DEF a, texts
    <3>3. \A i \in 1 .. Len(n.texts) + 1 : i \in 1 .. Len(n.texts) \/ i = Len(n.texts) + 1
      BY <1>6
    <3> QED BY <3>1, <3>2, <3>3, <2>1
  <2>3. CASE m.kind # "text"
    BY <2>1, <2>3, <1>6
  <2> QED BY <2>2, <2>3
<1> HIDE DEF texts
<1>8. c \in NoteKind
  <2> DEFINE report == n.report \/ m.ask = "report"
             closed == n.closed \/ m.ask = "closed"
             buttons == IF m.kind = "button" THEN n.buttons + 1 ELSE n.buttons
             icon == IF m.icon = NoIcon THEN n.icon ELSE m.icon
             data == n.data \/ m.kind = "icon"
  <2>1. /\ report \in BOOLEAN /\ closed \in BOOLEAN /\ data \in BOOLEAN
        /\ buttons \in Nat /\ icon \in Icons \cup {NoIcon}
    BY <1>2, <1>6
  <2>2. c = [n EXCEPT !.report = report, !.closed = closed, !.texts = texts,
                      !.buttons = buttons, !.icon = icon, !.data = data]
    OBVIOUS
  <2> HIDE DEF report, closed, buttons, icon, data, c
  <2> QED BY ONLY <2>1, <2>2, <1>3, <1>7 DEF NoteKind
<1>9. c.texts = texts /\ c.id = m.id
  BY <1>3 DEF NoteKind
<1> HIDE DEF c
<1>10. WholeTexts(c)
  BY <1>7, <1>9 DEF WholeTexts
<1> QED BY <1>5, <1>8, <1>10

LEMMA QuietIs ==
  ASSUME NotifyInv, NEW n
  PROVE  /\ Quiet(n) \in Seq(EntryKind) /\ Len(Quiet(n)) = Len(active)
         /\ \A k \in 1 .. Len(active) :
              Quiet(n)[k] = IF k \in Replaced(n)
                            THEN [active[k] EXCEPT !.report = FALSE, !.closed = FALSE]
                            ELSE active[k]
<1>1. /\ Len(active) \in Nat /\ DOMAIN active = 1 .. Len(active)
      /\ \A k \in 1 .. Len(active) : active[k] \in EntryKind
  BY AllKept
<1>2. Quiet(n) = [k \in 1 .. Len(active) |-> IF k \in Replaced(n)
                            THEN [active[k] EXCEPT !.report = FALSE, !.closed = FALSE]
                            ELSE active[k]]
  BY <1>1 DEF Quiet
<1>3. \A e \in EntryKind : [e EXCEPT !.report = FALSE, !.closed = FALSE] \in EntryKind
  BY DEF EntryKind
<1>4. \A k \in 1 .. Len(active) : Quiet(n)[k] \in EntryKind
  BY <1>1, <1>2, <1>3
<1>5. Quiet(n) \in Seq(EntryKind)
  <2> DEFINE q == Quiet(n)
             l == Len(active)
  <2>1. l \in Nat /\ q = [k \in 1 .. l |-> q[k]] /\ \A k \in 1 .. l : q[k] \in EntryKind
    BY <1>1, <1>2, <1>4
  <2> HIDE DEF q, l
  <2>2. q \in Seq(EntryKind)
    BY <2>1
  <2> QED BY <2>2 DEF q
<1>6. Len(Quiet(n)) = Len(active)
  <2> DEFINE q == Quiet(n)
             l == Len(active)
  <2>1. l \in Nat /\ DOMAIN q = 1 .. l
    BY <1>1, <1>2
  <2>2. q \in Seq(EntryKind)
    BY <1>5
  <2> HIDE DEF q, l
  <2>3. Len(q) = l
    BY <2>1, <2>2, LenProperties
  <2> QED BY <2>3 DEF q, l
<1> QED BY <1>2, <1>5, <1>6

LEMMA ReplacedIs ==
  ASSUME NotifyInv, NEW n
  PROVE  /\ \A k \in Replaced(n) : k \in 1 .. Len(active) /\ active[k].external \in Nat \ {0}
         /\ Replaced(n) # {} => Max(Replaced(n)) \in Replaced(n)
<1>1. /\ Len(active) \in Nat /\ DOMAIN active = 1 .. Len(active)
      /\ \A k \in 1 .. Len(active) : active[k] \in EntryKind
  BY AllKept
<1>2. \A k \in Replaced(n) : k \in 1 .. Len(active) /\ active[k].external \in Nat \ {0}
  BY <1>1 DEF Replaced, EntryKind
<1>3. ASSUME Replaced(n) # {} PROVE Max(Replaced(n)) \in Replaced(n)
  <2>1. Replaced(n) \subseteq 0 .. Len(active)
    BY <1>1, <1>2
  <2>2. PICK x \in Replaced(n) : \A y \in Replaced(n) : y <= x
    BY <2>1, <1>1, <1>3, LargestOf
  <2>3. Replaced(n) \subseteq Int
    BY <2>1
  <2>4. Max(Replaced(n)) = x
    BY ONLY <2>2, <2>3, MaxIs
  <2> QED BY <2>2, <2>4
<1> QED BY <1>2, <1>3

LEMMA ShownIs ==
  ASSUME NotifyInv, NEW n \in NoteKind, NEW pid \in Int
  PROVE  Shown(n, pid) \in EntryKind /\ Lowest \in Fds /\ fds[Lowest] = 0
<1>1. Lowest \in Fds /\ fds[Lowest] = 0
  BY LowestIsFree DEF NotifyInv
<1>2. Lowest \in Int /\ <<>> \in Seq(PieceKind)
  BY <1>1, NotifyAssumption DEF Fds
<1>3. n.id \in SomeId /\ n.report \in BOOLEAN /\ n.closed \in BOOLEAN /\ n.buttons \in Nat
  BY DEF NoteKind
<1> QED BY <1>1, <1>2, <1>3 DEF Shown, EntryKind

LEMMA ProcessIs ==
  ASSUME NotifyInv, NEW n \in NoteKind, WholeTexts(n), NEW fails
  PROVE  Process(n) \in HelperKind /\ HelperKept(Process(n), fails)
<1> DEFINE h == Process(n)
           prints == IF Replaced(n) = {} THEN Len(helper) + 1
                     ELSE active[Max(Replaced(n))].external
<1>1. Len(helper) \in Nat
  BY AllKept
<1>2. prints \in Nat \ {0}
  BY <1>1, ReplacedIs
<1>3. h = [pid |-> Len(helper) + 1, prints |-> prints,
           id |-> n.id, report |-> n.report, closed |-> n.closed, buttons |-> n.buttons,
           state |-> "running", pipe |-> <<>>, said |-> <<>>,
           texts |-> n.texts, replaced |-> FALSE, lost |-> FALSE, reports |-> <<>>]
  BY DEF Process
<1>4. n.id \in SomeId /\ n.report \in BOOLEAN /\ n.closed \in BOOLEAN /\ n.buttons \in Nat
      /\ n.texts \in Seq(SomeId)
  BY DEF NoteKind
<1>5. <<>> \in Seq(PieceKind) /\ <<>> \in Seq(ReportKind) /\ Len(<<>>) = 0
  OBVIOUS
<1> HIDE DEF h, prints
<1>6. h \in HelperKind
  BY <1>1, <1>2, <1>3, <1>4, <1>5 DEF HelperKind
<1>7. h.state = "running" /\ h.pipe = <<>> /\ h.said = <<>> /\ h.reports = <<>>
      /\ h.texts = n.texts /\ h.id = n.id
  BY <1>3
<1>8. WholeTexts(h)
  BY <1>7 DEF WholeTexts
<1>9. WellSaid(h) /\ Unread(h)
  BY <1>5, <1>7 DEF WellSaid, Pieces, Unread
<1>10. HelperKept(h, fails)
  BY <1>7, <1>8, <1>9 DEF HelperKept
<1> QED BY <1>6, <1>10 DEF h

LEMMA EntryAppends ==
  ASSUME NEW K, NEW s \in Seq(K), NEW e \in K
  PROVE  /\ Append(s, e) \in Seq(K) /\ Len(Append(s, e)) = Len(s) + 1
         /\ Append(s, e)[Len(s) + 1] = e
         /\ \A k \in 1 .. Len(s) : Append(s, e)[k] = s[k]
         /\ \A k \in 1 .. Len(s) + 1 : k \in 1 .. Len(s) \/ k = Len(s) + 1
         /\ Len(s) \in Nat
<1>1. Len(s) \in Nat
  OBVIOUS
<1>2. \A k \in 1 .. Len(s) + 1 : k \in 1 .. Len(s) \/ k = Len(s) + 1
  BY <1>1
<1> QED BY <1>1, <1>2, AppendProperties

\* The helpers and entries, in every state the messages lead to.
HelpersTyped ==
  /\ active \in Seq(EntryKind)
  /\ helper \in Seq(HelperKind) /\ Len(helper) <= MaxHelpers
  /\ fds \in [Fds -> 0 .. Len(helper)]
  /\ \A a, b \in Fds : fds[a] # 0 /\ fds[a] = fds[b] => a = b
  /\ failed \in BOOLEAN
  /\ \A p \in 1 .. Len(helper) : HelperKept(helper[p], failed)
  /\ ~failed => OneHelperEach(active, helper, fds)

\* A helper is started.
Starts(n) ==
  /\ Len(helper) < MaxHelpers
  /\ helper' = Append(
       [p \in DOMAIN helper |->
           [helper[p] EXCEPT !.replaced = @ \/ \E k \in Replaced(n) : active[k].pid = p]],
       Process(n))
  /\ fds' = [fds EXCEPT ![Lowest] = Len(helper) + 1]
  /\ active' = Append(Quiet(n), Shown(n, Len(helper) + 1))
  /\ UNCHANGED failed

LEMMA StartsKeeps ==
  ASSUME NotifyInv, NEW n \in NoteKind, WholeTexts(n), Starts(n)
  PROVE  HelpersTyped'
<1> DEFINE l == Len(helper)
           r(p) == \E k \in Replaced(n) : active[k].pid = p
           mark(p) == [helper[p] EXCEPT !.replaced = helper[p].replaced \/ r(p)]
           old == [p \in 1 .. l |-> mark(p)]
           h == Process(n)
           q == Quiet(n)
           e == Shown(n, l + 1)
           a == Len(active)
<1>1. /\ helper \in Seq(HelperKind) /\ l \in Nat /\ DOMAIN helper = 1 .. l
      /\ \A p \in 1 .. l : helper[p] \in HelperKind /\ HelperKept(helper[p], failed)
      /\ active \in Seq(EntryKind) /\ a \in Nat
      /\ \A k \in 1 .. a : active[k] \in EntryKind
      /\ fds \in [Fds -> 0 .. l] /\ failed \in BOOLEAN
      /\ ~failed => OneHelperEach(active, helper, fds)
  BY AllKept
<1>2. /\ h \in HelperKind /\ HelperKept(h, failed)
  BY ProcessIs
<1>3. e \in EntryKind /\ Lowest \in Fds /\ fds[Lowest] = 0
  <2>1. l + 1 \in Int
    BY <1>1
  <2> QED BY <2>1, ShownIs
<1>4. /\ q \in Seq(EntryKind) /\ Len(q) = a
      /\ \A k \in 1 .. a :
           q[k] = IF k \in Replaced(n) THEN [active[k] EXCEPT !.report = FALSE, !.closed = FALSE]
                  ELSE active[k]
  BY QuietIs
<1>5. /\ l < MaxHelpers /\ failed' = failed
      /\ helper' = Append(old, h)
      /\ fds' = [fds EXCEPT ![Lowest] = l + 1]
      /\ active' = Append(q, e)
  <2>1. old = [p \in DOMAIN helper |->
           [helper[p] EXCEPT !.replaced = @ \/ \E k \in Replaced(n) : active[k].pid = p]]
    BY <1>1
  <2> QED BY <2>1 DEF Starts
<1> HIDE DEF e, h, q, r
<1>6. ASSUME NEW p \in 1 .. l
      PROVE  LET g == mark(p)
             IN  /\ g \in HelperKind
                 /\ g.pipe = helper[p].pipe /\ g.said = helper[p].said
                 /\ g.prints = helper[p].prints /\ g.buttons = helper[p].buttons
                 /\ g.id = helper[p].id /\ g.report = helper[p].report
                 /\ g.closed = helper[p].closed /\ g.state = helper[p].state
                 /\ g.texts = helper[p].texts /\ g.lost = helper[p].lost
                 /\ g.replaced = (helper[p].replaced \/ r(p))
                 /\ g.reports = helper[p].reports
  <2> DEFINE x == helper[p]
  <2>1. x \in HelperKind
    BY <1>1
  <2>2. (x.replaced \/ r(p)) \in BOOLEAN
    OBVIOUS
  <2> HIDE DEF x
  <2>3. mark(p) = [x EXCEPT !.replaced = x.replaced \/ r(p)]
    BY DEF x
  <2> HIDE DEF mark
  <2>4. LET g == mark(p)
        IN  /\ g \in HelperKind
            /\ g.pipe = x.pipe /\ g.said = x.said /\ g.prints = x.prints /\ g.buttons = x.buttons
            /\ g.id = x.id /\ g.report = x.report /\ g.closed = x.closed /\ g.state = x.state
            /\ g.texts = x.texts /\ g.lost = x.lost
            /\ g.replaced = (x.replaced \/ r(p)) /\ g.reports = x.reports
    BY <2>1, <2>2, <2>3 DEF HelperKind
  <2> QED BY <2>4 DEF x
<1> HIDE DEF mark
<1>7. old \in Seq(HelperKind) /\ Len(old) = l /\ \A p \in 1 .. l : old[p] = mark(p)
  <2>1. \A p \in 1 .. l : mark(p) \in HelperKind
    BY <1>6
  <2>2. old \in Seq(HelperKind) /\ DOMAIN old = 1 .. l
    BY <2>1, <1>1
  <2>3. \A p \in 1 .. l : old[p] = mark(p)
    OBVIOUS
  <2> HIDE DEF old, l
  <2>4. Len(old) = l
    BY <2>2, <1>1, LenProperties
  <2> QED BY <2>2, <2>3, <2>4
<1> HIDE DEF old, l
<1>8. /\ helper' \in Seq(HelperKind) /\ Len(helper') = l + 1 /\ helper'[l + 1] = h
      /\ \A p \in 1 .. l : helper'[p] = mark(p)
      /\ \A p \in 1 .. l + 1 : p \in 1 .. l \/ p = l + 1
  BY <1>2, <1>5, <1>7, EntryAppends
<1>9. /\ active' \in Seq(EntryKind) /\ Len(active') = a + 1 /\ active'[a + 1] = e
      /\ \A k \in 1 .. a : active'[k] = q[k]
      /\ \A k \in 1 .. a + 1 : k \in 1 .. a \/ k = a + 1
  <2>1. q \in Seq(EntryKind) /\ e \in EntryKind /\ Len(q) = a
    BY <1>3, <1>4
  <2> HIDE DEF a
  <2>2. /\ Append(q, e) \in Seq(EntryKind) /\ Len(Append(q, e)) = Len(q) + 1
        /\ Append(q, e)[Len(q) + 1] = e
        /\ \A k \in 1 .. Len(q) : Append(q, e)[k] = q[k]
        /\ \A k \in 1 .. Len(q) + 1 : k \in 1 .. Len(q) \/ k = Len(q) + 1
    BY <2>1, EntryAppends
  <2>3. active' = Append(q, e)
    BY <1>5
  <2> QED BY <2>1, <2>2, <2>3
<1> HIDE DEF a
<1>10. \A f \in Fds : fds'[f] = IF f = Lowest THEN l + 1 ELSE fds[f]
  BY <1>1, <1>5
<1>11. fds' \in [Fds -> 0 .. l + 1]
  <2>1. \A f \in Fds : fds[f] \in 0 .. l + 1
    BY <1>1
  <2>2. l + 1 \in 0 .. l + 1
    BY <1>1
  <2> QED BY <2>1, <2>2, <1>1, <1>5
<1>12. \A x, y \in Fds : fds'[x] # 0 /\ fds'[x] = fds'[y] => x = y
  <2>1. \A x, y \in Fds : fds[x] # 0 /\ fds[x] = fds[y] => x = y
    BY DEF NotifyInv, NotifyTypes
  <2>2. \A x \in Fds : fds[x] # l + 1
    BY <1>1
  <2> QED BY <2>1, <2>2, <1>10
<1>13. ~failed =>
         /\ \A j \in 1 .. a : EntryKept(active[j], helper, fds)
         /\ \A i, j \in 1 .. a : active[i].pid = active[j].pid => i = j
         /\ \A f \in Fds : fds[f] # 0 => \E j \in 1 .. a : active[j].pid = fds[f] /\ active[j].fd = f
         /\ \A p \in 1 .. l : helper[p].state # "reaped" /\ ~helper[p].lost =>
              \E j \in 1 .. a : active[j].pid = p
  BY <1>1 DEF OneHelperEach, a, l
<1>14. Replaced(n) \subseteq 1 .. a
  BY ReplacedIs DEF a
\* What was replaced was not reaped.
<1>15. ASSUME ~failed, NEW p \in 1 .. l, r(p) PROVE helper[p].state # "reaped"
  <2>1. PICK k \in Replaced(n) : active[k].pid = p
    BY <1>15 DEF r
  <2> QED BY <2>1, <1>13, <1>14, <1>15 DEF EntryKept
<1>16. ASSUME NEW p \in 1 .. l PROVE HelperKept(mark(p), failed)
  <2> DEFINE x == helper[p]
             g == mark(p)
  <2>0. HelperKept(x, failed) /\ x \in HelperKind
    BY <1>1
  <2>1. /\ g.pipe = x.pipe /\ g.said = x.said /\ g.prints = x.prints /\ g.buttons = x.buttons
        /\ g.id = x.id /\ g.report = x.report /\ g.closed = x.closed /\ g.state = x.state
        /\ g.texts = x.texts /\ g.lost = x.lost
        /\ g.replaced = (x.replaced \/ r(p)) /\ g.reports = x.reports
    BY <1>6
  <2>2. ~failed /\ x.state = "reaped" => ~r(p)
    BY <1>15
  <2> HIDE DEF x, g
  <2>3. WholeTexts(g) /\ Unread(g)
    BY <2>0, <2>1 DEF HelperKept, WholeTexts, Unread
  <2>4. WellSaid(g)
    BY <2>0, <2>1 DEF HelperKept, WellSaid, Pieces
  <2>5. ~r(p) => Due(g) = Due(x)
    <3>1. ~r(p) => g.replaced = x.replaced
      BY <2>0, <2>1 DEF HelperKind
    <3> QED BY <2>1, <3>1 DEF Due, Did
  <2>6. HelperKept(g, failed)
    BY <2>0, <2>1, <2>2, <2>3, <2>4, <2>5 DEF HelperKept
  <2> QED BY <2>6 DEF g
<1>17. \A p \in 1 .. l + 1 : HelperKept(helper'[p], failed)
  BY <1>2, <1>8, <1>16
\* An entry that is replaced asks for nothing, as its helper is marked.
<1>18. ASSUME ~failed, NEW k \in 1 .. a
       PROVE  /\ EntryKept(q[k], helper', fds')
              /\ q[k].pid = active[k].pid /\ q[k].fd = active[k].fd /\ q[k].pid \in 1 .. l
  <2> DEFINE x == active[k]
             d == q[k]
             p == x.pid
  <2>1. EntryKept(x, helper, fds) /\ x \in EntryKind
    BY <1>1, <1>13, <1>18 DEF a
  <2>2. d = IF k \in Replaced(n) THEN [x EXCEPT !.report = FALSE, !.closed = FALSE] ELSE x
    BY <1>4 DEF a
  <2>3. k \in Replaced(n) <=> r(p)
    BY <1>13, <1>14, <1>18 DEF r
  <2> HIDE DEF x, d
  <2>4. /\ d.pid = x.pid /\ d.fd = x.fd /\ d.id = x.id /\ d.buttons = x.buttons
        /\ d.external = x.external /\ d.activated = x.activated /\ d.button = x.button
        /\ d.report = (x.report /\ ~r(p)) /\ d.closed = (x.closed /\ ~r(p))
    BY <2>1, <2>2, <2>3 DEF EntryKind
  <2>5. p \in 1 .. l
    BY <2>1 DEF EntryKept, l
  <2> DEFINE y == helper[p]
             g == mark(p)
  <2>6. /\ g.pipe = y.pipe /\ g.said = y.said /\ g.prints = y.prints /\ g.buttons = y.buttons
        /\ g.id = y.id /\ g.report = y.report /\ g.closed = y.closed /\ g.state = y.state
        /\ g.lost = y.lost
        /\ g.replaced = (y.replaced \/ r(p))
    BY <1>6, <2>5
  <2>7. /\ y.state # "reaped" /\ ~y.lost /\ Asks(x, y) /\ Reads(x, y, ReadOf(y))
        /\ x.fd # -1 => x.fd \in Fds /\ fds[x.fd] = p
    BY <2>1 DEF EntryKept
  <2>8. helper'[p] = g
    BY <1>8, <2>5
  <2>9. x.fd # -1 => x.fd \in Fds /\ fds'[x.fd] = p
    <3> SUFFICES ASSUME x.fd # -1 PROVE x.fd \in Fds /\ fds'[x.fd] = p
      OBVIOUS
    <3>1. x.fd \in Fds /\ fds[x.fd] = p
      BY <2>7
    <3>2. x.fd # Lowest
      BY <3>1, <2>5, <1>1, <1>3
    <3> QED BY <3>1, <3>2, <1>10
  <2>10. y \in HelperKind
    BY <1>1, <2>5
  <2> HIDE DEF y, g, p
  <2>11. Asks(d, g)
    <3>1. x.report \in BOOLEAN /\ x.closed \in BOOLEAN
      BY <2>1 DEF EntryKind
    <3> QED BY <3>1, <2>4, <2>6, <2>7 DEF Asks
  <2>12. Reads(d, g, ReadOf(g))
    <3>1. ReadOf(g) = ReadOf(y)
      BY <2>6 DEF ReadOf
    <3> DEFINE c == ReadOf(y)
    <3>2. Reads(x, y, c)
      BY <2>7
    <3> HIDE DEF c
    <3>3. Reads(d, g, c)
      BY <3>2, <2>4, <2>6 DEF Reads
    <3> QED BY <3>1, <3>3 DEF c
  <2>13. p \in 1 .. l + 1
    BY <2>5, <1>1
  <2>14. d.pid = p
    BY <2>4 DEF p
  <2>15. EntryKept(d, helper', fds')
    BY <2>4, <2>6, <2>7, <2>8, <2>9, <2>11, <2>12, <2>13, <2>14, <1>8 DEF EntryKept
  <2> QED BY <2>4, <2>5, <2>14, <2>15 DEF d, x, p
<1>19. EntryKept(e, helper', fds')
  <2>1. /\ e.pid = l + 1 /\ e.fd = Lowest /\ e.id = n.id /\ e.external = 0
        /\ e.report = n.report /\ e.closed = n.closed /\ e.buttons = n.buttons
        /\ e.activated = FALSE /\ e.button = 0
    BY DEF e, Shown
  <2>2. /\ h.state = "running" /\ h.lost = FALSE /\ h.id = n.id /\ h.buttons = n.buttons
        /\ h.report = n.report /\ h.closed = n.closed /\ h.replaced = FALSE
        /\ h.said = <<>> /\ h.pipe = <<>>
    BY DEF h, Process
  <2>3. n.report \in BOOLEAN /\ n.closed \in BOOLEAN
    BY DEF NoteKind
  <2>4. Asks(e, h)
    BY <2>1, <2>2, <2>3 DEF Asks
  <2>5. ReadOf(h) = 0
    <3>1. Len(<<>>) = 0
      OBVIOUS
    <3> QED BY <3>1, <2>2 DEF ReadOf
  <2>6. Reads(e, h, 0)
    BY <2>1 DEF Reads
  <2>7. fds'[Lowest] = l + 1 /\ l + 1 \in 1 .. l + 1
    BY <1>1, <1>3, <1>10
  <2> QED BY <2>1, <2>2, <2>4, <2>5, <2>6, <2>7, <1>3, <1>8 DEF EntryKept
<1>20. ~failed => OneHelperEach(active', helper', fds')
  <2> SUFFICES ASSUME ~failed PROVE OneHelperEach(active', helper', fds')
    OBVIOUS
  <2>1. \A k \in 1 .. a + 1 : EntryKept(active'[k], helper', fds')
    BY <1>9, <1>18, <1>19
  <2>2. e.pid = l + 1 /\ e.fd = Lowest
    BY DEF e, Shown
  <2>3. \A k \in 1 .. a : /\ active'[k].pid = active[k].pid /\ active'[k].fd = active[k].fd
                          /\ active'[k].pid \in 1 .. l
    BY <1>9, <1>18
  <2>4. l + 1 \notin 1 .. l
    BY <1>1
  <2>5. \A j, k \in 1 .. a + 1 : active'[j].pid = active'[k].pid => j = k
    BY <2>2, <2>3, <2>4, <1>9, <1>13
  <2>6. 1 .. a \subseteq 1 .. a + 1 /\ a + 1 \in 1 .. a + 1
    <3>1. a \in Nat
      BY <1>1 DEF a
    <3> QED BY <3>1
  <2>7. ASSUME NEW f \in Fds, fds'[f] # 0
        PROVE  \E k \in 1 .. a + 1 : active'[k].pid = fds'[f] /\ active'[k].fd = f
    <3>1. CASE f = Lowest
      BY <3>1, <2>2, <2>6, <1>9, <1>10
    <3>2. CASE f # Lowest
      <4>1. fds'[f] = fds[f]
        BY <3>2, <1>10
      <4>2. PICK k \in 1 .. a : active[k].pid = fds[f] /\ active[k].fd = f
        BY <4>1, <2>7, <1>13
      <4> QED BY <4>1, <4>2, <2>3, <2>6
    <3> QED BY <3>1, <3>2
  <2>8. ASSUME NEW p \in 1 .. l + 1, helper'[p].state # "reaped", ~helper'[p].lost
        PROVE  \E k \in 1 .. a + 1 : active'[k].pid = p
    <3>1. CASE p = l + 1
      BY <3>1, <2>2, <2>6, <1>9
    <3>2. CASE p \in 1 .. l
      <4>1. helper[p].state # "reaped" /\ ~helper[p].lost
        BY <3>2, <2>8, <1>6, <1>8
      <4>2. PICK k \in 1 .. a : active[k].pid = p
        BY <3>2, <4>1, <1>13
      <4> QED BY <4>2, <2>3, <2>6
    <3> QED BY <3>1, <3>2, <1>8
  <2> QED BY <2>1, <2>5, <2>7, <2>8, <1>8, <1>9 DEF OneHelperEach
<1>21. l + 1 <= MaxHelpers
  BY <1>1, <1>5, NotifyAssumption
<1> QED BY <1>1, <1>5, <1>8, <1>9, <1>11, <1>12, <1>17, <1>20, <1>21 DEF HelpersTyped

LEMMA NotifyKeeps ==
  ASSUME NotifyInv, NEW n \in NoteKind, WholeTexts(n), Notify(n)
  PROVE  HelpersTyped'
<1>1. CASE Starts(n)
  BY <1>1, StartsKeeps
<1>2. CASE /\ active' = Append(Quiet(n), Shown(n, -1))
           /\ failed' = TRUE
           /\ UNCHANGED <<helper, fds>>
  <2>1. NotifyTypes /\ HelpersInv
    BY DEF NotifyInv
  <2>2. active' \in Seq(EntryKind)
    <3>1. -1 \in Int
      OBVIOUS
    <3>2. Quiet(n) \in Seq(EntryKind) /\ Shown(n, -1) \in EntryKind
      BY <3>1, QuietIs, ShownIs
    <3> QED BY <3>2, <1>2, EntryAppends
  <2>3. \A p \in 1 .. Len(helper) : HelperKept(helper[p], TRUE)
    BY <2>1 DEF HelpersInv, HelperKept
  <2> QED BY <2>1, <2>2, <2>3, <1>2 DEF NotifyTypes, HelpersTyped
<1> QED BY <1>1, <1>2 DEF Notify, Starts

LEMMA MessageInv ==
  ASSUME NotifyInv, Message
  PROVE  NotifyInv'
<1>1. PICK m \in Messages :
        LET n      == Chunked(m)
            caches == m.done /\ Caches(n)
        IN  /\ chunk' = IF m.done THEN NoChunk ELSE n
            /\ icons' = IF caches
                        THEN Added(WithoutIcon(icons, n.icon), n.icon, Len(past.added) + 1)
                        ELSE icons
            /\ past' = [messages |-> past.messages + 1,
                        added |-> IF caches THEN Append(past.added, n.icon) ELSE past.added,
                        strays |-> past.strays + IF m.kind = "close" THEN StrayInterrupts(n) ELSE 0]
            /\ \/ m.done /\ m.kind # "close" /\ n.texts # <<>> /\ Notify(n)
               \/ UNCHANGED <<active, helper, fds, failed>>
  BY DEF Message
<1> DEFINE n == Chunked(m)
           caches == m.done /\ Caches(n)
<1>2. n \in NoteKind /\ WholeTexts(n)
  BY ChunkedIs
<1>3. NotifyTypes /\ HelpersInv /\ Latest(icons, past.added)
  BY DEF NotifyInv
<1>4. /\ chunk' = IF m.done THEN NoChunk ELSE n
      /\ icons' = IF caches THEN Added(WithoutIcon(icons, n.icon), n.icon, Len(past.added) + 1)
                  ELSE icons
      /\ past' = [messages |-> past.messages + 1,
                  added |-> IF caches THEN Append(past.added, n.icon) ELSE past.added,
                  strays |-> past.strays + IF m.kind = "close" THEN StrayInterrupts(n) ELSE 0]
      /\ \/ Notify(n)
         \/ UNCHANGED <<active, helper, fds, failed>>
  BY <1>1
<1>5. caches => n.icon \in Icons
  BY <1>2 DEF Caches, NoteKind
<1> HIDE DEF n, caches
<1>6. HelpersTyped'
  <2>1. CASE Notify(n)
    BY <2>1, <1>2, NotifyKeeps
  <2>2. CASE UNCHANGED <<active, helper, fds, failed>>
    <3>1. HelpersTyped
      BY <1>3 DEF NotifyTypes, HelpersInv, HelpersTyped
    <3> QED BY <2>2, <3>1 DEF HelpersTyped
  <2> QED BY <2>1, <2>2, <1>4
<1>7. chunk' \in NoteKind /\ WholeTexts(chunk')
  <2>1. NoChunk \in NoteKind /\ WholeTexts(NoChunk)
    <3>1. <<>> \in Seq(SomeId) /\ Len(<<>>) = 0
      OBVIOUS
    <3>2. NoChunk \in NoteKind
      BY <3>1 DEF NoChunk, NoteKind, SomeId
    <3>3. NoChunk.texts = <<>>
      BY DEF NoChunk
    <3> QED BY <3>1, <3>2, <3>3 DEF WholeTexts
  <2> QED BY <2>1, <1>2, <1>4
<1>8. icons \in [1 .. CacheSize -> SlotKind] /\ past.added \in Seq(Icons)
      /\ past.messages \in Nat /\ past.strays \in Nat
  BY <1>3 DEF NotifyTypes, PastKind
<1>9. icons' \in [1 .. CacheSize -> SlotKind] /\ past' \in PastKind /\ Latest(icons', past'.added)
  <2> DEFINE strays == past.strays + IF m.kind = "close" THEN StrayInterrupts(n) ELSE 0
  <2>1. strays \in Nat
    <3>1. StrayInterrupts(n) \in {0, 1}
      BY DEF StrayInterrupts
    <3> HIDE DEF StrayInterrupts
    <3> QED BY <3>1, <1>8
  <2>2. CASE caches
    <3> DEFINE i == n.icon
               added == past.added
               b == Append(added, i)
    <3>1. i \in Icons /\ added \in Seq(Icons)
      BY <2>2, <1>5, <1>8
    <3>2. /\ icons' = Added(WithoutIcon(icons, i), i, Len(added) + 1)
          /\ past' = [messages |-> past.messages + 1, added |-> b, strays |-> strays]
      BY <2>2, <1>4
    <3>3. Latest(icons, added)
      BY <1>3
    <3>4. b \in Seq(Icons)
      BY <3>1, EntryAppends
    <3> HIDE DEF i, added, strays
    <3>5. icons' \in [1 .. CacheSize -> SlotKind] /\ Latest(icons', b)
      BY <3>1, <3>2, <3>3, <1>8, CacheKeeps
    <3> HIDE DEF b
    <3>6. past' \in PastKind /\ past'.added = b
      BY <3>2, <3>4, <2>1, <1>8 DEF PastKind
    <3> QED BY <3>5, <3>6
  <2>3. CASE ~caches
    <3>1. /\ icons' = icons
          /\ past' = [messages |-> past.messages + 1, added |-> past.added, strays |-> strays]
      BY <2>3, <1>4
    <3> HIDE DEF strays
    <3>2. past' \in PastKind /\ past'.added = past.added
      BY <3>1, <2>1, <1>8 DEF PastKind
    <3> QED BY <3>1, <3>2, <1>3, <1>8
  <2> QED BY <2>2, <2>3
<1>10. NotifyTypes'
  BY <1>6, <1>7, <1>9 DEF NotifyTypes, HelpersTyped
<1>11. HelpersInv'
  BY <1>6, <1>7 DEF HelpersInv, HelpersTyped
<1> QED BY <1>9, <1>10, <1>11 DEF NotifyInv

-----------------------------------------------------------------------------
LEMMA NotifyInitInv == NotifyInit => NotifyInv
<1> SUFFICES ASSUME NotifyInit PROVE NotifyInv
  OBVIOUS
<1>1. <<>> \in Seq(SomeId) /\ <<>> \in Seq(Icons) /\ <<>> \in Seq(EntryKind)
      /\ <<>> \in Seq(HelperKind) /\ Len(<<>>) = 0
  OBVIOUS
<1>2. /\ chunk = NoChunk /\ active = <<>> /\ helper = <<>> /\ fds = [fd \in Fds |-> 0]
      /\ icons = [i \in 1 .. CacheSize |-> NoSlot]
      /\ past = [messages |-> 0, added |-> <<>>, strays |-> 0] /\ failed = FALSE
  BY DEF NotifyInit
<1>3. chunk \in NoteKind
  BY <1>1, <1>2 DEF NoChunk, NoteKind, SomeId
<1>4. icons \in [1 .. CacheSize -> SlotKind] /\ past \in PastKind
  BY <1>1, <1>2 DEF NoSlot, SlotKind, PastKind
<1>5. fds \in [Fds -> 0 .. 0] /\ \A f \in Fds : fds[f] = 0
  BY <1>2
<1>6. NotifyTypes
  <2>1. helper \in Seq(HelperKind) /\ active \in Seq(EntryKind) /\ failed \in BOOLEAN
    BY <1>1, <1>2
  <2>2. Len(helper) = 0 /\ Len(helper) <= MaxHelpers
    BY <1>1, <1>2, NotifyAssumption
  <2>3. \A a, b \in Fds : fds[a] # 0 /\ fds[a] = fds[b] => a = b
    BY <1>5
  <2> QED BY <2>1, <2>2, <2>3, <1>3, <1>4, <1>5 DEF NotifyTypes
<1>7. OneHelperEach(active, helper, fds)
  BY <1>1, <1>2, <1>5 DEF OneHelperEach
<1>8. HelpersInv
  <2>1. WholeTexts(chunk)
    BY <1>1, <1>2 DEF WholeTexts, NoChunk
  <2> QED BY <2>1, <1>1, <1>2, <1>7 DEF HelpersInv
<1>9. Latest(icons, past.added)
  <2>1. past.added = <<>> /\ \A s \in 1 .. CacheSize : icons[s].id = NoIcon
    BY <1>2 DEF NoSlot
  <2> QED BY <2>1, <1>1 DEF Latest
<1> QED BY <1>6, <1>8, <1>9 DEF NotifyInv

LEMMA NotifyNextInv == NotifyInv /\ [NotifyNext]_notifyVars => NotifyInv'
<1> SUFFICES ASSUME NotifyInv, [NotifyNext]_notifyVars PROVE NotifyInv'
  OBVIOUS
<1>1. CASE Message
  BY <1>1, MessageInv
<1>2. CASE \E p \in DOMAIN helper : PrintsLine(p) \/ Exits(p) \/ Reap(p)
  BY <1>2, PrintsInv, ExitsInv, ReapInv
<1>3. CASE \E fd \in Fds : ReadOutput(fd)
  BY <1>3, ReadOutputInv
<1>4. CASE Reset
  BY <1>4, ResetInv
<1>5. CASE UNCHANGED notifyVars
  BY <1>5 DEF notifyVars, NotifyInv, NotifyTypes, HelpersInv
<1> QED BY <1>1, <1>2, <1>3, <1>4, <1>5 DEF NotifyNext

LEMMA NotifyInvImplies == NotifyInv => ReportsDue
<1> SUFFICES ASSUME NotifyInv PROVE ReportsDue
  OBVIOUS
<1>1. ASSUME NEW p \in DOMAIN helper
      PROVE  LET h == helper[p]
             IN  /\ \A i \in DOMAIN h.texts : h.texts[i] = h.id
                 /\ h.state # "reaped" => h.reports = <<>>
                 /\ ~failed /\ h.state = "reaped" /\ ~h.lost => h.reports = Due(h)
  <2> DEFINE h == helper[p]
  <2>1. h \in HelperKind /\ HelperKept(h, failed)
    BY AllKept
  <2> HIDE DEF h
  <2>2. DOMAIN h.texts = 1 .. Len(h.texts)
    BY <2>1, HelperHas, LenProperties
  <2>3. /\ \A i \in DOMAIN h.texts : h.texts[i] = h.id
        /\ h.state # "reaped" => h.reports = <<>>
        /\ ~failed /\ h.state = "reaped" /\ ~h.lost => h.reports = Due(h)
    BY <2>1, <2>2 DEF HelperKept, WholeTexts
  <2> QED BY <2>3 DEF h
<1>2. ASSUME ~failed, NEW j \in DOMAIN active, NEW k \in DOMAIN active, j # k, active[j].fd # -1
      PROVE  active[j].fd # active[k].fd
  <2>1. DOMAIN active = 1 .. Len(active) /\ OneHelperEach(active, helper, fds)
    BY <1>2, AllKept
  <2>2. EntryKept(active[j], helper, fds) /\ EntryKept(active[k], helper, fds)
    BY <2>1 DEF OneHelperEach
  <2>3. active[j].pid # active[k].pid
    BY <2>1, <1>2 DEF OneHelperEach
  <2> QED BY <2>2, <2>3, <1>2 DEF EntryKept
<1>3. /\ icons \in [1 .. CacheSize -> SlotKind] /\ past.added \in Seq(Icons)
      /\ Latest(icons, past.added)
  BY DEF NotifyInv, NotifyTypes, PastKind
<1>4. DOMAIN icons = 1 .. CacheSize /\ DOMAIN past.added = 1 .. Len(past.added)
  BY <1>3
<1>5. ASSUME NEW i \in DOMAIN icons, NEW j \in DOMAIN icons, icons[i].id # NoIcon
      PROVE  /\ icons[i].id = icons[j].id => i = j
             /\ icons[i].version = Max({v \in DOMAIN past.added : past.added[v] = icons[i].id})
  <2> DEFINE V == {v \in DOMAIN past.added : past.added[v] = icons[i].id}
             x == icons[i].version
  <2>1. V = VersionsOf(past.added, icons[i].id)
    BY <1>4 DEF VersionsOf
  <2>2. x \in V /\ \A v \in V : v <= x
    BY <2>1, <1>3, <1>4, <1>5 DEF Latest
  <2>3. V \subseteq Int
    BY <1>4
  <2> HIDE DEF V, x
  <2>4. Max(V) = x
    BY ONLY <2>2, <2>3, MaxIs
  <2>5. icons[i].id = icons[j].id => i = j
    BY <1>3, <1>4, <1>5 DEF Latest
  <2> QED BY <2>4, <2>5 DEF V, x
<1>6. Cardinality(ToSet(past.added)) <= CacheSize =>
        \A v \in DOMAIN past.added : \E i \in DOMAIN icons : icons[i].id = past.added[v]
  BY <1>3, <1>4 DEF Latest
<1> QED BY <1>1, <1>2, <1>5, <1>6 DEF ReportsDue

(* A notification has the chunks with its own id only; when its helper is  *)
(* gone the application gets exactly what it asked for and the user did,   *)
(* as long as every helper could be started and its output was read; each  *)
(* running helper has a descriptor of its own; the cache has the latest    *)
(* version of an icon, once: for any number of messages, helpers, ids,     *)
(* icons and slots (notify.c:107, 237, 400; osc.c:944, 1071).              *)
THEOREM TheReportsAreDue == NotifySpec => []ReportsDue
<1>1. NotifyInit => NotifyInv
  BY NotifyInitInv
<1>2. NotifyInv /\ [NotifyNext]_notifyVars => NotifyInv'
  BY NotifyNextInv
<1>3. NotifyInv => ReportsDue
  BY NotifyInvImplies
<1> QED BY <1>1, <1>2, <1>3, PTL DEF NotifySpec
=============================================================================

---------------------------- MODULE KeyBindings ----------------------------
(***************************************************************************)
(* The sets of key bindings (key-binding.c): a set is a configuration's    *)
(* bindings, translated with a seat's keymap.  The terminals of a server   *)
(* share the server's configuration unless their client overrides options; *)
(* sets are counted by the terminals that use their configuration.  Seats  *)
(* and terminals come and go, and keymaps change.                          *)
(***************************************************************************)
EXTENDS Participants, Integers, FiniteSets, SequencesExt

CONSTANTS
    Shared,         \* the server's configuration
    MaxKeymaps,     \* bound: keymap events
    MaxWindows      \* bound: terminals created

ASSUME KeyBindingsAssumption ==
    /\ IsFiniteSet(Terms) /\ IsFiniteSet(Seats)
    /\ Shared \notin Terms \cup {None}

VARIABLES
    terms,      \* wayl->terms: per terminal, its configuration; None: it is not there
    seats,      \* wayl->seats; per seat, its keymap (0: none)
    mgr,        \* the manager: binding_sets; last_used_set, its place, 0: NULL
    past        \* history: events so far; if a seat was added when several
                \* terminals had the same configuration

keyVars == <<terms, seats, mgr, past>>

Confs == {Shared} \cup Terms    \* a terminal's own is named by it

KeysInit ==
    /\ terms = [t \in Terms |-> None]
    /\ seats = [s \in Seats |-> [plugged |-> FALSE, keymap |-> 0]]
    /\ mgr = [sets |-> <<>>, last |-> 0]
    /\ past = [keymaps |-> 0, windows |-> 0, miscounted |-> FALSE]

-----------------------------------------------------------------------------
(* load_keymap(): the configuration's bindings are appended, translated.   *)
Loaded(set) ==
    LET keymap == seats[set.seat].keymap
    IN  IF keymap = 0 THEN set ELSE [set EXCEPT !.bindings = Append(@, keymap)]

NewSet(conf, seat) ==
    Loaded([conf |-> conf, seat |-> seat, refs |-> 1, bindings |-> <<>>])

(* key_binding_for(), which looks at the last used set first. *)
Found(m, conf, seat) ==
    LET matching == {i \in DOMAIN m.sets : m.sets[i].conf = conf /\ m.sets[i].seat = seat}
    IN  IF m.last \in matching THEN m.last
        ELSE IF matching = {} THEN 0 ELSE Min(matching)

(* Faulty variant: the terminals that share a set are not counted. *)
CountedOnce(m, i) == [m EXCEPT !.last = i]

Counted(m, i) == [sets |-> [m.sets EXCEPT ![i].refs = @ + 1], last |-> i]

(* key_binding_new_for_conf(), seat by seat. *)
NewForSeat(m, conf, seat) ==
    LET i == Found(m, conf, seat)
    IN  IF i # 0 THEN Counted(m, i)
        ELSE [sets |-> Append(m.sets, NewSet(conf, seat)), last |-> Len(m.sets) + 1]

NewForConf(m, conf) ==
    LET list == SetToSeq({s \in Seats : seats[s].plugged})
        after[k \in 0 .. Len(list)] ==
            IF k = 0 THEN m ELSE NewForSeat(after[k - 1], conf, list[k])
    IN  after[Len(list)]

(* Sets are destroyed; a pointer to one of them becomes NULL. *)
Removed(m, places) ==
    LET kept[k \in 0 .. Len(m.sets)] ==
            IF k = 0 THEN <<>>
            ELSE IF k \in places THEN kept[k - 1] ELSE Append(kept[k - 1], m.sets[k])
    IN  [sets |-> kept[Len(m.sets)],
         last |-> IF m.last \in places THEN 0 ELSE Len(kept[m.last])]

(* key_binding_unref() *)
Unref(m, conf) ==
    LET of == {i \in DOMAIN m.sets : m.sets[i].conf = conf}
        fewer == [i \in DOMAIN m.sets |->
                    IF i \in of THEN [m.sets[i] EXCEPT !.refs = @ - 1] ELSE m.sets[i]]
    IN  Removed([sets |-> fewer, last |-> m.last], {i \in of : m.sets[i].refs = 1})

-----------------------------------------------------------------------------
Users(conf) == {t \in Terms : terms[t] = conf}
Open == {t \in Terms : terms[t] # None}

(* term_init(), which may fail after it has its sets: term_destroy(). *)
TermInit(t, conf) ==
    /\ t \notin Open
    /\ past.windows < MaxWindows
    /\ \/ /\ terms' = [terms EXCEPT ![t] = conf]
          /\ mgr' = NewForConf(mgr, conf)
       \/ /\ mgr' = Unref(NewForConf(mgr, conf), conf)
          /\ UNCHANGED terms
    /\ past' = [past EXCEPT !.windows = @ + 1]
    /\ UNCHANGED seats

TermDestroy(t) ==
    /\ t \in Open
    /\ terms' = [terms EXCEPT ![t] = None]
    /\ mgr' = Unref(mgr, terms[t])
    /\ UNCHANGED <<seats, past>>

(* key_binding_new_for_seat(): a set for each terminal in the list, also   *)
(* if they share a configuration.                                          *)
SeatAdded(s) ==
    /\ ~seats[s].plugged
    /\ LET list == SetToSeq(Open)
       IN  mgr' = [mgr EXCEPT !.sets =
                    @ \o [i \in DOMAIN list |-> NewSet(terms[list[i]], s)]]
    /\ seats' = [seats EXCEPT ![s] = [plugged |-> TRUE, keymap |-> 0]]
    /\ past' = [past EXCEPT !.miscounted = @ \/
                    \E c \in Confs : Cardinality(Users(c)) > 1]
    /\ UNCHANGED terms

SeatRemoved(s) ==
    /\ seats[s].plugged
    /\ seats' = [seats EXCEPT ![s] = [plugged |-> FALSE, keymap |-> 0]]
    /\ mgr' = Removed(mgr, {i \in DOMAIN mgr.sets : mgr.sets[i].seat = s})
    /\ UNCHANGED <<terms, past>>

(* keyboard_keymap(): out with the old one; the new one may not be usable. *)
Keymap(s) ==
    /\ seats[s].plugged
    /\ past.keymaps < MaxKeymaps
    /\ \E keymap \in {0, past.keymaps + 1} :
        /\ seats' = [seats EXCEPT ![s].keymap = keymap]
        /\ mgr' = [mgr EXCEPT !.sets = [i \in DOMAIN mgr.sets |->
                    IF mgr.sets[i].seat # s THEN mgr.sets[i]
                    ELSE [mgr.sets[i] EXCEPT !.bindings =
                            IF keymap = 0 THEN <<>> ELSE <<keymap>>]]]
    /\ past' = [past EXCEPT !.keymaps = @ + 1]
    /\ UNCHANGED terms

(* key_press_release(): "xassert(bindings != NULL)". *)
KeyPressed(t, s) ==
    /\ t \in Open
    /\ seats[s].plugged
    /\ Found(mgr, terms[t], s) # 0
    /\ mgr' = [mgr EXCEPT !.last = Found(mgr, terms[t], s)]
    /\ UNCHANGED <<terms, seats, past>>

KeysNext ==
    \/ \E t \in Terms :
        \/ \E conf \in {Shared, t} : TermInit(t, conf)
        \/ TermDestroy(t)
        \/ \E s \in Seats : KeyPressed(t, s)
    \/ \E s \in Seats : SeatAdded(s) \/ SeatRemoved(s) \/ Keymap(s)

KeysSpec == KeysInit /\ [][KeysNext]_keyVars

-----------------------------------------------------------------------------
(* Terminals and seats come and go and keymaps change, in any order: each  *)
(* configuration in use has one set per seat, counted by its terminals,    *)
(* with the bindings of the seat's keymap once, and no other set is there, *)
(* unless a seat was added while a configuration had several terminals; no *)
(* pointer is left to a set that is gone (key-binding.c:101, 137, 245).    *)
SetsCounted ==
    /\ mgr.last \in 0 .. Len(mgr.sets)
    /\ \A i \in DOMAIN mgr.sets :
        LET set == mgr.sets[i]
        IN  /\ seats[set.seat].plugged
            /\ set.bindings = IF seats[set.seat].keymap = 0 THEN <<>>
                              ELSE <<seats[set.seat].keymap>>
            /\ ~past.miscounted => /\ set.refs = Cardinality(Users(set.conf))
                                   /\ set.refs > 0
                                   /\ \A j \in DOMAIN mgr.sets :
                                        mgr.sets[j].conf = set.conf
                                            /\ mgr.sets[j].seat = set.seat => i = j
    /\ ~past.miscounted =>
            \A t \in Open, s \in Seats :
                seats[s].plugged => Found(mgr, terms[t], s) # 0

=============================================================================

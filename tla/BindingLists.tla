---------------------------- MODULE BindingLists ----------------------------
(***************************************************************************)
(* The lists of bindings of a configuration (config.c).  A line of the     *)
(* configuration binds an action to one or more combos; an action may have *)
(* a command or a text, in memory that the bindings of the line share and  *)
(* the first one owns.  Lines replace earlier ones, bindings that collide  *)
(* are removed at the end, and a client that overrides options gets a copy *)
(* of the server's list, which it changes in the same way.                 *)
(***************************************************************************)
EXTENDS Integers, FiniteSets, SequencesExt

CONSTANTS
    Modifiers,      \* a combo has a set of them and a key or button
    ComboKeys,
    Override,       \* selection-override-modifiers
    MaxLines        \* bound: lines of the configuration and of overrides, and clients

VARIABLES
    type,       \* of the list: "key" bindings, or "mouse"
    lists,      \* the bindings of the "server" and of a "client"
    parsing,    \* whose lines are read; "": nobody's
    blocks,     \* memory: the ones in use; how many were allocated
    lines,      \* lines so far
    unresolved, \* the lists whose collisions were not looked for
    wrong       \* history: undefined behaviour: what was done with freed memory

listVars == <<type, lists, parsing, blocks, lines, unresolved, wrong>>

Combos == [mods : SUBSET Modifiers, key : ComboKeys]

(* An action, and what it goes with: "pipe" actions have a command, "text" *)
(* a text, which only keys send; block 0 is none.                          *)
Actions == {[name |-> "copy", with |-> ""], [name |-> "paste", with |-> ""],
            [name |-> "pipe", with |-> "cmd"]}
           \cup IF type = "key" THEN {[name |-> "text", with |-> "txt"]} ELSE {}

Bound(action, combo, block, master) ==
    [action |-> action, combo |-> combo, block |-> block, master |-> master]

(* add_default_key_bindings() and add_default_mouse_bindings(): one, bound *)
(* in two ways.                                                            *)
ListsInit ==
    /\ type \in {"key", "mouse"}
    /\ \E a, b \in Combos :
        /\ a # b
        /\ lists = [server |-> <<Bound([name |-> "copy", with |-> ""], a, 0, FALSE),
                                 Bound([name |-> "copy", with |-> ""], b, 0, FALSE)>>,
                    client |-> <<>>]
    /\ parsing = "server"
    /\ blocks = [used |-> {}, last |-> 0]
    /\ lines = 0
    /\ unresolved = {}
    /\ wrong = {}

Defined == wrong = {}

-----------------------------------------------------------------------------
Of(list, action) == {i \in DOMAIN list : list[i].action = action}

(* The memory that free_key_binding() gives back. *)
Owned(list, places) == {list[i].block : i \in {j \in places : list[j].master}} \ {0}

(* remove_from_key_bindings_list(): after the first binding of a line is   *)
(* freed, the next one is compared, and its command is the one just freed. *)
Unbound(list, action) ==
    LET kept[k \in 0 .. Len(list)] ==
            IF k = 0 THEN <<>>
            ELSE IF k \in Of(list, action) THEN kept[k - 1] ELSE Append(kept[k - 1], list[k])
    IN  kept[Len(list)]

ReadsFreed(list, action) == action.with # "" /\ Cardinality(Of(list, action)) > 1

(* Faulty variant of the next one: each of them owns it. *)
NewMasters(action, combos, block) ==
    [i \in DOMAIN combos |-> Bound(action, combos[i], block, TRUE)]

(* value_to_key_combos(); only the first one owns the memory. *)
New(action, combos, block) ==
    [i \in DOMAIN combos |-> Bound(action, combos[i], block, i = 1)]

Block(action) == IF action.with = "" THEN 0 ELSE blocks.last + 1

Line ==
    /\ Defined
    /\ parsing # ""
    /\ lines < MaxLines
    /\ lines' = lines + 1
    /\ UNCHANGED <<type, parsing, unresolved>>

(* "action=none", or new combos; the line's own command stays allocated in *)
(* the first case.                                                         *)
Bind(action, combos) ==
    /\ Line
    /\ LET list  == lists[parsing]
           block == Block(action)
       IN  /\ lists' = [lists EXCEPT ![parsing] =
                            Unbound(list, action) \o New(action, combos, block)]
           /\ blocks' = [used |-> (blocks.used \ Owned(list, Of(list, action)))
                                    \cup ({block} \ {0}),
                         last |-> blocks.last + IF block = 0 THEN 0 ELSE 1]
           /\ wrong' = IF ReadsFreed(list, action) THEN {"read"} ELSE {}

(* A name in the line that is no key: value_to_key_combos() frees the      *)
(* command, and parse_key_binding_section() does, too.  A text is left to  *)
(* value_to_key_combos().                                                  *)
BadKey(action) ==
    /\ Line
    /\ blocks' = [blocks EXCEPT !.last = @ + IF action.with = "" THEN 0 ELSE 1]
    /\ wrong' = IF action.with = "cmd" THEN {"freed twice"} ELSE {}
    /\ UNCHANGED lists

-----------------------------------------------------------------------------
(* resolve_key_binding_collisions(): from the second binding on, one that  *)
(* has the modifiers of the override, or the combo of an earlier one for   *)
(* another action, is removed; what it owns goes to the next of its line.  *)
Collides(kept, b) ==
    /\ kept # <<>>
    /\ \/ type = "mouse" /\ b.combo.mods = Override
       \/ \E i \in DOMAIN kept : kept[i].action # b.action /\ kept[i].combo = b.combo

Examined(list, acc, i) ==
    LET b    == [list[i] EXCEPT !.master = @ \/ acc.heir]
        next == i < Len(list) /\ list[i + 1].action = b.action
    IN  IF ~Collides(acc.kept, b)
        THEN [kept |-> Append(acc.kept, b), heir |-> FALSE, freed |-> acc.freed]
        ELSE [kept |-> acc.kept, heir |-> b.master /\ next,
              freed |-> IF b.master /\ ~next THEN acc.freed \cup {b.block} ELSE acc.freed]

Resolve(list) ==
    LET after[i \in 0 .. Len(list)] ==
            IF i = 0 THEN [kept |-> <<>>, heir |-> FALSE, freed |-> {}]
            ELSE Examined(list, after[i - 1], i)
    IN  after[Len(list)]

(* config_override_apply(), after the last line: the lists are looked at   *)
(* one after the other, the one of the mouse last, and only if the earlier *)
(* ones had no collisions.                                                 *)
ConfLoaded ==
    /\ Defined
    /\ parsing # ""
    /\ unresolved' = unresolved \ {parsing}
    /\ LET result == Resolve(lists[parsing])
       IN  /\ lists' = [lists EXCEPT ![parsing] = result.kept]
           /\ blocks' = [blocks EXCEPT !.used = @ \ result.freed]
    /\ parsing' = ""
    /\ UNCHANGED <<type, lines, wrong>>

ConfLoadedUnresolved ==
    /\ Defined
    /\ parsing # "" /\ type = "mouse"
    /\ parsing' = ""
    /\ unresolved' = unresolved \cup {parsing}
    /\ UNCHANGED <<type, lists, blocks, lines, wrong>>

(* key_binding_list_clone(): new memory for each owner, which the bindings *)
(* after it share.                                                         *)
Cloned(list) ==
    [i \in DOMAIN list |->
        IF list[i].block = 0 THEN list[i]
        ELSE [list[i] EXCEPT !.block = blocks.last
                + Cardinality({j \in 1 .. i : list[j].master /\ list[j].block # 0})]]

Clone ==
    /\ Defined
    /\ parsing = ""
    /\ lists.client = <<>>
    /\ lines < MaxLines
    /\ LET list   == lists.server
           owners == {i \in DOMAIN list : list[i].master /\ list[i].block # 0}
           last   == blocks.last + Cardinality(owners)
       IN  /\ lists' = [lists EXCEPT !.client = Cloned(list)]
           /\ blocks' = [used |-> blocks.used \cup (blocks.last + 1 .. last), last |-> last]
    /\ parsing' = "client"
    /\ lines' = lines + 1
    /\ UNCHANGED <<type, unresolved, wrong>>

(* config_free() of the client's, when its terminal is gone. *)
FreeClient ==
    /\ Defined
    /\ parsing = ""
    /\ lists.client # <<>>
    /\ lists' = [lists EXCEPT !.client = <<>>]
    /\ blocks' = [blocks EXCEPT !.used = @ \ Owned(lists.client, DOMAIN lists.client)]
    /\ UNCHANGED <<type, parsing, lines, unresolved, wrong>>

ListsNext ==
    \/ \E action \in Actions :
        \/ Bind(action, <<>>)
        \/ \E a, b \in Combos : Bind(action, <<a>>) \/ Bind(action, <<a, b>>)
        \/ BadKey(action)
    \/ ConfLoaded \/ ConfLoadedUnresolved \/ Clone \/ FreeClient

ListsSpec == ListsInit /\ [][ListsNext]_listVars

-----------------------------------------------------------------------------
(* Lines that replace, unbind, collide and are overridden, in any order:   *)
(* the memory of every binding is in use, its line's bindings are next to  *)
(* each other and the first of them owns it, and the server and a client   *)
(* share none; once a list is loaded no combo means two actions, and no    *)
(* mouse binding but the first has the override's modifiers, as long as no *)
(* memory was used after it was freed and no earlier list had collisions   *)
(* (config.c:1930, 2006, 2500, 3845, 3861).                                *)
BindingsOwned ==
    /\ Defined => \A who \in {"server", "client"} :
        LET list == lists[who]
            Sharing(i) == {j \in DOMAIN list : list[j].block = list[i].block}
        IN  \A i \in DOMAIN list : list[i].block # 0 =>
                /\ list[i].block \in blocks.used
                /\ list[i].master <=> i = Min(Sharing(i))
                /\ Sharing(i) = Min(Sharing(i)) .. Max(Sharing(i))
    /\ Defined => {b.block : b \in ToSet(lists.server)} \cap
                  {b.block : b \in ToSet(lists.client)} \subseteq {0}
    /\ Defined => \A who \in {"server", "client"} \ ({parsing} \cup unresolved) :
        LET list == lists[who]
        IN  /\ \A i, j \in DOMAIN list :
                    list[i].combo = list[j].combo => list[i].action = list[j].action
            /\ \A i \in DOMAIN list : type = "mouse" /\ i > 1 => list[i].combo.mods # Override

=============================================================================

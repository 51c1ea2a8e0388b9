------------------------------- MODULE Parser -------------------------------
(***************************************************************************)
(* The parser of what the application writes (vt.c): a state machine that  *)
(* takes one byte at a time and keeps its place between reads, with the    *)
(* UTF-8 decoder, the parameters of a sequence, the OSC string and the     *)
(* handlers of a DCS string (dcs.c).  What it makes of a byte are events:  *)
(* a printed character, an executed control, a dispatched sequence.        *)
(*                                                                         *)
(* The second half says, as a grammar and without a state machine, what    *)
(* the bytes of one unit (a character or a sequence) mean.                 *)
(***************************************************************************)
EXTENDS Naturals, Sequences, SequencesExt, FiniteSetsExt

CONSTANTS
  Bytes,        \* the bytes that may arrive
  MaxParams,    \* parameters of a sequence (16)
  MaxSubs,      \* sub-parameters of a parameter (16)
  MaxPrivates,  \* private and intermediate characters (4)
  ValueMod,     \* a parameter is an unsigned int (2^32)
  MaxUnit,      \* bound: bytes of a sequence that is not finished
  MaxString     \* bound: bytes of an OSC, SOS, PM or APC string that is not

ASSUME ParserConstants ==
  /\ Bytes \subseteq 0..255
  /\ {MaxParams, MaxSubs, MaxPrivates, ValueMod, MaxUnit, MaxString} \subseteq Nat \ {0}

VARIABLES
  state,     \* vt.state
  params,    \* vt.params.v up to idx; `at` says what vt_param.sub.cur points to
  dummy,     \* vt.params.cur is the dummy
  private,   \* vt.private, as the characters it holds
  utf8,      \* vt.utf8
  osc,       \* vt.osc.data up to idx
  handler,   \* vt.dcs.put_handler and unhook_handler
  dcs,       \* vt.dcs.data up to idx
  unit,      \* history: the bytes since the parser was last in ground
  last       \* history: the last byte and the events it caused

parserVars == <<state, params, dummy, private, utf8, osc, handler, dcs, unit, last>>

-----------------------------------------------------------------------------
(* Classes of bytes. *)

ESC == 27
BEL == 7
DEL == 127
Cancels == {24, 26}
C0 == (0..31) \ (Cancels \cup {ESC})
Intermediates == 32..47
Digits == 48..57
Colon == 58
Semicolon == 59
Privates == 60..63
Finals == 64..126
C1 == 128..159
Continuations == 128..191
Leads == 194..244

Replacement == 65533

Character(cp) == <<"print", cp>>
Execute(b) == <<"execute", b>>

-----------------------------------------------------------------------------
(* The actions of vt.c, as new values of the parser's variables. *)

Parsed == [params |-> params, dummy |-> dummy, private |-> private, utf8 |-> utf8,
           osc |-> osc, handler |-> handler, dcs |-> dcs]

Decoded(cp) == [Parsed EXCEPT !.utf8 = cp]

Clear(p) == [p EXCEPT !.params = <<>>, !.private = <<>>]

NewParam == [value |-> 0, subs |-> <<>>, at |-> "value"]

\* A fault: vt.params.cur stays where the last sequence left it.
LazyInitStale(p) == IF p.params = <<>> THEN [p EXCEPT !.params = <<NewParam>>] ELSE p

LazyInit(p) ==
  IF p.params = <<>> THEN [p EXCEPT !.params = <<NewParam>>, !.dummy = FALSE] ELSE p

\* A fault: the parameter beyond the last one is stored in the last one.
ParamNewLast(p) ==
  LET q == LazyInit(p) IN
  IF Len(q.params) >= MaxParams
  THEN [q EXCEPT !.params[MaxParams] = NewParam]
  ELSE [q EXCEPT !.params = Append(@, NewParam), !.dummy = FALSE]

ParamNew(p) ==
  LET q == LazyInit(p) IN
  IF Len(q.params) >= MaxParams
  THEN [q EXCEPT !.dummy = TRUE]
  ELSE [q EXCEPT !.params = Append(@, NewParam), !.dummy = FALSE]

\* Applies f to the parameter that vt.params.cur points to; what becomes of
\* the dummy is never read.
OnCurrent(p, f(_)) ==
  IF p.dummy THEN p
  ELSE [p EXCEPT !.params = [p.params EXCEPT ![Len(p.params)] = f(Last(p.params))]]

ParamNewSubparam(p) ==
  OnCurrent(LazyInit(p),
            LAMBDA v : IF Len(v.subs) >= MaxSubs
                       THEN [v EXCEPT !.at = "dummy"]
                       ELSE [v EXCEPT !.subs = Append(v.subs, 0), !.at = "sub"])

Param(p, b) ==
  LET shifted(n) == (n * 10 + (b - 48)) % ValueMod IN
  OnCurrent(LazyInit(p),
            LAMBDA v : CASE v.at = "value" -> [v EXCEPT !.value = shifted(v.value)]
                         [] v.at = "sub" ->
                              [v EXCEPT !.subs = [v.subs EXCEPT ![Len(v.subs)] = shifted(Last(v.subs))]]
                         [] v.at = "dummy" -> v)

Collect(p, b) == IF Len(p.private) < MaxPrivates THEN [p EXCEPT !.private = Append(@, b)] ELSE p

ParamValues(p) == [i \in DOMAIN p.params |-> <<p.params[i].value, p.params[i].subs>>]

\* vt_param_get(term, 0, 0)
FirstParam(p) == IF p.params = <<>> THEN 0 ELSE p.params[1].value

EscDispatch(p, b) == <<"esc", p.private, b>>
CsiDispatch(p, b) == <<"csi", p.private, ParamValues(p), b>>
OscEnd(p, b) == <<"osc", p.osc, b = BEL>>

\* dcs_hook(): the handlers for the sequences that have any.
HandlerOf(priv, first, b) ==
  CASE priv = <<>> /\ b = 113 -> "sixel"
    [] priv = <<36>> /\ b = 113 -> "decrqss"
    [] priv = <<43>> /\ b = 113 -> "xtgettcap"
    [] priv = <<62>> /\ b = 103 -> "graphics"
    [] priv = <<61>> /\ b = 115 /\ first = 1 -> "sync_begin"
    [] priv = <<61>> /\ b = 115 /\ first = 2 -> "sync_end"
    [] OTHER -> "none"

Hook(p, b) == [p EXCEPT !.handler = HandlerOf(p.private, FirstParam(p), b)]

\* The put handlers: decrqss_put() keeps two bytes, and two have no data.
Room(h) == CASE h \in {"none", "sync_begin", "sync_end"} -> 0
             [] h = "decrqss" -> 2
             [] OTHER -> MaxUnit

Put(p, b) == IF Len(p.dcs) < Room(p.handler) THEN [p EXCEPT !.dcs = Append(@, b)] ELSE p

UnhookEvent(p) == <<"unhook", p.handler, p.dcs>>
Unhook(p) == [p EXCEPT !.handler = "none", !.dcs = <<>>]

-----------------------------------------------------------------------------
(* A step's outcome: the new state, the parser's variables, the events. *)

To(s, p, events) == [state |-> s, parsed |-> p, events |-> events]

\* anywhere()
Anywhere(s, b) ==
  CASE b \in Cancels -> To("ground", Parsed, <<Execute(b)>>)
    [] b = ESC -> To("escape", Clear(Parsed), <<>>)
    [] b \in C1 -> To("ground", Parsed, <<>>)
    [] OTHER -> To(s, Parsed, <<>>)

\* action_utf8_21(), _31() and _41(): the bits of a lead byte, in their place.
High(b) ==
  CASE b \in 194..223 -> (b % 32) * 64
    [] b \in 224..239 -> (b % 16) * 4096
    [] OTHER -> (b % 8) * 262144

\* state_ground_switch().  In the UTF-8 states s is not ground: anywhere()
\* then leaves vt.state as it is.
Ground(s, b) ==
  CASE b \in C0 -> To("ground", Parsed, <<Execute(b)>>)
    [] b \in 32..126 -> To("ground", Parsed, <<Character(b)>>)
    [] b \in 194..223 -> To("utf8_21", Decoded(High(b)), <<>>)
    [] b \in 224..239 -> To("utf8_31", Decoded(High(b)), <<>>)
    [] b \in 240..244 -> To("utf8_41", Decoded(High(b)), <<>>)
    [] OTHER -> Anywhere(s, b)

Escape(b) ==
  CASE b \in C0 -> To("escape", Parsed, <<Execute(b)>>)
    [] b \in Intermediates -> To("escape_intermediate", Collect(Parsed, b), <<>>)
    [] b = 80 -> To("dcs_entry", Clear(Parsed), <<>>)
    [] b \in {88, 94, 95} -> To("sos_pm_apc_string", Parsed, <<>>)
    [] b = 91 -> To("csi_entry", Clear(Parsed), <<>>)
    [] b = 93 -> To("osc_string", [Parsed EXCEPT !.osc = <<>>], <<>>)
    [] b \in (48..126) \ {80, 88, 91, 93, 94, 95} -> To("ground", Parsed, <<EscDispatch(Parsed, b)>>)
    [] OTHER -> Anywhere("escape", b)

EscapeIntermediate(b) ==
  CASE b \in C0 -> To("escape_intermediate", Parsed, <<Execute(b)>>)
    [] b \in Intermediates -> To("escape_intermediate", Collect(Parsed, b), <<>>)
    [] b \in 48..126 -> To("ground", Parsed, <<EscDispatch(Parsed, b)>>)
    [] OTHER -> Anywhere("escape_intermediate", b)

Csi(s, b) ==
  CASE b \in C0 -> To(s, Parsed, <<Execute(b)>>)
    [] b \in Finals -> To("ground", Parsed, IF s = "csi_ignore" THEN <<>> ELSE <<CsiDispatch(Parsed, b)>>)
    [] b \in 32..63 /\ s = "csi_ignore" -> To(s, Parsed, <<>>)
    [] b \in Intermediates /\ s # "csi_ignore" -> To("csi_intermediate", Collect(Parsed, b), <<>>)
    [] b \in 48..63 /\ s = "csi_intermediate" -> To("csi_ignore", Parsed, <<>>)
    [] b \in Digits /\ s \in {"csi_entry", "csi_param"} -> To("csi_param", Param(Parsed, b), <<>>)
    [] b = Colon /\ s \in {"csi_entry", "csi_param"} -> To("csi_param", ParamNewSubparam(Parsed), <<>>)
    [] b = Semicolon /\ s \in {"csi_entry", "csi_param"} -> To("csi_param", ParamNew(Parsed), <<>>)
    [] b \in Privates /\ s = "csi_entry" -> To("csi_param", Collect(Parsed, b), <<>>)
    [] b \in Privates /\ s = "csi_param" -> To("csi_ignore", Parsed, <<>>)
    [] OTHER -> Anywhere(s, b)

OscString(b) ==
  CASE b = BEL -> To("ground", Parsed, <<OscEnd(Parsed, b)>>)
    [] b \in C0 \ {BEL} -> To("osc_string", Parsed, <<>>)
    [] b \in Cancels -> To("ground", Parsed, <<OscEnd(Parsed, b), Execute(b)>>)
    [] b = ESC -> To("escape", Clear(Parsed), <<OscEnd(Parsed, b)>>)
    [] OTHER -> To("osc_string", [Parsed EXCEPT !.osc = Append(@, b)], <<>>)

Dcs(s, b) ==
  CASE b \in C0 \cup {DEL} -> To(s, Parsed, <<>>)
    [] b \in 32..126 /\ s = "dcs_ignore" -> To(s, Parsed, <<>>)
    [] b \in Finals /\ s # "dcs_ignore" -> To("dcs_passthrough", Hook(Parsed, b), <<>>)
    [] b \in Intermediates /\ s # "dcs_ignore" -> To("dcs_intermediate", Collect(Parsed, b), <<>>)
    [] b \in 48..63 /\ s = "dcs_intermediate" -> To("dcs_ignore", Parsed, <<>>)
    [] b \in Digits /\ s \in {"dcs_entry", "dcs_param"} -> To("dcs_param", Param(Parsed, b), <<>>)
    [] b = Colon /\ s \in {"dcs_entry", "dcs_param"} -> To("dcs_ignore", Parsed, <<>>)
    [] b = Semicolon /\ s \in {"dcs_entry", "dcs_param"} -> To("dcs_param", ParamNew(Parsed), <<>>)
    [] b \in Privates /\ s = "dcs_entry" -> To("dcs_param", Collect(Parsed, b), <<>>)
    [] b \in Privates /\ s = "dcs_param" -> To("dcs_ignore", Parsed, <<>>)
    [] OTHER -> Anywhere(s, b)

\* A fault: an 8-bit control ends the string without its unhook handler.
DcsPassthroughC1(b) ==
  CASE b \in (C0 \cup 32..126) -> To("dcs_passthrough", Put(Parsed, b), <<>>)
    [] b \in Cancels -> To("ground", Unhook(Parsed), <<UnhookEvent(Parsed), Execute(b)>>)
    [] b = ESC -> To("escape", Clear(Unhook(Parsed)), <<UnhookEvent(Parsed)>>)
    [] OTHER -> Anywhere("dcs_passthrough", b)

DcsPassthrough(b) ==
  CASE b \in (C0 \cup 32..126) -> To("dcs_passthrough", Put(Parsed, b), <<>>)
    [] b \in Cancels -> To("ground", Unhook(Parsed), <<UnhookEvent(Parsed), Execute(b)>>)
    [] b = ESC -> To("escape", Clear(Unhook(Parsed)), <<UnhookEvent(Parsed)>>)
    [] b \in C1 -> To("ground", Unhook(Parsed), <<UnhookEvent(Parsed)>>)
    [] OTHER -> To("dcs_passthrough", Parsed, <<>>)

SosPmApcString(b) ==
  IF b \in C0 \cup 32..127 THEN To("sos_pm_apc_string", Parsed, <<>>)
                           ELSE Anywhere("sos_pm_apc_string", b)

\* action_utf8_22() ... action_utf8_44(): a continuation byte shifts in six bits.
Shift == [s \in {"utf8_21", "utf8_31", "utf8_32", "utf8_41", "utf8_42", "utf8_43"} |->
            CASE s \in {"utf8_21", "utf8_32", "utf8_43"} -> 1
              [] s \in {"utf8_31", "utf8_42"} -> 64
              [] s = "utf8_41" -> 4096]

Printable(s, cp) ==
  /\ s = "utf8_32" => cp \notin 55296..57343
  /\ s = "utf8_43" => cp <= 1114111

Utf8(s, b) ==
  IF b \in Continuations
  THEN LET cp == utf8 + (b % 64) * Shift[s]
           p == Decoded(cp)
       IN  CASE s = "utf8_31" -> To("utf8_32", p, <<>>)
             [] s = "utf8_41" -> To("utf8_42", p, <<>>)
             [] s = "utf8_42" -> To("utf8_43", p, <<>>)
             [] OTHER -> To("ground", p, IF Printable(s, cp) THEN <<Character(cp)>> ELSE <<>>)
  ELSE LET again == Ground(s, b)
       IN  [again EXCEPT !.events = <<Character(Replacement)>> \o @]

Step(s, b) ==
  CASE s = "ground" -> Ground(s, b)
    [] s = "escape" -> Escape(b)
    [] s = "escape_intermediate" -> EscapeIntermediate(b)
    [] s \in {"csi_entry", "csi_param", "csi_intermediate", "csi_ignore"} -> Csi(s, b)
    [] s = "osc_string" -> OscString(b)
    [] s \in {"dcs_entry", "dcs_param", "dcs_intermediate", "dcs_ignore"} -> Dcs(s, b)
    [] s = "dcs_passthrough" -> DcsPassthrough(b)
    [] s = "sos_pm_apc_string" -> SosPmApcString(b)
    [] OTHER -> Utf8(s, b)

-----------------------------------------------------------------------------
ParserInit ==
  /\ state = "ground" /\ params = <<>> /\ dummy = FALSE /\ private = <<>>
  /\ utf8 = 0 /\ osc = <<>> /\ handler = "none" /\ dcs = <<>>
  /\ unit = <<>> /\ last = [byte |-> 0, events |-> <<>>]

\* term_reset() on ESC c and CSI ! p: vt is cleared.
Resets(events) ==
  \E i \in DOMAIN events : \/ events[i] = <<"esc", <<>>, 99>>
                           \/ events[i][1] = "csi" /\ events[i][2] = <<33>> /\ events[i][4] = 112

Cleared == [params |-> <<>>, dummy |-> FALSE, private |-> <<>>, utf8 |-> 0, osc |-> <<>>,
            handler |-> "none", dcs |-> <<>>]

\* The bytes that start a unit of their own end the one before.
UnitAfter(s, b) ==
  CASE s = "ground" -> <<>>
    [] b = ESC \/ (b \in Leads /\ s \in {"utf8_21", "utf8_31", "utf8_41"}) -> <<b>>
    [] OTHER -> Append(unit, b)

\* vt_from_slave(): one byte; how the bytes are cut into reads does not matter,
\* as vt.state is stored after each of them.  utf8 and osc are kept only while
\* they may be read: a lead byte and action_osc_start() overwrite them.
ParseByte(b) ==
  LET r == Step(state, b)
      p == IF Resets(r.events) THEN Cleared ELSE r.parsed
  IN  /\ Len(UnitAfter(r.state, b)) <=
           IF r.state \in {"osc_string", "sos_pm_apc_string"} THEN MaxString ELSE MaxUnit
      /\ state' = r.state
      /\ params' = p.params /\ dummy' = p.dummy /\ private' = p.private
      /\ utf8' = IF r.state = "ground" THEN 0 ELSE p.utf8
      /\ osc' = IF r.state = "osc_string" THEN p.osc ELSE <<>>
      /\ handler' = p.handler /\ dcs' = p.dcs
      /\ unit' = UnitAfter(r.state, b)
      /\ last' = [byte |-> b, events |-> r.events]

ParserNext == \E b \in Bytes : ParseByte(b)

ParserSpec == ParserInit /\ [][ParserNext]_parserVars

-----------------------------------------------------------------------------
(* The grammar: what byte b means after the unfinished unit u. *)

Take(s, n) == SubSeq(s, 1, IF Len(s) < n THEN Len(s) ELSE n)

\* The pieces of s between the bytes c.
Split(s, c) ==
  LET cuts == SetToSortSeq({0, Len(s) + 1} \cup {i \in DOMAIN s : s[i] = c}, <)
  IN  [k \in 1..(Len(cuts) - 1) |-> SubSeq(s, cuts[k] + 1, cuts[k + 1] - 1)]

Number(digits) == FoldLeft(LAMBDA n, d : n * 10 + (d - 48), 0, digits) % ValueMod

Parameters(s) ==
  IF s = <<>> THEN <<>>
  ELSE LET field == Take(Split(s, Semicolon), MaxParams)
           parts(k) == Split(field[k], Colon)
           subs(k) == Take(Tail(parts(k)), MaxSubs)
       IN  [k \in DOMAIN field |->
              <<Number(parts(k)[1]), [j \in DOMAIN subs(k) |-> Number(subs(k)[j])]>>]

\* A header is at most one private character, then parameters, then
\* intermediates: the lengths <<i, j>> of the first part and of the first two.
Cuts(h, paramBytes) ==
  {c \in (0..1) \X (0..Len(h)) :
     /\ c[1] <= c[2]
     /\ \A k \in DOMAIN h : \/ k <= c[1] /\ h[k] \in Privates
                            \/ c[1] < k /\ k <= c[2] /\ h[k] \in paramBytes
                            \/ c[2] < k /\ h[k] \in Intermediates}

Header(h, paramBytes) ==
  LET c == CHOOSE x \in Cuts(h, paramBytes) : TRUE
  IN  [private |-> Take(SubSeq(h, 1, c[1]) \o SubSeq(h, c[2] + 1, Len(h)), MaxPrivates),
       params |-> Parameters(SubSeq(h, c[1] + 1, c[2]))]

ParamBytes == Digits \cup {Colon, Semicolon}
DcsParamBytes == Digits \cup {Semicolon}

\* The graphic characters of s: what a sequence is made of.
Graphic(s) == SelectSeq(s, LAMBDA b : b \in 32..126)

Controls == C0 \cup Cancels
Ends == Cancels \cup C1 \cup {ESC}
EscFinals == (48..126) \ {80, 88, 91, 93, 94, 95}

Executed(b) == IF b \in Controls THEN <<Execute(b)>> ELSE <<>>
Cancelled(b) == IF b \in Cancels THEN <<Execute(b)>> ELSE <<>>

TextMeaning(b) == IF b \in 32..126 THEN <<Character(b)>> ELSE Executed(b)

\* A character of n bytes; DEL and the bytes that UTF-8 never uses are
\* replaced and do not end it.
CharMeaning(u, b) ==
  LET lead == u[1]
      n == CASE lead < 224 -> 2 [] lead \in 224..239 -> 3 [] OTHER -> 4
      high == CASE n = 2 -> lead - 192 [] n = 3 -> lead - 224 [] n = 4 -> lead - 240
      got == SelectSeq(Append(Tail(u), b), LAMBDA x : x \in Continuations)
      cp == FoldLeft(LAMBDA v, x : v * 64 + (x - 128), high, got)
  IN  CASE b \notin Continuations -> <<Character(Replacement)>> \o TextMeaning(b)
        [] Len(got) < n - 1 -> <<>>
        [] OTHER -> IF (cp \in 55296..57343 /\ n = 3) \/ cp > 1114111 THEN <<>> ELSE <<Character(cp)>>

CsiMeaning(h, b) ==
  IF b \in Finals /\ Cuts(h, ParamBytes) # {}
  THEN LET x == Header(h, ParamBytes) IN <<<<"csi", x.private, x.params, b>>>>
  ELSE Executed(b)

OscMeaning(body, b) ==
  IF b \in Cancels \cup {ESC, BEL}
  THEN <<<<"osc", SelectSeq(body, LAMBDA x : x \notin C0), b = BEL>>>> \o Cancelled(b)
  ELSE <<>>

\* The first final character ends the header if it is one; the string ends
\* with the sequence, however that ends.
DcsMeaning(body, b) ==
  LET finals == {i \in DOMAIN body : body[i] \in Finals}
      f == Min(finals)
      h == Graphic(SubSeq(body, 1, f - 1))
      x == Header(h, DcsParamBytes)
      first == IF x.params = <<>> THEN 0 ELSE x.params[1][1]
      kind == HandlerOf(x.private, first, body[f])
      data == SelectSeq(SubSeq(body, f + 1, Len(body)), LAMBDA y : y \in C0 \cup 32..126)
  IN  IF b \in Ends /\ finals # {} /\ Cuts(h, DcsParamBytes) # {}
      THEN <<<<"unhook", kind, Take(data, Room(kind))>>>> \o Cancelled(b)
      ELSE Cancelled(b)

EscMeaning(u, b) ==
  LET s == Graphic(u)
      body == SubSeq(u, SelectInSeq(u, LAMBDA x : x \in 32..126) + 1, Len(u))
  IN  CASE s = <<>> -> IF b \in EscFinals THEN <<<<"esc", <<>>, b>>>> ELSE Executed(b)
        [] s # <<>> /\ s[1] = 91 -> CsiMeaning(Tail(s), b)
        [] s # <<>> /\ s[1] = 93 -> OscMeaning(body, b)
        [] s # <<>> /\ s[1] = 80 -> DcsMeaning(body, b)
        [] s # <<>> /\ s[1] \in {88, 94, 95} -> Cancelled(b)
        [] OTHER -> IF b \in 48..126 THEN <<<<"esc", Take(s, MaxPrivates), b>>>> ELSE Executed(b)

Meaning(u, b) ==
  CASE u = <<>> -> TextMeaning(b)
    [] u # <<>> /\ u[1] = ESC -> EscMeaning(u, b)
    [] OTHER -> CharMeaning(u, b)

-----------------------------------------------------------------------------
(* Properties *)

\* dcs_hook()'s assertions (dcs.c:455-458): whatever ended the string before,
\* its handlers and its data are gone when the next one begins, so that no
\* sequence is given another one's data.
HandlersReleased ==
  state # "dcs_passthrough" => handler = "none" /\ dcs = <<>>

\* vt.params.cur and sub.cur point to the parameter and sub-parameter that were
\* begun last, or to the dummies once the arrays are full (terminal.h:257-276),
\* never to where an earlier sequence left them: action_param() writes where
\* they point, whatever was parsed, cut short or reset before.
ParamsInBounds ==
  /\ Len(params) <= MaxParams /\ Len(private) <= MaxPrivates
  /\ dummy /\ params # <<>> => Len(params) = MaxParams
  /\ \A i \in DOMAIN params :
       /\ Len(params[i].subs) <= MaxSubs
       /\ params[i].at = "value" <=> params[i].subs = <<>>
       /\ params[i].at = "dummy" => Len(params[i].subs) = MaxSubs

\* The two together: what was parsed before an ESC, a reset or an overlong
\* sequence never reaches into what is parsed after it (dcs.c:455, vt.c:380).
ParserKept == HandlersReleased /\ ParamsInBounds

\* Every byte, after every sequence of bytes, has the events that the grammar
\* gives it: parameters, characters and strings are those of the sequence that
\* was sent, nothing leaks from one that was cancelled, cut short or too long,
\* and the byte that breaks a character off is not lost (vt.c:1090-1130).
MeansWhatWasSent == [][last'.events = Meaning(unit, last'.byte)]_parserVars

=============================================================================

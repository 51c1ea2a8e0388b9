------------------------------- MODULE Receive -------------------------------
(***************************************************************************)
(* Reading the clipboard, the primary selection or a drop: another client  *)
(* writes the data to a pipe, and fdm_receive() (selection.c) takes it in  *)
(* pieces, wherever the pipe happened to cut it, strips and converts them  *)
(* one at a time, and hands them to a consumer that keeps what it cannot   *)
(* use yet: a URI without its end, one or two bytes of a base64 group.     *)
(* Bytes that are treated alike are one.                                   *)
(***************************************************************************)
EXTENDS Integers, FiniteSets, SequencesExt

CONSTANTS
    MaxInput    \* bound: bytes that are sent

ASSUME ReceiveAssumption == MaxInput \in Nat

VARIABLES
    mode,       \* [consumer, bracketed]; an OSC 52 reply strips nothing
    input,      \* history: what was read so far
    held,       \* what the consumer keeps: ctx->buf
    output,     \* what was passed on
    ended       \* "no", "end" of the data, "timeout"

receiveVars == <<mode, input, held, output, ended>>

PipeBytes == {"x", "cr", "nl", "esc", "bs"}

Consumers == {"paste", "uris", "osc52"}

ReceiveInit ==
    /\ mode \in [consumer : Consumers, bracketed : BOOLEAN]
    /\ input = <<>>
    /\ held = <<>>
    /\ output = <<>>
    /\ ended = "no"

-----------------------------------------------------------------------------
Raw == mode.consumer = "osc52"

(* Controls that are left out. *)
Stripped(byte) ==
    /\ ~Raw
    /\ \/ byte = "esc"
       \/ byte = "bs" /\ ~mode.bracketed

Converts == ~Raw /\ ~mode.bracketed

(* "\r\n" becomes "\r" if both are in the piece.                            *)
FollowsReturn(piece, i) == i > 1 /\ piece[i - 1] = "cr"

(* What becomes of one piece. *)
Filtered(piece) ==
    FlattenSeq([i \in DOMAIN piece |->
        CASE Stripped(piece[i]) -> <<>>
          [] piece[i] = "nl" /\ Converts ->
                IF FollowsReturn(piece, i) THEN <<>> ELSE <<"cr">>
          [] OTHER -> <<piece[i]>>])

-----------------------------------------------------------------------------
IsEnd(byte) == byte \in {"cr", "nl"}

(* The URIs of a sequence, and what is left after the last end of one;     *)
(* an empty line is none (decode_one_uri()).                               *)
UriByte(u, byte) ==
    IF ~IsEnd(byte) THEN [done |-> u.done, left |-> Append(u.left, byte)]
    ELSE [done |-> IF u.left = <<>> THEN u.done ELSE Append(u.done, u.left), left |-> <<>>]

Uris(bytes) ==
    LET after[k \in 0 .. Len(bytes)] ==
            IF k = 0 THEN [done |-> <<>>, left |-> <<>>]
            ELSE UriByte(after[k - 1], bytes[k])
    IN  after[Len(bytes)]

(* The groups of three bytes of a sequence, and what is left. *)
Groups(bytes) ==
    LET n == Len(bytes) \div 3
    IN  [done |-> [g \in 1 .. n |-> SubSeq(bytes, 3 * g - 2, 3 * g)],
         left |-> SubSeq(bytes, 3 * n + 1, Len(bytes))]

(* Faulty variant: what is left of a piece does not wait for the next.     *)
TakesPiece(bytes) ==
    CASE mode.consumer = "paste" -> [done |-> bytes, left |-> <<>>]
      [] mode.consumer = "uris"  -> [Uris(bytes) EXCEPT !.left = <<>>]
      [] mode.consumer = "osc52" -> [Groups(bytes) EXCEPT !.left = <<>>]

(* The consumer: the application's input, fdm_receive_decoder_uri(), or    *)
(* from_clipboard_cb().                                                    *)
Takes(bytes) ==
    CASE mode.consumer = "paste" -> [done |-> bytes, left |-> <<>>]
      [] mode.consumer = "uris"  -> Uris(bytes)
      [] mode.consumer = "osc52" -> Groups(bytes)

-----------------------------------------------------------------------------
(* One read(), of any number of bytes. *)
Read ==
    /\ ended = "no"
    /\ \E n \in 1 .. MaxInput - Len(input) : \E piece \in [1 .. n -> PipeBytes] :
        LET taken == Takes(held \o Filtered(piece))
        IN  /\ input' = input \o piece
            /\ held' = taken.left
            /\ output' = output \o taken.done
    /\ UNCHANGED <<mode, ended>>

(* At the end the URI that has no end is one; the last group is padded.    *)
(* When the other client is silent for too long, the URI is not passed on. *)
Finish ==
    /\ ended = "no"
    /\ \E why \in {"end", "timeout"} :
        /\ ended' = why
        /\ output' = IF held = <<>> \/ (mode.consumer = "uris" /\ why = "timeout")
                     THEN output ELSE Append(output, held)
    /\ held' = <<>>
    /\ UNCHANGED <<mode, input>>

ReceiveNext == Read \/ Finish

ReceiveSpec == ReceiveInit /\ [][ReceiveNext]_receiveVars

-----------------------------------------------------------------------------
(* What the data should become, wherever it was cut. *)
Strippable == {byte \in PipeBytes : Stripped(byte)}
LineEnds == {byte \in PipeBytes : IsEnd(byte)}

Without(bytes, out) ==
    FlattenSeq([i \in DOMAIN bytes |-> IF bytes[i] \in out THEN <<>> ELSE <<bytes[i]>>])

Final(left, passed) == IF passed /\ left # <<>> THEN <<left>> ELSE <<>>

(* However the pipe cuts the data: pasted text arrives, whole and in order *)
(* and, unless line ends are converted, as it was sent; no control that is *)
(* to be stripped gets through, and no newline that is to be converted;    *)
(* URIs are told apart where the data does, and base64 groups are full but *)
(* for the last (selection.c:2115, 2190; osc.c:117).                       *)
AnyCut ==
    LET kept == Without(input, Strippable)
    IN  /\ mode.consumer = "paste" =>
                /\ \A i \in DOMAIN output :
                        output[i] \notin Strippable \cup (IF Converts THEN {"nl"} ELSE {})
                /\ Without(output, LineEnds) = Without(kept, LineEnds)
                /\ ~Converts => output = kept
        /\ mode.consumer = "uris" =>
                output = Uris(kept).done \o Final(Uris(kept).left, ended = "end")
        /\ mode.consumer = "osc52" =>
                output = Groups(input).done \o Final(Groups(input).left, ended # "no")

=============================================================================

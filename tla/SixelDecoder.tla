---------------------------- MODULE SixelDecoder ----------------------------
(***************************************************************************)
(* Decoding a sixel image (sixel.c): a buffer that grows to the right and  *)
(* downwards while characters arrive, in whatever order the application    *)
(* sends them, up to the largest image.  Each sixel is drawn without a     *)
(* check of its row: the column is kept out of the image instead when no   *)
(* more rows can be had.                                                   *)
(***************************************************************************)
EXTENDS Integers, FiniteSets, FiniteSetsExt

CONSTANTS
    Sixel,      \* pixels a sixel has: 6 (smaller in a bounded run)
    MaxWidth, MaxHeight,    \* term->sixel.max_width, max_height
    Pans, Pads, \* aspect ratios
    MaxRow      \* bound: how far new lines go

ASSUME DecoderAssumption ==
    /\ Sixel \in Nat \ {0} /\ MaxWidth \in Nat \ {0} /\ MaxHeight \in Nat \ {0}
    /\ MaxRow \in Nat
    /\ Pans \subseteq Nat \ {0} /\ Pads \subseteq Nat \ {0}

VARIABLES
    img,        \* term->sixel.image; ink: the pixels that were drawn
    pos,        \* term->sixel.pos, and image.bottom_pixel as rows of the sixel
    shape,      \* pan, pad, transparent_bg, and which put handler there is
    chars,      \* "count", up to MaxWidth: more makes no difference
    stage       \* "decoding", "done"; "shrunk": resize() makes the image smaller;
                \* history: the rows ran out; the height of a sixel was changed
                \* below the first row

decoderVars == <<img, pos, shape, chars, stage>>

RowHeight(s) == Sixel * s.pan
RoundUp(height, s) == ((height + RowHeight(s) - 1) \div RowHeight(s)) * RowHeight(s)
Least(a, b) == IF a < b THEN a ELSE b

(* sixel_init() *)
DecoderInit ==
    /\ img = [width |-> 0, height |-> 0, alloc |-> 0, ink |-> {}]
    /\ pos = [row |-> 0, col |-> 0, bottom |-> {}]
    /\ \E pan \in Pans, transparent \in BOOLEAN :
        shape = [pan |-> pan, pad |-> 1, transparent |-> transparent, square |-> pan = 1]
    /\ chars = 0
    /\ stage = [at |-> "decoding", full |-> FALSE, reshaped |-> FALSE]

Counted(n) == Least(n, MaxWidth)

-----------------------------------------------------------------------------
(* resize_horizontally(): with the height of a row at least. *)
Widened(i, width) ==
    LET new    == Least(width, MaxWidth)
        height == IF i.height = 0 THEN RowHeight(shape) ELSE i.height
    IN  IF i.width >= new THEN i
        ELSE [i EXCEPT !.width = new, !.height = height, !.alloc = RoundUp(height, shape)]

(* resize_vertically() fills what is below the old height, which may be    *)
(* less than the old buffer's, with the background.                        *)
Heightened(i, height) ==
    [i EXCEPT !.height = height,
              !.alloc = RoundUp(height, shape),
              !.ink = IF i.width = 0 THEN @ ELSE {p \in @ : p[1] < i.height}]

(* The pixels of a sixel, repeated. *)
Drawn(bits, count) ==
    {<<pos.row + b * shape.pan + r, c>> :
        b \in bits, r \in 0 .. shape.pan - 1, c \in pos.col .. pos.col + count - 1}

SixelPrinted(i, bits, count) ==
    /\ img' = [i EXCEPT !.ink = @ \cup IF count = 0 THEN {} ELSE Drawn(bits, count)]
    /\ pos' = IF count = 0 THEN pos
              ELSE [pos EXCEPT !.col = @ + count, !.bottom = @ \cup bits]

(* sixel_add_many_generic(), sixel_add_many_ar_11() *)
AddMany(bits, repeat) ==
    LET n    == repeat * shape.pad
        wide == IF pos.col + n - 1 >= img.width THEN Widened(img, pos.col + n) ELSE img
        fits == wide.width - pos.col
    IN  SixelPrinted(wide, bits, IF pos.col + n - 1 < img.width THEN n
                            ELSE Least(n, IF fits < 0 THEN 0 ELSE fits))

(* sixel_add_one_ar_11(): "count" is not the repeat count of its caller,   *)
(* but the number of characters so far, and is changed.                    *)
AddOne(bits) ==
    LET wide == IF pos.col >= img.width THEN Widened(img, pos.col + chars) ELSE img
        fits == IF wide.width < pos.col THEN 0 ELSE wide.width - pos.col
        left == IF pos.col >= img.width THEN Least(chars, fits) ELSE chars
    IN  /\ SixelPrinted(wide, bits, IF pos.col >= img.width /\ left = 0 THEN 0 ELSE 1)
        /\ chars' = Counted(left + 1)

-----------------------------------------------------------------------------
Decoding == stage.at = "decoding"

Draw ==
    /\ Decoding
    /\ \E bits \in SUBSET (0 .. Sixel - 1) :
        IF shape.square THEN AddOne(bits)
        ELSE AddMany(bits, 1) /\ chars' = Counted(chars + 1)
    /\ UNCHANGED <<shape, stage>>

(* DECGRI *)
Repeat ==
    /\ Decoding
    /\ \E bits \in SUBSET (0 .. Sixel - 1), n \in 1 .. MaxWidth : AddMany(bits, n)
    /\ chars' = Counted(chars + 3)
    /\ UNCHANGED <<shape, stage>>

(* '$', unless the rows ran out. *)
GraphicsReturn ==
    /\ Decoding
    /\ pos' = IF pos.col <= MaxWidth THEN [pos EXCEPT !.col = 0] ELSE pos
    /\ chars' = Counted(chars + 1)
    /\ UNCHANGED <<img, shape, stage>>

(* Faulty variant: the column of a new line that cannot be had. *)
FirstColumn == 0

Outside == MaxWidth + shape.pad

(* '-' *)
NewLine ==
    /\ Decoding
    /\ pos.row < MaxRow
    /\ LET row == pos.row + RowHeight(shape)
           cut == row >= img.alloc /\ row + RowHeight(shape) > MaxHeight
       IN  /\ pos' = [row |-> row, col |-> IF cut THEN Outside ELSE 0, bottom |-> {}]
           /\ img' = IF row < img.alloc \/ cut THEN img
                     ELSE Heightened(img, row + RowHeight(shape))
           /\ stage' = [stage EXCEPT !.full = @ \/ cut]
    /\ chars' = Counted(chars + 1)
    /\ UNCHANGED shape

(* resize(): both sizes; as many rows are kept as the image had. *)
Resized(width, height) ==
    LET h == IF height = 0 THEN RowHeight(shape') ELSE Least(height, MaxHeight)
    IN  [img EXCEPT !.width = width, !.height = h, !.alloc = RoundUp(h, shape'),
                    !.ink = {p \in @ : p[1] < img.height}]

(* DECGRA: the aspect ratio is taken before the image begins; the size is  *)
(* compared with the other one's of the image, and with the other limit.   *)
RasterAttributes ==
    /\ Decoding
    /\ \E pan \in Pans, pad \in Pads, h \in 0 .. MaxWidth, v \in 0 .. MaxHeight :
        LET empty  == img.width = 0 /\ img.height = 0
            width  == h * (IF empty THEN pad ELSE shape.pad)
            height == v * (IF empty THEN pan ELSE shape.pan)
            taken  == /\ width >= img.height /\ height >= img.width
                      /\ width <= MaxHeight /\ height <= MaxWidth
            w      == Least(width, MaxWidth)
            same   == w = img.width /\ Resized(w, height).height = img.height
            less   == \/ w < img.width
                      \/ w = img.width /\ Resized(w, height).height < img.height
                      \/ Resized(w, height).alloc < img.height
        IN  /\ shape' = [shape EXCEPT !.pan = IF empty THEN pan ELSE @,
                                      !.pad = IF empty THEN pad ELSE @,
                                      !.square = IF empty THEN pan = 1 /\ pad = 1
                                                 ELSE shape.pan = 1 /\ shape.pad = 1]
            /\ img' = IF taken /\ ~same /\ ~less THEN Resized(w, height) ELSE img
            /\ stage' = [stage EXCEPT
                            !.at = IF taken /\ ~same /\ less THEN "shrunk" ELSE @,
                            !.reshaped = @ \/ (pos.row > 0 /\ shape'.pan # shape.pan)]
    /\ chars' = MaxWidth
    /\ UNCHANGED pos

-----------------------------------------------------------------------------
ToTrim == IF pos.bottom = {} THEN Sixel ELSE Sixel - 1 - Max(pos.bottom)

(* sixel_unhook(), up to sixel_emit_image(). *)
Unhook ==
    /\ Decoding
    /\ stage' = [stage EXCEPT !.at = "done"]
    /\ LET ends    == pos.row + RowHeight(shape)
           height  == IF pos.row < img.height /\ ends >= img.height THEN img.alloc ELSE img.height
           trimmed == img.alloc - ToTrim * shape.pan
       IN  /\ img' = [img EXCEPT !.height =
                        IF pos.col > 0 /\ ends >= img.alloc /\ (shape.transparent \/ trimmed > height)
                        THEN trimmed ELSE height]
           /\ pos' = IF pos.col > 0 THEN [pos EXCEPT !.row = ends - ToTrim * shape.pan] ELSE pos
    /\ UNCHANGED <<shape, chars>>

DecoderNext ==
    \/ Draw \/ Repeat \/ GraphicsReturn \/ NewLine \/ RasterAttributes \/ Unhook

DecoderSpec == DecoderInit /\ [][DecoderNext]_decoderVars

-----------------------------------------------------------------------------
(* The next sixel is drawn in the buffer, or not at all; the buffer has    *)
(* whole sixels; nothing drawn is outside it; and when the image is done,  *)
(* it has all of what was drawn, unless the rows ran out, and a cursor     *)
(* after the last sixel is below all of it; all of that unless an empty    *)
(* image's sixels were given another height below the first row            *)
(* (sixel.c:1131, 1511, 1826, 1917).                                       *)
SixelsFit ==
    /\ img.width <= MaxWidth
    /\ ~stage.reshaped =>
        /\ Decoding =>
            /\ pos.col < img.width => pos.row + RowHeight(shape) <= img.alloc
            /\ pos.col <= MaxWidth /\ img.height > 0 => pos.row < img.alloc
            /\ img.alloc = RoundUp(img.height, shape)
        /\ \A p \in img.ink : p[1] < img.alloc /\ p[2] < img.width
        /\ stage.at = "done" /\ ~stage.full =>
            \A p \in img.ink : p[1] < img.height /\ (pos.col > 0 => p[1] < pos.row)

=============================================================================

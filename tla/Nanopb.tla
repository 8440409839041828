------------------------------ MODULE Nanopb ------------------------------
(***************************************************************************)
(* nanopb: pb_encode.c, pb_decode.c and pb_common.c as the Pod builds them *)
(* (PB_FIELD_32BIT, without PB_ENABLE_MALLOC), on streams over buffers.    *)
(*                                                                         *)
(* A byte carries DigitBits bits of a varint and its continuation bit.     *)
(* Integers have the width of their data_size (1, 2, 4, 8), scaled down by *)
(* Width.  A field is a record                                             *)
(*   [tag, lt, ht, at, size, max, sub, slot, has]                          *)
(* with the LTYPE, HTYPE and ATYPE of pb.h, data_size, array_size, the     *)
(* fields of a submessage or the extensions of an extension range, the     *)
(* place of its data in the structure (shared by the members of a union)   *)
(* and whether it has a has_ flag.  A structure maps each place to a cell  *)
(* [n, v]: has_, _count or which_, and the value.                          *)
(***************************************************************************)
EXTENDS Integers, Sequences, FiniteSets

CONSTANTS
    DigitBits,   \* bits of a varint in a byte, 7 in the code
    Width,       \* data_size -> bits of the integer
    FixedCells,  \* "fixed32", "fixed64" -> bytes on the wire
    Message,     \* fields of the message type
    Fragments,   \* pieces of wire that arrive
    Samples,     \* structures that are sent
    Unfit,       \* structures that the encoder must refuse
    MaxFragments \* bound on the pieces of a wire

VARIABLES
    wire,     \* what has arrived
    heard,    \* pb_decode of it, into a fresh structure
    sent,     \* history: the structures it encodes, while all of it was sent
    pieces    \* history: number of pieces

pbVars == << wire, heard, sent, pieces >>

W32 == Width[4]
W64 == Width[8]
More == 2 ^ DigitBits
ByteValues == 2 * More
\* buffer[10]: bytes of the longest varint
VarintMax == (W64 + DigitBits - 1) \div DigitBits
Unsigned(v, w) == v % 2 ^ w
Signed(u, w) == IF u % 2 ^ w >= 2 ^ (w - 1) THEN (u % 2 ^ w) - 2 ^ w ELSE u % 2 ^ w
Packable == {"varint", "uvarint", "svarint", "fixed32", "fixed64"}
WireType == [lt \in Packable \cup {"bytes", "string", "submessage", "fixed_length_bytes"} |->
                CASE lt \in {"varint", "uvarint", "svarint"} -> 0
                  [] lt = "fixed64" -> 1
                  [] lt = "fixed32" -> 5
                  [] OTHER -> 2]

\* What a char array holds: the bytes before the terminator.
CString(bytes) ==
    LET zeros == {i \in DOMAIN bytes : bytes[i] = 0}
    IN  IF zeros = {} THEN bytes
        ELSE SubSeq(bytes, 1, (CHOOSE i \in zeros : \A j \in zeros : i <= j) - 1)

-----------------------------------------------------------------------------
(* Output streams [out, written, max, sizing, ok].  Every caller returns at the *)
(* first failure: a stream that is not ok takes nothing more.                   *)

ostream(max) == [out |-> << >>, written |-> 0, max |-> max, sizing |-> FALSE, ok |-> TRUE]
OSTREAM_SIZING == [out |-> << >>, written |-> 0, max |-> 0, sizing |-> TRUE, ok |-> TRUE]
Failed(o) == [o EXCEPT !.ok = FALSE]

pb_write(o, bytes) ==
    IF ~o.ok THEN o
    ELSE IF ~o.sizing /\ o.written + Len(bytes) > o.max THEN Failed(o)
    ELSE [o EXCEPT !.out = IF o.sizing THEN @ ELSE @ \o bytes, !.written = @ + Len(bytes)]

RECURSIVE VarintBytes(_)
VarintBytes(value) ==
    IF value < More THEN << value >>
    ELSE << More + (value % More) >> \o VarintBytes(value \div More)
pb_encode_varint(o, value) == pb_write(o, VarintBytes(value))
pb_encode_svarint(o, value) ==
    pb_encode_varint(o, IF value < 0 THEN Unsigned(-2 * value - 1, W64) ELSE Unsigned(2 * value, W64))
\* pb_encode_fixed32, pb_encode_fixed64
LittleEndian(value, cells) == [i \in 1 .. cells |-> (value \div ByteValues ^ (i - 1)) % ByteValues]
pb_encode_tag(o, wiretype, tag) == pb_encode_varint(o, 8 * tag + wiretype)
pb_encode_tag_for_field(o, f) == pb_encode_tag(o, WireType[f.lt], f.tag)
pb_encode_string(o, bytes) == pb_write(pb_encode_varint(o, Len(bytes)), bytes)

RECURSIVE encode_from(_, _, _, _)
pb_encode(o, fields, m) == encode_from(o, fields, m, 1)

\* The size first, from a stream that only counts, then the bytes, in a stream
\* limited to that size.
SubstreamDone(p, size, sub) ==
    [p EXCEPT !.out = sub.out, !.written = @ + sub.written, !.ok = sub.ok /\ sub.written = size]
encode_within(p, size, fields, m) ==
    IF ~p.ok THEN p
    ELSE IF p.sizing THEN [p EXCEPT !.written = @ + size]
    ELSE IF p.written + size > p.max THEN Failed(p)
    ELSE SubstreamDone(p, size, pb_encode([ostream(size) EXCEPT !.out = p.out], fields, m))
encode_sized(o, sizing, fields, m) ==
    IF ~o.ok THEN o
    ELSE IF ~sizing.ok THEN Failed(o)
    ELSE encode_within(pb_encode_varint(o, sizing.written), sizing.written, fields, m)
pb_encode_submessage(o, fields, m) ==
    encode_sized(o, pb_encode(OSTREAM_SIZING, fields, m), fields, m)

\* PB_ENCODERS.  PB_BYTES_ARRAY_T_ALLOCSIZE adds a header, here one byte.
encode_value(o, f, v) ==
    CASE f.lt = "varint" -> pb_encode_varint(o, Unsigned(v, W64))
      [] f.lt = "uvarint" -> pb_encode_varint(o, v)
      [] f.lt = "svarint" -> pb_encode_svarint(o, v)
      [] f.lt \in {"fixed32", "fixed64"} -> pb_write(o, LittleEndian(v, FixedCells[f.lt]))
      [] f.lt = "bytes" -> IF f.at = "static" /\ Len(v) + 1 > f.size THEN Failed(o)
                           ELSE pb_encode_string(o, v)
      [] f.lt \in {"string", "fixed_length_bytes"} -> pb_encode_string(o, v)
      [] f.lt = "submessage" -> pb_encode_submessage(o, f.sub, v)

RECURSIVE encode_items(_, _, _, _)
encode_items(o, f, vs, tagged) ==
    IF vs = << >> THEN o
    ELSE encode_items(encode_value(IF tagged THEN pb_encode_tag_for_field(o, f) ELSE o, f, vs[1]),
                      f, Tail(vs), tagged)
PackedItems(p, f, vs, size) ==
    IF p.ok /\ p.sizing THEN [p EXCEPT !.written = @ + size] ELSE encode_items(p, f, vs, FALSE)
encode_packed(o, f, vs, size) ==
    PackedItems(pb_encode_varint(pb_encode_tag(o, 2, f.tag), size), f, vs, size)
encode_array(o, f, vs) ==
    IF vs = << >> THEN o
    ELSE IF f.at # "pointer" /\ Len(vs) > f.max THEN Failed(o)
    ELSE IF f.lt \notin Packable THEN encode_items(o, f, vs, TRUE)
    ELSE encode_packed(o, f, vs, IF f.lt \in DOMAIN FixedCells THEN FixedCells[f.lt] * Len(vs)
                                 ELSE encode_items(OSTREAM_SIZING, f, vs, FALSE).written)

\* A zero value of proto3.  An array is compared by its first element, and a
\* union by the bytes of its value.
RECURSIVE pb_check_proto3_default_value(_, _)
ZeroValue(f, v) ==
    CASE f.lt \in {"bytes", "string"} -> v = << >>
      [] f.lt = "fixed_length_bytes" -> f.size = 0
      [] f.lt = "submessage" -> \A i \in DOMAIN f.sub : pb_check_proto3_default_value(f.sub[i], v[f.sub[i].slot])
      [] OTHER -> v = 0
pb_check_proto3_default_value(f, cell) ==
    IF f.at = "pointer" \/ f.lt = "extension" THEN cell.v = << >>
    ELSE IF f.at = "callback" THEN ~cell.v.func
    ELSE IF f.ht = "repeated" THEN cell.v = << >> \/ ZeroValue(f, cell.v[1])
    ELSE IF f.ht = "oneof" THEN cell.n = 0 \/ ZeroValue(f, cell.v)
    ELSE ZeroValue(f, cell.v)

\* A pointer is << >> or << value >>; NULL is as if has_ were false.
encode_basic_field(o, f, cell) ==
    LET present == CASE f.ht = "oneof" -> cell.n = f.tag
                     [] f.at = "pointer" -> cell.v # << >>
                     [] f.ht = "required" -> TRUE
                     [] f.has -> cell.n = 1
                     [] OTHER -> ~pb_check_proto3_default_value(f, cell)
        v == IF f.at = "pointer" THEN cell.v[1] ELSE cell.v
    IN  IF f.ht = "repeated" THEN encode_array(o, f, cell.v)
        ELSE IF present THEN encode_value(pb_encode_tag_for_field(o, f), f, v)
        ELSE IF f.ht = "required" THEN Failed(o)
        ELSE o

\* A callback writes what it likes: one thing to a sizing stream, another to a
\* buffer (external).
encode_callback_field(o, f, cell) ==
    IF ~cell.v.func THEN o ELSE pb_write(o, IF o.sizing THEN cell.v.sizing ELSE cell.v.writing)

encode_field(o, f, cell) ==
    IF f.at = "callback" THEN encode_callback_field(o, f, cell) ELSE encode_basic_field(o, f, cell)

\* The extensions linked at their range: the ones with n = 1.
RECURSIVE encode_extensions(_, _, _)
encode_extensions(o, exts, cells) ==
    IF exts = << >> THEN o
    ELSE encode_extensions(IF cells[1].n = 1 THEN encode_field(o, exts[1], cells[1]) ELSE o,
                           Tail(exts), Tail(cells))

encode_from(o, fields, m, i) ==
    IF i > Len(fields) \/ ~o.ok THEN o
    ELSE encode_from(IF fields[i].lt = "extension" THEN encode_extensions(o, fields[i].sub, m[fields[i].slot].v)
                     ELSE encode_field(o, fields[i], m[fields[i].slot]),
                     fields, m, i + 1)

pb_get_encoded_size(fields, m) == pb_encode(OSTREAM_SIZING, fields, m)

-----------------------------------------------------------------------------
(* Input streams s = [buf, at, left].  Readers return [ok, s, v]; Then goes on  *)
(* with what was read, as "if (!...) return false" does.                        *)

Then(r, Continue(_)) == IF r.ok THEN Continue(r) ELSE r

istream(buf) == [buf |-> buf, at |-> 1, left |-> Len(buf)]
Error(s, v) == [ok |-> FALSE, s |-> s, v |-> v]
Read(s, v) == [ok |-> TRUE, s |-> s, v |-> v]
Advance(s, n) == [s EXCEPT !.at = @ + n, !.left = @ - n]

pb_read(s, count) ==
    IF s.left < count THEN Error(s, << >>)
    ELSE Read(Advance(s, count), SubSeq(s.buf, s.at, s.at + count - 1))

\* pb_decode_varint32 and pb_decode_varint: bits above the width are lost in the
\* shift.
RECURSIVE VarintFrom(_, _, _, _)
VarintFrom(s, width, bitpos, result) ==
    IF bitpos >= width \/ s.left = 0 THEN Error(s, 0)
    ELSE LET byte  == s.buf[s.at]
             value == (result + (byte % More) * 2 ^ bitpos) % 2 ^ width
         IN  IF byte < More THEN Read(Advance(s, 1), value)
             ELSE VarintFrom(Advance(s, 1), width, bitpos + DigitBits, value)
pb_decode_varint(s, width) == VarintFrom(s, width, 0, 0)

RECURSIVE pb_skip_varint(_)
pb_skip_varint(s) ==
    Then(pb_read(s, 1), LAMBDA r : IF r.v[1] >= More THEN pb_skip_varint(r.s) ELSE r)
pb_skip_string(s) ==
    Then(pb_decode_varint(s, W32), LAMBDA r : pb_read(r.s, r.v))

\* eof: the stream ended, or a zero terminates the message.
TagOf(r) == [ok |-> r.ok /\ r.v # 0, s |-> r.s, tag |-> r.v \div 8, wt |-> r.v % 8,
             eof |-> IF r.ok THEN r.v = 0 ELSE r.s.left = 0]
pb_decode_tag(s) == TagOf(pb_decode_varint(s, W32))

pb_skip_field(s, wt) ==
    CASE wt = 0 -> pb_skip_varint(s)
      [] wt = 1 -> pb_read(s, FixedCells["fixed64"])
      [] wt = 2 -> pb_skip_string(s)
      [] wt = 5 -> pb_read(s, FixedCells["fixed32"])
      [] OTHER -> Error(s, << >>)

\* The bytes of a scalar, at most VarintMax of a varint.
RECURSIVE raw_varint(_, _)
raw_varint(s, got) ==
    IF Len(got) >= VarintMax THEN Error(s, got)
    ELSE Then(pb_read(s, 1), LAMBDA r : IF r.v[1] >= More THEN raw_varint(r.s, got \o r.v)
                                        ELSE Read(r.s, got \o r.v))
read_raw_value(s, wt) ==
    CASE wt = 0 -> raw_varint(s, << >>)
      [] wt \in {1, 5} -> pb_skip_field(s, wt)
      [] OTHER -> Error(s, << >>)

\* r.s is the parent, already past the substring r.v.
pb_make_string_substream(s) ==
    Then(pb_decode_varint(s, W32),
         LAMBDA r : IF r.s.left < r.v THEN Error(r.s, 0)
                    ELSE Read(Advance(r.s, r.v), [r.s EXCEPT !.left = r.v]))

-----------------------------------------------------------------------------
(* Defaults *)

RECURSIVE pb_message_set_to_defaults(_, _)
DefaultValue(f, callbacks) ==
    CASE f.lt = "submessage" -> pb_message_set_to_defaults(f.sub, callbacks)
      [] f.lt \in {"bytes", "string"} -> << >>
      [] f.lt = "fixed_length_bytes" -> [i \in 1 .. f.size |-> 0]
      [] OTHER -> 0
\* Callbacks are left as they are: here, as the caller sets them up.
pb_field_set_to_default(f, callbacks) ==
    CASE f.at = "callback" /\ f.lt # "extension" -> [n |-> 0, v |-> callbacks]
      [] f.lt = "extension" -> [n |-> 0, v |-> [i \in DOMAIN f.sub |-> [n |-> 0, v |-> DefaultValue(f.sub[i], callbacks)]]]
      [] f.at = "pointer" \/ f.ht \in {"repeated", "oneof"} -> [n |-> 0, v |-> << >>]
      [] OTHER -> [n |-> 0, v |-> DefaultValue(f, callbacks)]
pb_message_set_to_defaults(fields, callbacks) ==
    [p \in {fields[i].slot : i \in DOMAIN fields} |->
        pb_field_set_to_default(fields[CHOOSE i \in DOMAIN fields : fields[i].slot = p], callbacks)]

\* What the callbacks of a structure to decode into have taken so far.
Decoding == [func |-> TRUE, got |-> << >>]
NoCallback == [func |-> FALSE, got |-> << >>]

-----------------------------------------------------------------------------
(* Decoding values *)

RECURSIVE pb_decode_noinit(_, _, _)
pb_decode(s, fields, callbacks) ==
    pb_decode_noinit(s, fields, pb_message_set_to_defaults(fields, callbacks))

\* Casts: a narrower field gets the low bits, and an error if they differ.
Clamped(r, value, clamped) == [r EXCEPT !.ok = clamped = value, !.v = clamped]
pb_dec_varint(s, f) ==
    Then(pb_decode_varint(s, W64),
         LAMBDA r : LET svalue == Signed(r.v, IF f.size = 8 THEN W64 ELSE W32)
                    IN  Clamped(r, svalue, Signed(svalue, Width[f.size])))
pb_dec_uvarint(s, f) ==
    Then(pb_decode_varint(s, W64), LAMBDA r : Clamped(r, r.v, Unsigned(r.v, Width[f.size])))
pb_dec_svarint(s, f) ==
    Then(pb_decode_varint(s, W64),
         LAMBDA r : LET value == IF r.v % 2 = 1 THEN -(r.v \div 2) - 1 ELSE r.v \div 2
                    IN  Clamped(r, value, Signed(value, Width[f.size])))

pb_dec_fixed(s, f) ==
    Then(pb_read(s, FixedCells[f.lt]),
         LAMBDA r : LET sum[i \in 0 .. Len(r.v)] ==
                            IF i = 0 THEN 0 ELSE sum[i - 1] + r.v[i] * ByteValues ^ (i - 1)
                    IN  [r EXCEPT !.v = sum[Len(r.v)]])

pb_dec_bytes(s, f) ==
    Then(pb_decode_varint(s, W32),
         LAMBDA r : IF r.v + 1 > f.size THEN Error(r.s, << >>) ELSE pb_read(r.s, r.v))

\* The size and its terminator are counted in 32 bits.
pb_dec_string(s, f) ==
    Then(pb_decode_varint(s, W32),
         LAMBDA r : LET alloc == (r.v + 1) % 2 ^ W32
                    IN  IF alloc < r.v \/ alloc > f.size THEN Error(r.s, << >>)
                        ELSE Then(pb_read(r.s, r.v), LAMBDA text : [text EXCEPT !.v = CString(@)]))

pb_dec_fixed_length_bytes(s, f) ==
    Then(pb_decode_varint(s, W32),
         LAMBDA r : IF r.v = 0 THEN Read(r.s, [i \in 1 .. f.size |-> 0])
                    ELSE IF r.v # f.size THEN Error(r.s, << >>)
                    ELSE pb_read(r.s, f.size))

\* The parent goes on after the substream.
AfterSubstream(sub, inner) == [ok |-> inner.ok, s |-> sub.s, v |-> inner.v]

\* Mutant of pb_dec_submessage: every submessage starts from the defaults.
dec_submessage_afresh(s, f, v) ==
    Then(pb_make_string_substream(s),
         LAMBDA sub : LET inner == pb_decode(sub.v, f.sub, NoCallback)
                      IN  [ok |-> inner.ok, s |-> sub.s, v |-> inner.v])

\* An element of an array starts from the defaults; any other submessage is
\* merged into what is there.
pb_dec_submessage(s, f, v) ==
    Then(pb_make_string_substream(s),
         LAMBDA sub : AfterSubstream(sub, pb_decode_noinit(sub.v, f.sub,
             IF f.ht = "repeated" THEN pb_message_set_to_defaults(f.sub, NoCallback) ELSE v)))

\* PB_DECODERS
decode_value(s, f, v) ==
    CASE f.lt = "varint" -> pb_dec_varint(s, f)
      [] f.lt = "uvarint" -> pb_dec_uvarint(s, f)
      [] f.lt = "svarint" -> pb_dec_svarint(s, f)
      [] f.lt \in {"fixed32", "fixed64"} -> pb_dec_fixed(s, f)
      [] f.lt = "bytes" -> pb_dec_bytes(s, f)
      [] f.lt = "string" -> pb_dec_string(s, f)
      [] f.lt = "fixed_length_bytes" -> pb_dec_fixed_length_bytes(s, f)
      [] f.lt = "submessage" -> pb_dec_submessage(s, f, v)

-----------------------------------------------------------------------------
(* Decoding fields: [ok, s, v] with the new cell *)

\* Items of a packed array, while there is room.
RECURSIVE packed_items(_, _, _)
packed_items(s, f, vs) ==
    IF s.left = 0 THEN Read(s, vs)
    ELSE IF Len(vs) >= f.max THEN Error(s, vs)
    ELSE Then(decode_value(s, f, 0), LAMBDA r : packed_items(r.s, f, Append(vs, r.v)))

InCell(r, n, v) == [r EXCEPT !.v = [n |-> n, v |-> v]]
decode_static_field(s, wt, f, cell) ==
    CASE f.ht = "repeated" /\ wt = 2 /\ f.lt \in Packable ->
            Then(pb_make_string_substream(s), LAMBDA sub :
                Then(AfterSubstream(sub, packed_items(sub.v, f, cell.v)),
                     LAMBDA r : InCell(r, Len(r.v), r.v)))
      [] f.ht = "repeated" /\ ~(wt = 2 /\ f.lt \in Packable) /\ Len(cell.v) >= f.max -> Error(s, cell)
      [] OTHER ->
            Then(decode_value(s, f, CASE f.ht = "repeated" -> << >>
                                      [] f.ht = "oneof" -> DefaultValue(f, NoCallback)
                                      [] OTHER -> cell.v),
                 LAMBDA r : CASE f.ht = "repeated" -> InCell(r, cell.n + 1, Append(cell.v, r.v))
                              [] f.ht = "oneof" -> InCell(r, f.tag, r.v)
                              [] OTHER -> InCell(r, IF f.has THEN 1 ELSE cell.n, r.v))

\* The build has no malloc.
decode_pointer_field(s, wt, f, cell) == Error(s, cell)

\* A callback that takes the numbers of its stream, one at a time (external).
RECURSIVE call_decode(_, _)
call_decode(s, got) ==
    Then(pb_decode_varint(s, W64),
         LAMBDA r : IF r.s.left > 0 THEN call_decode(r.s, Append(got, r.v))
                    ELSE Read(r.s, Append(got, r.v)))
decode_callback_field(s, wt, f, cell) ==
    IF ~cell.v.func THEN [pb_skip_field(s, wt) EXCEPT !.v = cell]
    ELSE Then(IF wt = 2 THEN pb_make_string_substream(s) ELSE read_raw_value(s, wt),
              LAMBDA sub : Then(AfterSubstream(sub, call_decode(IF wt = 2 THEN sub.v ELSE istream(sub.v),
                                                                cell.v.got)),
                                LAMBDA r : [r EXCEPT !.v = [cell EXCEPT !.v.got = r.v]]))

decode_field(s, wt, f, cell) ==
    CASE f.at = "static" -> decode_static_field(s, wt, f, cell)
      [] f.at = "pointer" -> decode_pointer_field(s, wt, f, cell)
      [] f.at = "callback" -> decode_callback_field(s, wt, f, cell)

\* Each extension in turn until one of them takes the field; pSize is its found.
decode_extension(s, tag, wt, exts, cell) ==
    LET mine == {i \in DOMAIN exts : exts[i].tag = tag}
        i    == CHOOSE i \in mine : \A j \in mine : i <= j
    IN  IF mine = {} THEN Read(s, cell)
        ELSE Then(decode_field(s, wt, exts[i], cell.v[i]),
                  LAMBDA r : [r EXCEPT !.v = [cell EXCEPT !.v[i] = [r.v EXCEPT !.n = 1]]])

\* pb_field_iter_find; the iterator of an empty message stands on the terminator,
\* whose tag is 0 and which nothing can be decoded into.
pb_field_iter_find(fields, tag) ==
    {i \in DOMAIN fields : fields[i].tag = tag /\ fields[i].lt # "extension"}
OnTerminator(fields, tag) == fields = << >> /\ tag = 0
find_extension_field(fields) == {i \in DOMAIN fields : fields[i].lt = "extension"}

\* One turn of the loop of pb_decode_noinit: t is the tag that was read.  A field
\* no extension took (the stream is where it was) is skipped.
Decoded(ok, s, m, seen) == [ok |-> ok, s |-> s, v |-> m, seen |-> seen]
RECURSIVE decode_fields(_, _, _, _)
GoOn(r, fields, m, slot, seen) ==
    IF r.ok THEN decode_fields(r.s, fields, [m EXCEPT ![slot] = r.v], seen) ELSE Decoded(FALSE, r.s, m, seen)
SkipOver(r, fields, m, seen) ==
    IF r.ok THEN decode_fields(r.s, fields, m, seen) ELSE Decoded(FALSE, r.s, m, seen)
Extended(r, t, fields, m, slot, seen) ==
    IF r.ok /\ r.s = t.s THEN SkipOver(pb_skip_field(t.s, t.wt), fields, m, seen)
    ELSE GoOn(r, fields, m, slot, seen)
decode_tagged(t, fields, m, seen) ==
    LET hit == pb_field_iter_find(fields, t.tag)
        ext == {i \in find_extension_field(fields) : t.tag >= fields[i].tag}
        i   == CHOOSE i \in (IF hit # {} THEN hit ELSE ext) : TRUE
    IN  IF ~t.ok THEN Decoded(t.eof, t.s, m, seen)
        ELSE IF OnTerminator(fields, t.tag) THEN Decoded(FALSE, t.s, m, seen)
        ELSE IF hit # {}
        THEN GoOn(decode_field(t.s, t.wt, fields[i], m[fields[i].slot]), fields, m, fields[i].slot, seen \cup hit)
        ELSE IF ext # {}
        THEN Extended(decode_extension(t.s, t.tag, t.wt, fields[i].sub, m[fields[i].slot]),
                      t, fields, m, fields[i].slot, seen)
        ELSE SkipOver(pb_skip_field(t.s, t.wt), fields, m, seen)
decode_fields(s, fields, m, seen) ==
    IF s.left = 0 THEN Decoded(TRUE, s, m, seen)
    ELSE decode_tagged(pb_decode_tag(s), fields, m, seen)

\* All required fields must have been seen (fewer than 32 of them).
pb_decode_noinit(s, fields, m) ==
    Then(decode_fields(s, fields, m, {}),
         LAMBDA r : [r EXCEPT !.ok = {i \in DOMAIN fields : fields[i].ht = "required"} \subseteq r.seen])

-----------------------------------------------------------------------------
(* Wires that arrive: encodings of structures one after the other, or pieces. *)

Arrives(bytes) ==
    /\ pieces < MaxFragments
    /\ wire' = wire \o bytes
    /\ heard' = pb_decode(istream(wire \o bytes), Message, Decoding)
    /\ pieces' = pieces + 1

EncodedForm(m) == pb_encode(ostream(pb_get_encoded_size(Message, m).written), Message, m).out
ReceiveMessage(m) == Arrives(EncodedForm(m)) /\ sent' = IF Len(sent) = pieces THEN Append(sent, m) ELSE sent
ReceiveFragment(bytes) == Arrives(bytes) /\ UNCHANGED sent

PbInit ==
    /\ wire = << >> /\ sent = << >> /\ pieces = 0
    /\ heard = pb_decode(istream(<< >>), Message, Decoding)
PbNext ==
    \/ \E m \in Samples : ReceiveMessage(m)
    \/ \E bytes \in Fragments : ReceiveFragment(bytes)

-----------------------------------------------------------------------------
(* Properties *)

\* Reference: what a structure followed by another one means.
RECURSIVE Merged(_, _, _)
MergedCell(f, a, b) ==
    LET v == IF f.lt = "submessage" /\ f.ht # "repeated" THEN Merged(f.sub, a.v, b.v) ELSE b.v
    IN  CASE f.at = "callback" /\ f.lt # "extension" -> [a EXCEPT !.v.got = @ \o b.v.numbers]
          [] f.at = "pointer" -> a
          [] f.lt = "extension" -> [a EXCEPT !.v = [i \in DOMAIN @ |-> IF b.v[i].n = 1 THEN b.v[i] ELSE @[i]]]
          [] f.ht = "repeated" -> [n |-> a.n + b.n, v |-> a.v \o b.v]
          [] f.ht = "oneof" -> IF b.n = 0 THEN a ELSE b
          [] f.ht = "required" -> [n |-> IF f.has THEN 1 ELSE 0, v |-> v]
          [] f.ht = "optional" /\ f.has -> IF b.n = 1 THEN [n |-> 1, v |-> v] ELSE a
          [] OTHER -> [n |-> 0, v |-> IF f.lt # "submessage" /\ ZeroValue(f, b.v) THEN a.v ELSE v]
Merged(fields, a, b) ==
    [p \in DOMAIN a |-> LET f == fields[CHOOSE i \in DOMAIN fields : fields[i].slot = p]
                        IN  MergedCell(f, a[p], b[p])]
MergedAll == LET upto[k \in 0 .. Len(sent)] ==
                    IF k = 0 THEN pb_message_set_to_defaults(Message, Decoding)
                    ELSE Merged(Message, upto[k - 1], sent[k])
             IN  upto[Len(sent)]

\* Values fit where they are stored.
RECURSIVE Fits(_, _)
ValueFits(f, v) ==
    CASE f.lt \in {"varint", "svarint"} -> v = Signed(v, Width[f.size])
      [] f.lt = "uvarint" -> v = Unsigned(v, Width[f.size])
      [] f.lt \in {"bytes", "string"} -> Len(v) < f.size
      [] f.lt = "fixed_length_bytes" -> Len(v) = f.size
      [] f.lt = "submessage" -> Fits(f.sub, v)
      [] OTHER -> v >= 0
Fits(fields, m) ==
    \A i \in DOMAIN fields :
        LET f == fields[i]
            c == m[f.slot]
        IN  CASE f.at # "static" /\ f.lt # "extension" -> TRUE
              [] f.lt = "extension" -> \A j \in DOMAIN f.sub : ValueFits(f.sub[j], c.v[j].v)
              [] f.ht = "repeated" -> /\ c.n = Len(c.v) /\ c.n <= f.max
                                      /\ \A j \in DOMAIN c.v : ValueFits(f, c.v[j])
              [] f.ht = "oneof" -> c.n = f.tag => ValueFits(f, c.v)
              [] OTHER -> ValueFits(f, c.v)

\* A structure sent is a structure received: encodings one after the other
\* decode to the merge of what was sent, or fail because an array is full or a
\* pointer field would need malloc.
Decodable(m) == \A i \in DOMAIN Message : Message[i].at = "pointer" => m[Message[i].slot].v = << >>
RoundTrip ==
    pieces = Len(sent) /\ sent # << >> =>
        IF Fits(Message, MergedAll) /\ \A k \in DOMAIN sent : Decodable(sent[k])
        THEN heard.ok /\ heard.v = MergedAll ELSE ~heard.ok

\* Whatever arrives, what decoding accepts is within its fields and can be sent
\* on: it encodes, and decodes to itself.
RECURSIVE Sendable(_, _)
Sendable(fields, m) ==
    [p \in DOMAIN m |->
        LET f == fields[CHOOSE i \in DOMAIN fields : fields[i].slot = p]
            Sub(v) == IF f.lt = "submessage" THEN Sendable(f.sub, v) ELSE v
        IN  CASE f.at = "callback" /\ f.lt # "extension" -> [n |-> 0, v |-> [func |-> FALSE]]
              [] f.lt = "submessage" /\ f.ht = "repeated" ->
                    [n |-> m[p].n, v |-> [j \in DOMAIN m[p].v |-> Sub(m[p].v[j])]]
              [] f.ht = "oneof" ->
                    LET of == {i \in DOMAIN fields : fields[i].slot = p /\ fields[i].tag = m[p].n}
                    IN  IF \E i \in of : fields[i].lt = "submessage"
                        THEN [m[p] EXCEPT !.v = Sendable(fields[CHOOSE i \in of : TRUE].sub, @)]
                        ELSE m[p]
              [] OTHER -> [m[p] EXCEPT !.v = Sub(@)]]
AcceptedIsSendable ==
    heard.ok =>
        /\ Fits(Message, heard.v)
        /\ \A m \in {Sendable(Message, heard.v)} :
              /\ pb_get_encoded_size(Message, m).ok
              /\ \A back \in {pb_decode(istream(EncodedForm(m)), Message, Decoding)} :
                    back.ok /\ Sendable(Message, back.v) = m

\* Encoding succeeds exactly in the buffers that are large enough, writes the
\* size it was said to need, and never writes past the buffer; an array beyond
\* its size, and a callback whose output changes between the two passes over a
\* submessage, are reported.
EncodeExact ==
    pieces = 1 /\ sent # << >> => \A m \in {sent[1]} \cup Unfit :
        \A size \in {pb_get_encoded_size(Message, m).written} : \A max \in 0 .. size + 1 :
            \A o \in {pb_encode(ostream(max), Message, m)} :
                /\ o.written = Len(o.out) /\ o.written <= max
                /\ o.ok = (m \in Samples /\ max >= size)
                /\ o.ok => o.written = size

\* Messages sent in any split arrive, what is accepted can be sent on, and encoding
\* fits its buffer exactly or fails.
MessagesExact == RoundTrip /\ AcceptedIsSendable /\ EncodeExact
=============================================================================

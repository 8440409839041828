------------------------------ MODULE MCFormats -----------------------------
(***************************************************************************)
(* Small instances of what is written to files and sent over the wire, and *)
(* of how it is read back, the life of tables and blocks in memory         *)
(* included.  The parts share no state: part says which of them a          *)
(* behaviour is of.                                                        *)
(***************************************************************************)
EXTENDS LogFormat, TableFormat, TableReader, Encodings, Nanopb, Base64, TLC

VARIABLE part

-----------------------------------------------------------------------------
\* TableFormat: user keys, each with two sequence numbers.
UserKeys == {<< >>, <<0>>, <<0,2>>, <<1>>, <<2>>, <<2,2>>}
SomeTableKeys == {IKey(u, t) : u \in UserKeys, t \in {1, 3}}

\* Encodings
SomeBatchKeys == {<< >>, <<2>>, <<2,7>>}
SomeBatchValues == {<< >>, <<5,0,7,1>>}
SomeEdits == {
   [ClearEdit EXCEPT !.comparator = << <<3,1,4,1>> >>, !.log_number = <<9>>, !.prev_log_number = <<0>>, !.next_file_number = <<63>>, !.last_sequence = <<40>>],
   [ClearEdit EXCEPT !.log_number = <<5>>, !.deleted_files = {<<0, 5>>, <<1, 4>>, <<1, 17>>}, !.new_files = << <<2, 18, 33, <<2,1,1,0>>, <<2,7,1,2,0>> >> >>],
   [ClearEdit EXCEPT !.compact_pointers = << <<0, <<2,1,1,0>> >>, <<2, <<7,1,1,0>> >> >>, !.new_files = << <<0, 6, 1, <<1,1,0>>, <<1,1,0>> >>, <<0, 7, 20, <<1,1,0>>, <<2,1,0>> >> >>] }

\* Nanopb: a message type with a field of every kind, structures to send, and
\* pieces of wire.
PbField(tag, lt, ht, at, size, max, sub, slot, has) ==
    [tag |-> tag, lt |-> lt, ht |-> ht, at |-> at, size |-> size, max |-> max, sub |-> sub,
     slot |-> slot, has |-> has]
PbScalar(tag, lt, ht, size, has) == PbField(tag, lt, ht, "static", size, 0, << >>, tag, has)
PbStamped == << PbScalar(1, "fixed32", "required", 4, FALSE),
              PbField(2, "uvarint", "repeated", "callback", 8, 0, << >>, 2, FALSE) >>
PbEntry == << PbScalar(1, "uvarint", "optional", 1, FALSE),
            PbScalar(2, "fixed_length_bytes", "optional", 2, FALSE) >>
PbPlain == << PbScalar(1, "svarint", "optional", 8, FALSE),
            PbScalar(2, "string", "optional", 2, FALSE) >>
PbMessage == <<
    PbScalar(1, "varint", "required", 4, FALSE),
    PbScalar(2, "svarint", "optional", 1, TRUE),
    PbField(3, "uvarint", "repeated", "static", 2, 2, << >>, 3, TRUE),
    PbField(4, "bytes", "oneof", "static", 3, 0, << >>, 4, TRUE),
    PbField(5, "submessage", "oneof", "static", 0, 0, PbStamped, 4, TRUE),
    PbScalar(6, "string", "optional", 3, TRUE),
    PbField(7, "submessage", "repeated", "static", 0, 2, PbEntry, 7, TRUE),
    PbField(8, "submessage", "optional", "static", 0, 0, PbPlain, 8, FALSE),
    PbField(9, "string", "optional", "pointer", 0, 0, << >>, 9, FALSE),
    PbField(10, "uvarint", "repeated", "callback", 8, 0, << >>, 10, FALSE),
    PbField(11, "submessage", "optional", "static", 0, 0, << >>, 11, TRUE),
    PbField(12, "extension", "optional", "callback", 0, 0,
            << PbScalar(13, "fixed64", "required", 8, FALSE) >>, 12, FALSE) >>
PbZero == pb_message_set_to_defaults(PbMessage, [func |-> FALSE, numbers |-> << >>])
PbSet(m, slot, n, v) == [m EXCEPT ![slot] = [n |-> n, v |-> v]]
PbWrites(a, b) == [func |-> TRUE, sizing |-> a, writing |-> b, numbers |-> << >>]
PbStamp(v, cb) == (1 :> [n |-> 0, v |-> v]) @@ (2 :> [n |-> 0, v |-> cb])
PbEntryOf(a, b) == (1 :> [n |-> 0, v |-> a]) @@ (2 :> [n |-> 0, v |-> b])
PbSamples == {
    PbSet(PbZero, 1, 0, -3),
    PbSet(PbSet(PbZero, 2, 1, -16), 3, 2, << 700, 0 >>),
    PbSet(PbSet(PbZero, 2, 1, 15), 3, 1, << 5 >>),
    PbSet(PbSet(PbZero, 4, 4, << 0, 7 >>), 6, 1, << 3, 9 >>),
    PbSet(PbSet(PbZero, 4, 5, PbStamp(999, NoCallback)), 11, 1, << >>),
    PbSet(PbSet(PbZero, 7, 2, << PbEntryOf(0, << 0, 31 >>), PbEntryOf(31, << 1, 0 >>) >>), 8, 0, PbEntryOf(-2000, << 4 >>)),
    PbSet(PbSet(PbZero, 8, 0, PbEntryOf(0, << 8 >>)), 12, 0, << [n |-> 1, v |-> 12345] >>),
    PbSet(PbZero, 9, 0, << << 5 >> >>),
    PbSet(PbZero, 10, 0, [func |-> TRUE, sizing |-> << 18, 5, 2, 3, 1 >>, writing |-> << 18, 5, 2, 3, 1 >>, numbers |-> << 3, 1 >>]) }
PbUnfit == {
    PbSet(PbZero, 3, 3, << 1, 2, 3 >>),
    PbSet(PbZero, 4, 4, << 1, 2, 3 >>),
    PbSet(PbZero, 4, 5, PbStamp(1, PbWrites(<< 18, 1 >>, << 18 >>))),
    PbSet(PbZero, 4, 5, PbStamp(1, PbWrites(<< 18 >>, << 18, 1 >>))) }
PbTags == { << 8 >>, << 16, 1 >>, << 26, 1 >>, << 24, 1 >>, << 18, 2 >>, << 26, 2 >>, << 18, 3 >>, << 26, 3 >>,
          << 18, 4 >>, << 26, 4 >>, << 18, 5 >>, << 16, 5 >>, << 26, 5 >>, << 18, 6 >>, << 25, 6 >>, << 26, 6>>, << 3 >>,<< 21, 7 >> }
PbBytes == { << 18, 2, 3 >>, << 18, 3, 3 >>, << 0 >>, << 1 >>, << 2 >>, << 13 >>, << 31 >>, <<31,31,31>>, << 4 , 9, 0 >> }
PbFragments == PbTags \cup PbBytes
PbWidth == (1 :> 5) @@ (2 :> 10) @@ (4 :> 15) @@ (8 :> 18)
PbCells == [fixed32 |-> 3, fixed64 |-> 4]

-----------------------------------------------------------------------------
formatsVars == << part, logVars, formatVars, readerVars, codeVars, pbVars, base64Vars >>

FormatsInit ==
    /\ part \in {"log", "table", "reader", "code", "nanopb", "base64"}
    /\ LogInit /\ FormatInit /\ TableReaderInit /\ CodeInit /\ PbInit
    /\ Base64Init

FormatsNext ==
    \/ part = "log" /\ LogNext /\ UNCHANGED part
       /\ UNCHANGED << formatVars, readerVars, codeVars, pbVars, base64Vars >>
    \/ part = "table" /\ FormatNext /\ UNCHANGED part
       /\ UNCHANGED << logVars, readerVars, codeVars, pbVars, base64Vars >>
    \/ part = "reader" /\ TableReaderNext /\ UNCHANGED part
       /\ UNCHANGED << logVars, formatVars, codeVars, pbVars, base64Vars >>
    \/ part = "code" /\ CodeNext /\ UNCHANGED part
       /\ UNCHANGED << logVars, formatVars, readerVars, pbVars, base64Vars >>
    \/ part = "nanopb" /\ PbNext /\ UNCHANGED part
       /\ UNCHANGED << logVars, formatVars, readerVars, codeVars, base64Vars >>
    \/ part = "base64" /\ Base64Next /\ UNCHANGED part
       /\ UNCHANGED << logVars, formatVars, readerVars, codeVars, pbVars >>

FormatsSpec == FormatsInit /\ [][FormatsNext]_formatsVars
=============================================================================

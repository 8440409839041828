------------------------------- MODULE Base64 -------------------------------
(***************************************************************************)
(* third_party/SocketRocket/fbase64.c: f_b64_ntop and f_b64_pton, which    *)
(* encode the key of the websocket handshake.  A character of the text is  *)
(* its index in Base64, Pad64, Space or Other.                             *)
(***************************************************************************)
EXTENDS Integers, Sequences, FiniteSets

CONSTANTS
    SourceBytes,           \* bytes that are encoded
    Characters,            \* characters that are decoded
    MaxSource, MaxText     \* bounds on their numbers

VARIABLES
    source,   \* bytes to encode
    text      \* characters to decode

base64Vars == << source, text >>

Pad64 == 64
Space == 65
Other == 66

-----------------------------------------------------------------------------
Output(a, b, c) ==
    << a \div 4, (a % 4) * 16 + (b \div 16), (b % 16) * 4 + (c \div 64), c % 64 >>

\* The rest of src after datalength characters: -1 is << >>, else << text >>.
RECURSIVE NtopFrom(_, _, _)
NtopFrom(src, target, targsize) ==
    IF Len(src) > 2
    THEN IF Len(target) + 4 > targsize THEN << >>
         ELSE NtopFrom(SubSeq(src, 4, Len(src)), target \o Output(src[1], src[2], src[3]), targsize)
    ELSE LET b    == IF Len(src) = 2 THEN src[2] ELSE 0
             out  == Output(src[1], b, 0)
             last == << out[1], out[2], IF Len(src) = 1 THEN Pad64 ELSE out[3], Pad64 >>
             full == IF src = << >> THEN target ELSE target \o last
         IN  IF Len(full) >= targsize THEN << >> ELSE << full >>
f_b64_ntop(src, targsize) == NtopFrom(src, << >>, targsize)

\* t = [state, target, ok]: target holds the bytes stored, the last of them
\* with the bits that spilled over in states 1 and 2; tarindex points at it.
Tarindex(t) == IF t.state \in {1, 2, 3} THEN Len(t.target) - 1 ELSE Len(t.target)
OrLast(t, v) == [t.target EXCEPT ![Len(t.target)] = @ + v]
PtonChar(t, c, targsize) ==
    LET room == CASE t.state \in {0, 3} -> Tarindex(t) < targsize
                  [] t.state \in {1, 2} -> Tarindex(t) + 1 < targsize
    IN  IF c > 63 \/ ~room THEN [t EXCEPT !.ok = FALSE]
        ELSE [t EXCEPT !.state = (@ + 1) % 4,
                       !.target = CASE t.state = 0 -> Append(@, c * 4)
                                    [] t.state = 1 -> Append(OrLast(t, c \div 16), (c % 16) * 16)
                                    [] t.state = 2 -> Append(OrLast(t, c \div 4), (c % 4) * 64)
                                    [] t.state = 3 -> OrLast(t, c)]

\* Base-64 characters up to the first pad or the end.
RECURSIVE PtonBody(_, _, _)
PtonBody(src, t, targsize) ==
    IF src = << >> \/ ~t.ok THEN [t |-> t, rest |-> src]
    ELSE IF src[1] = Space THEN PtonBody(Tail(src), t, targsize)
    ELSE IF src[1] = Pad64 THEN [t |-> t, rest |-> src]
    ELSE PtonBody(Tail(src), PtonChar(t, src[1], targsize), targsize)

Blank(src) == \A i \in DOMAIN src : src[i] = Space

\* Mutant of PadsRight: what follows the first pad is not looked at.
PadsAnyhow(state, src) == state \in {2, 3}

\* After the first pad: in state 2 spaces and another pad, then only spaces.
PadsRight(state, src) ==
    CASE state \in {0, 1} -> FALSE
      [] state = 2 -> \E i \in DOMAIN src : /\ Blank(SubSeq(src, 1, i - 1)) /\ src[i] = Pad64
                                            /\ Blank(SubSeq(src, i + 1, Len(src)))
      [] state = 3 -> Blank(src)

\* -1 is << >>, else << bytes >>.
f_b64_pton(src, targsize) ==
    LET r == PtonBody(src, [state |-> 0, target |-> << >>, ok |-> TRUE], targsize)
        t == r.t
        bytes == << SubSeq(t.target, 1, Tarindex(t)) >>
    IN  IF ~t.ok THEN << >>
        ELSE IF r.rest = << >> THEN IF t.state = 0 THEN bytes ELSE << >>
        ELSE IF PadsRight(t.state, Tail(r.rest)) /\ t.target[Len(t.target)] = 0 THEN bytes
        ELSE << >>

-----------------------------------------------------------------------------
AddByte(b) == text = << >> /\ Len(source) < MaxSource /\ source' = Append(source, b) /\ UNCHANGED text
AddCharacter(c) == source = << >> /\ Len(text) < MaxText /\ text' = Append(text, c) /\ UNCHANGED source
Base64Init == source = << >> /\ text = << >>
Base64Next ==
    \/ \E b \in SourceBytes : AddByte(b)
    \/ \E c \in Characters : AddCharacter(c)

-----------------------------------------------------------------------------
(* Properties *)

EncodedLength(n) == 4 * ((n + 2) \div 3)

\* Encoding fails exactly if the text and its terminator do not fit; otherwise
\* the text decodes to the source, in a buffer with room for it and for the
\* bits that spill over after a last partial group, and in no smaller one.
EncodedDecodes ==
    LET need  == EncodedLength(Len(source)) + 1
        coded == f_b64_ntop(source, need)
        room  == Len(source) + (IF Len(source) % 3 = 0 THEN 0 ELSE 1)
    IN  /\ \A size \in 0 .. need : (f_b64_ntop(source, size) = << >>) <=> size < need
        /\ Len(coded[1]) = need - 1
        /\ \A size \in 0 .. room + 1 :
              f_b64_pton(coded[1], size) = IF size < room THEN << >> ELSE << source >>

\* Decoding accepts only what encoding writes, apart from spaces: no bits are
\* hidden under the padding and nothing follows it.
OnlyCanonical ==
    LET r == f_b64_pton(text, MaxText)
    IN  r # << >> => f_b64_ntop(r[1], EncodedLength(MaxText) + 1) =
                        << SelectSeq(text, LAMBDA c : c # Space) >>

\* Decoding inverts encoding in every buffer size, and accepts nothing else.
Base64Exact == EncodedDecodes /\ OnlyCanonical
=============================================================================

---------------------------- MODULE WriteConsoleA ----------------------------
(***************************************************************************)
(* The byte-to-UTF-16 conversion of ApiRoutines::WriteConsoleAImpl        *)
(* (src/terminal/src/host/_stream.cpp 386-561) and the W call it makes     *)
(* (WriteConsoleWImplHelper, DoWriteConsole).                              *)
(*                                                                         *)
(* A client writes a byte stream to a screen buffer in calls of arbitrary  *)
(* length.  Under a DBCS output code page a call may end in the lead byte  *)
(* of a double-byte character.  The code keeps it in the screen buffer's   *)
(* WriteConsoleDbcsLeadByte[0] and joins it to the first byte of the next  *)
(* call.  Under UTF-8 a trailing partial sequence is kept in a function-   *)
(* static til::u8state instead.                                            *)
(*                                                                         *)
(* Bytes are abstracted to classes.  DBCS: "l" is a lead byte, which is    *)
(* also a valid trail byte; "t" is a single-byte character, also a valid   *)
(* trail byte.  UTF-8: "a" is ASCII, "h" starts a two-byte sequence and    *)
(* "k" is a continuation byte.  A code unit is "t", "a", "Wl" or "Wt"    *)
(* (a double-byte character with trail "l" or "t"), "U" (a two-byte      *)
(* UTF-8 character), "R" (U+FFFD) or "NUL" (a zero code unit).            *)
(***************************************************************************)
EXTENDS Integers, Sequences, SequencesExt

CONSTANTS
    Buffers,        \* screen buffers the clients write to
    CodePages,      \* output code pages the console may be set to: "dbcs", "utf8"
    MaxChunk,       \* most bytes in one WriteConsoleA call
    MaxSent,        \* most bytes written to one buffer in a behaviour
    ConvertMayFail  \* whether ConvertToW (447) may throw

ASSUME CodePages \subseteq {"dbcs", "utf8"} /\ MaxChunk \in Nat \ {0}
       /\ MaxSent \in Nat /\ ConvertMayFail \in BOOLEAN

VARIABLES
    codePage,   \* the console's OutputCP, fixed for a behaviour
    leadByte,   \* leadByte[s]: screenInfo.WriteConsoleDbcsLeadByte[0], "l" or "none"
    u8State,    \* the static til::u8state: cached partial UTF-8 bytes
    sent,       \* sent[s]: every byte clients passed to WriteConsoleA for s
    out,        \* out[s]: every code unit WriteConsoleW wrote into s
    lastCall,   \* the last call: its buffer size and the read count it returned
    stream      \* ghost: all bytes and all code units of all calls, in call order

vars == <<codePage, leadByte, u8State, sent, out, lastCall, stream>>

DbcsBytes == {"l", "t"}
Utf8Bytes == {"a", "h", "k"}
Alphabet == IF codePage = "dbcs" THEN DbcsBytes ELSE Utf8Bytes

(***************************************************************************)
(* Platform conversions the code calls, by what they compute.              *)
(***************************************************************************)

\* The code unit of the double-byte character with trail byte b.
DoubleByte(b) == IF b = "l" THEN "Wl" ELSE "Wt"

\* CheckBisectStringA: walking from the first byte, a lead byte takes the
\* next byte as its trail; TRUE when the last byte is a lead left unpaired.
RECURSIVE CheckBisectStringA(_)
CheckBisectStringA(b) ==
    IF b = <<>> THEN FALSE
    ELSE IF Head(b) = "l"
         THEN Len(b) = 1 \/ CheckBisectStringA(Tail(Tail(b)))
         ELSE CheckBisectStringA(Tail(b))

\* MultiByteToWideChar under the DBCS code page.  A trailing unpaired lead
\* byte yields nothing: the code never passes one (CheckBisectStringA).
RECURSIVE MultiByteToWideChar(_)
MultiByteToWideChar(b) ==
    IF Len(b) = 0 \/ b = <<"l">> THEN <<>>
    ELSE IF Head(b) = "l"
         THEN <<DoubleByte(b[2])>> \o MultiByteToWideChar(Tail(Tail(b)))
         ELSE <<Head(b)>> \o MultiByteToWideChar(Tail(b))

\* GetALengthFromW: the bytes the code units take back in the code page.
GetALengthFromW(w) ==
    LET Bytes(u) == IF u \in DbcsBytes \cup {"NUL"} THEN 1 ELSE 2
        RECURSIVE Sum(_)
        Sum(i) == IF i = 0 THEN 0 ELSE Bytes(w[i]) + Sum(i - 1)
    IN  Sum(Len(w))

\* UTF-8 decoding as til::u8u16 does it over the cached partial followed by
\* the new bytes: a lead not followed by a continuation, and a continuation
\* without a lead, become U+FFFD.
RECURSIVE Utf8Decode(_)
Utf8Decode(b) ==
    IF b = <<>> THEN <<>>
    ELSE IF Head(b) = "h" /\ Len(b) >= 2 /\ b[2] = "k"
         THEN <<"U">> \o Utf8Decode(Tail(Tail(b)))
         ELSE IF Head(b) = "a" THEN <<"a">> \o Utf8Decode(Tail(b))
         ELSE <<"R">> \o Utf8Decode(Tail(b))

\* Mutant: caching everything from the first lead of the call onwards.
U8U16CacheTail(state, buffer) ==
    LET all == state \o buffer
        from == IF Last(all) = "h" THEN SelectInSeq(all, LAMBDA x : x = "h") ELSE Len(all) + 1
    IN  [wstr |-> Utf8Decode(SubSeq(all, 1, from - 1)),
         state |-> SubSeq(all, from, Len(all))]

\* til::u8u16 with a u8state: a trailing lead is cached for the next call.
U8U16(state, buffer) ==
    LET all == state \o buffer
        partial == IF Last(all) = "h" THEN <<"h">> ELSE <<>>
    IN  [wstr |-> Utf8Decode(SubSeq(all, 1, Len(all) - Len(partial))),
         state |-> partial]

\* A byte stream without the lead byte it may end in.
Utf8Complete(b) == IF b # <<>> /\ Last(b) = "h" THEN Front(b) ELSE b

(***************************************************************************)
(* The DBCS branch of WriteConsoleAImpl, lines 424-493, as one operator    *)
(* from the stored lead byte, the call's bytes and whether ConvertToW      *)
(* throws, to the string passed on, the new lead byte and the two flags.   *)
(***************************************************************************)
\* Mutant: the stored lead is joined but mbPtr is not advanced past its trail.
JoinStoredLeadNoAdvance(lead, buffer, throws) ==
    IF lead = "none"
    THEN [head |-> <<>>, dbcsLength |-> 0, rest |-> buffer, consumed |-> FALSE]
    ELSE [head |-> <<DoubleByte(buffer[1])>>, dbcsLength |-> 1,
          rest |-> buffer, consumed |-> TRUE]

JoinStoredLead(lead, buffer, throws) ==
    CASE lead = "none" ->
            [head |-> <<>>, dbcsLength |-> 0, rest |-> buffer, consumed |-> FALSE]
      [] ~throws ->
            [head |-> <<DoubleByte(buffer[1])>>, dbcsLength |-> 1,
             rest |-> Tail(buffer), consumed |-> TRUE]
      [] OTHER ->
            \* the catch: wcPtr and mbPtrLength move on, mbPtr does not
            [head |-> <<"NUL">>, dbcsLength |-> 0,
             rest |-> SubSeq(buffer, 1, Len(buffer) - 1), consumed |-> TRUE]

DbcsConvert(lead, buffer, throws) ==
    LET j == JoinStoredLead(lead, buffer, throws)
        captured == j.rest # <<>> /\ CheckBisectStringA(j.rest)
        mb == IF captured THEN Front(j.rest) ELSE j.rest
        conv == MultiByteToWideChar(mb)
    IN  [wstr |-> SubSeq(j.head \o conv, 1, j.dbcsLength + Len(conv)),
         lead |-> IF captured THEN "l" ELSE "none",
         captured |-> captured, consumed |-> j.consumed]

\* Mutant: the +1 for a captured lead byte is left out.
DbcsReadNoCapture(c) ==
    GetALengthFromW(c.wstr) - (IF c.consumed THEN 1 ELSE 0)

\* lines 508-535: bytes of the W string, +1 for a captured lead, -1 for a
\* consumed stored one.
DbcsRead(c) ==
    GetALengthFromW(c.wstr) + (IF c.captured THEN 1 ELSE 0)
                            - (IF c.consumed THEN 1 ELSE 0)

(***************************************************************************)
(* Inputs: each buffer's stream is well formed, split at any point.  Every *)
(* DBCS byte string is a well-formed prefix; under UTF-8 a continuation    *)
(* byte follows a lead and a lead is followed by a continuation.           *)
(***************************************************************************)
WellFormed(b) ==
    codePage = "dbcs"
    \/ \A i \in 1..Len(b) : (b[i] = "k") <=> (i > 1 /\ b[i - 1] = "h")

Calls(s) ==
    {c \in BoundedSeq(Alphabet, MaxChunk) :
        c # <<>> /\ Len(sent[s]) + Len(c) <= MaxSent /\ WellFormed(sent[s] \o c)}

\* DoWriteConsole, reached through WriteConsoleWImplHelper: outside the
\* suspended/selecting wait, WriteCharsLegacy or the VT state machine
\* consumes the whole string.
DoWriteConsole(s, wstr) == [out EXCEPT ![s] = @ \o wstr]

Init ==
    /\ codePage \in CodePages
    /\ leadByte = [s \in Buffers |-> "none"]
    /\ u8State = <<>>
    /\ sent = [s \in Buffers |-> <<>>]
    /\ out = [s \in Buffers |-> <<>>]
    /\ lastCall = [size |-> 0, read |-> 0]
    /\ stream = [bytes |-> <<>>, units |-> <<>>]

\* Mutant: the u8state is reset on every call, not only under other code pages.
WriteConsoleAUtf8ResetFirst(s) ==
    /\ codePage = "utf8"
    /\ \E buffer \in Calls(s) :
         LET r == U8U16(<<>>, buffer) IN
         /\ u8State' = r.state
         /\ sent' = [sent EXCEPT ![s] = @ \o buffer]
         /\ out' = DoWriteConsole(s, r.wstr)
         /\ lastCall' = [size |-> Len(buffer), read |-> Len(buffer)]
         /\ stream' = [bytes |-> stream.bytes \o buffer, units |-> stream.units \o r.wstr]
         /\ UNCHANGED <<codePage, leadByte>>

\* WriteConsoleAImpl under CP_UTF8 (415-419), then WriteConsoleWImplHelper
\* and DoWriteConsole writing the whole string.
WriteConsoleAUtf8(s) ==
    /\ codePage = "utf8"
    /\ \E buffer \in Calls(s) :
         LET r == U8U16(u8State, buffer) IN
         /\ u8State' = r.state
         /\ sent' = [sent EXCEPT ![s] = @ \o buffer]
         /\ out' = DoWriteConsole(s, r.wstr)
         /\ lastCall' = [size |-> Len(buffer), read |-> Len(buffer)]
         /\ stream' = [bytes |-> stream.bytes \o buffer, units |-> stream.units \o r.wstr]
         /\ UNCHANGED <<codePage, leadByte>>

\* WriteConsoleAImpl under a DBCS code page (420-494, 503-536).
WriteConsoleADbcs(s) ==
    /\ codePage = "dbcs"
    /\ \E buffer \in Calls(s), throws \in IF ConvertMayFail THEN BOOLEAN ELSE {FALSE} :
         LET c == DbcsConvert(leadByte[s], buffer, throws) IN
         /\ u8State' = <<>>
         /\ leadByte' = [leadByte EXCEPT ![s] = c.lead]
         /\ sent' = [sent EXCEPT ![s] = @ \o buffer]
         /\ out' = DoWriteConsole(s, c.wstr)
         /\ lastCall' = [size |-> Len(buffer), read |-> DbcsRead(c)]
         /\ stream' = [bytes |-> stream.bytes \o buffer, units |-> stream.units \o c.wstr]
         /\ UNCHANGED codePage

Next == \E s \in Buffers : WriteConsoleAUtf8(s) \/ WriteConsoleADbcs(s)

Spec == Init /\ [][Next]_vars

-----------------------------------------------------------------------------
Wide == {"t", "a", "Wl", "Wt", "U", "R", "NUL"}

TypeOK ==
    /\ codePage \in CodePages
    /\ leadByte \in [Buffers -> {"none", "l"}]
    /\ u8State \in {<<>>, <<"h">>}
    /\ sent \in [Buffers -> Seq(Alphabet)]
    /\ out \in [Buffers -> Seq(Wide)]
    /\ lastCall \in [size : Nat, read : Int]

\* Every DBCS call reports as read exactly the bytes it was given: the +1
\* for a lead byte kept back and the -1 for a stored lead byte used up must
\* balance the re-encoded length of the W string (lines 513-535).  A client
\* that is told fewer bytes were read writes the rest again.
ReadCountExact == lastCall.read = lastCall.size

\* Splitting a buffer's DBCS stream over calls, and interleaving calls to
\* other buffers, does not change what reaches the buffer: its code units
\* are the conversion of all its bytes, and a lead byte is held back exactly
\* when the stream so far ends in an unpaired lead (437-485).
DbcsReassembled ==
    codePage = "dbcs" =>
    \A s \in Buffers :
        /\ out[s] = MultiByteToWideChar(sent[s])
        /\ (leadByte[s] = "l") = CheckBisectStringA(sent[s])

\* Under UTF-8 the code units of all buffers together, in call order, are the
\* decoding of all bytes in call order: the one til::u8state (412) carries a
\* partial sequence from any call to the next, whichever buffer it is for.
Utf8OneStream ==
    codePage = "utf8" => stream.units = Utf8Decode(Utf8Complete(stream.bytes))

\* A buffer's UTF-8 code units are the decoding of the bytes written to that
\* buffer, whatever other buffers were written in between, as the per-buffer
\* WriteConsoleDbcsLeadByte does it for DBCS.
Utf8Reassembled ==
    codePage = "utf8" => \A s \in Buffers : out[s] = Utf8Decode(Utf8Complete(sent[s]))
=============================================================================

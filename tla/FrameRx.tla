------------------------------- MODULE FrameRx -------------------------------
(***************************************************************************)
(* The receive state machine of the BDP and KR servers: how svsBdpRx and   *)
(* svsKrRx (src/src/svsBdp.c, src/src/svsKr.c) find frames in the bytes of *)
(* a serial bus.                                                           *)
(*                                                                         *)
(* A frame is a preamble, a start-of-frame byte, a header and a payload.   *)
(* The first fields of the header are the CRC of what follows it, the      *)
(* length of the payload and the inverted length. Here each field is one   *)
(* cell instead of two bytes, and the rest of the header is HDR_SIZE - 3   *)
(* cells; the buffer frame_rx keeps its contents between frames, as in the *)
(* code.                                                                   *)
(***************************************************************************)
EXTENDS Integers, Sequences, FiniteSets

CONSTANTS
    BYTE_MAX,       \* the largest byte
    PREAMBLE,       \* the byte of the preamble: 0xAA
    SOF,            \* the start-of-frame byte: 0xAB
    PREAMBLE_SIZE,  \* preamble bytes: 7
    HDR_SIZE,       \* cells of the header
    PAYLOAD_MAX,    \* the longest payload: 1024
    CrcStep(_, _),  \* crc16_resume_compute for one byte
    MaxBytes,       \* bound: bytes in a behaviour, see WithinBounds
    MaxGaps         \* bound: silences in a behaviour

Byte == 0..BYTE_MAX

ASSUME FrameConstants ==
    /\ BYTE_MAX \in Nat
    /\ PREAMBLE \in Byte
    /\ SOF \in Byte
    /\ PREAMBLE_SIZE \in Nat \ {0}
    /\ HDR_SIZE \in Nat /\ HDR_SIZE > 4     \* in bytes: 24 > 7
    /\ PAYLOAD_MAX \in Nat
    /\ \A c, b \in Byte : CrcStep(c, b) \in Byte
    /\ MaxBytes \in Nat
    /\ MaxGaps \in Nat

VARIABLES
    state,          \* frame_rx_state
    pre,            \* preamble_rx_index
    index,          \* frame_rx_index
    crc,            \* frame_rx_crc
    frame,          \* the cells of frame_rx
    stream,         \* the bytes received so far
    gaps,           \* positions of bytes that came after a silence
    start,          \* where the frame being received starts
    accepted        \* the frames found: their first and last positions

vars == <<state, pre, index, crc, frame, stream, gaps, start, accepted>>

Cell == 1..HDR_SIZE + PAYLOAD_MAX

Init ==
    /\ state = "IDLE"
    /\ pre = 0
    /\ index = 0
    /\ crc = 0
    /\ frame = [i \in Cell |-> 0]
    /\ stream = <<>>
    /\ gaps = {}
    /\ start = 0
    /\ accepted = {}

len == frame[2]
Invert(b) == BYTE_MAX - b

(* Mutants: a length that is too long, or corrupt, is accepted; the longest*)
(* payload is refused.                                                     *)
LengthBadInverse == len # Invert(frame[3])
LengthBadLongest == len # Invert(frame[3]) \/ len >= PAYLOAD_MAX

(* The length field is corrupt or out of range.                            *)
LengthBad == len # Invert(frame[3]) \/ len > PAYLOAD_MAX

(* Mutant: the silence is ignored.                                         *)
ResetNever(gap) == state

(* The state in which a byte is handled: after a silence, the idle one.    *)
Reset(gap) == IF gap THEN "IDLE" ELSE state

(* The computed CRC before a byte handled in state st.                     *)
CrcBefore(st) == IF st = "IDLE" THEN 0 ELSE crc

(* A byte that is not part of a frame, in state st: the search for the     *)
(* preamble starts over with the NEXT byte.                                *)
Hunt(st, b) ==
    LET k == IF st = "IDLE" THEN 0 ELSE pre
    IN  /\ st \in {"IDLE", "PREAMBLE", "SOF"}
        /\ IF st = "SOF"
           THEN /\ state' = IF b = SOF THEN "FRAME" ELSE "IDLE"
                /\ UNCHANGED pre
           ELSE IF b = PREAMBLE
                THEN /\ pre' = k + 1
                     /\ state' = IF k + 1 >= PREAMBLE_SIZE THEN "SOF"
                                                           ELSE "PREAMBLE"
                ELSE state' = "IDLE" /\ pre' = k
        /\ index' = IF st = "IDLE" THEN 0 ELSE index
        /\ crc' = CrcBefore(st)
        /\ start' = IF st = "IDLE" THEN Len(stream) + 1 ELSE start
        /\ UNCHANGED <<frame, accepted>>

(* A byte of a frame: store it, check the length field once the cell behind*)
(* it is there, and the CRC once the frame is complete.                    *)
Collect(b) ==
    /\ frame' = [frame EXCEPT ![index + 1] = b]
    /\ index' = index + 1
    /\ crc' = IF index + 1 > 1 THEN CrcStep(crc, b) ELSE crc
    /\ LET complete == index + 1 = len' + HDR_SIZE
           bad == index + 1 = 4 /\ LengthBad'
       IN  /\ state' = IF bad \/ complete THEN "IDLE" ELSE "FRAME"
           /\ accepted' = IF complete /\ crc' = frame'[1]
                          THEN accepted \cup
                                 {[from |-> start, to |-> Len(stream) + 1]}
                          ELSE accepted
    /\ UNCHANGED <<pre, start>>

(* A bound: MaxBytes bytes, or two frames in a row from the start.         *)
WithinBounds ==
    LET longest == PREAMBLE_SIZE + 1 + HDR_SIZE + PAYLOAD_MAX
    IN  \/ Len(stream) < MaxBytes
        \/ \E a \in accepted : a.to <= longest /\ Len(stream) < a.to + longest

(* svsBdpRx / svsKrRx: byte b, the first after a silence if gap.           *)
Receive(b, gap) ==
    /\ WithinBounds
    /\ stream' = Append(stream, b)
    /\ gaps' = IF gap THEN gaps \cup {Len(stream) + 1} ELSE gaps
    /\ \/ Hunt(Reset(gap), b)
       \/ Reset(gap) = "FRAME" /\ Collect(b)

Next == \E b \in Byte :
            \/ Receive(b, FALSE)
            \/ Cardinality(gaps) < MaxGaps /\ Receive(b, TRUE)

Spec == Init /\ [][Next]_vars

-----------------------------------------------------------------------------
(* Properties.                                                             *)

(* The state has its type, and no byte is stored behind the buffer: a      *)
(* complete frame leaves the state FRAME, and the length that decides when *)
(* a frame is complete was checked, or is that of an earlier frame and too *)
(* short to matter.                                                        *)
TypeOK ==
    /\ state \in {"IDLE", "PREAMBLE", "SOF", "FRAME"}
    /\ pre \in 0..PREAMBLE_SIZE
    /\ state = "PREAMBLE" => pre < PREAMBLE_SIZE
    /\ index \in 0..HDR_SIZE + PAYLOAD_MAX
    /\ state = "FRAME" => index < HDR_SIZE + PAYLOAD_MAX
    /\ crc \in Byte
    /\ frame \in [Cell -> Byte]
    /\ stream \in Seq(Byte)
    /\ gaps \subseteq 1..Len(stream)
    /\ start \in 0..Len(stream)
    /\ accepted \subseteq [from : Nat, to : Nat]

(* What makes TypeOK inductive: the buffer is filled up to a complete frame*)
(* at most, and a length that is in the buffer as part of the frame being  *)
(* received was checked.                                                   *)
FillBound ==
    /\ state \in {"PREAMBLE", "SOF"} => index = 0
    /\ state = "FRAME" => /\ index < len + HDR_SIZE
                          /\ index >= 4 => len <= PAYLOAD_MAX

RxInv == TypeOK /\ FillBound

(* The reference: each byte of s carries on the CRC of those before it.    *)
CrcOf(s) ==
    LET c[i \in 0..Len(s)] == IF i = 0 THEN 0 ELSE CrcStep(c[i-1], s[i])
    IN  c[Len(s)]

(* The reference: s is a frame with its preamble.                          *)
WellFormed(s) ==
    LET n == PREAMBLE_SIZE + 1
        f == SubSeq(s, n + 1, Len(s))
    IN  /\ Len(f) >= HDR_SIZE
        /\ \A i \in 1..PREAMBLE_SIZE : s[i] = PREAMBLE
        /\ s[n] = SOF
        /\ f[2] = Invert(f[3])
        /\ f[2] <= PAYLOAD_MAX
        /\ Len(f) = HDR_SIZE + f[2]
        /\ f[1] = CrcOf(Tail(f))

(* What is accepted is a frame of the stream, byte by byte, without a      *)
(* silence in it: nothing of an earlier frame or of noise is left in it.   *)
Sound ==
    \A a \in accepted : /\ WellFormed(SubSeq(stream, a.from, a.to))
                        /\ gaps \cap (a.from + 1)..a.to = {}

(* A frame that follows a silence, or another frame, is accepted whatever  *)
(* came before it.                                                         *)
Fresh == {1} \cup gaps \cup {a.to + 1 : a \in accepted}

Complete ==
    \A i \in Fresh : \A j \in i..Len(stream) :
        WellFormed(SubSeq(stream, i, j)) /\ gaps \cap (i + 1)..j = {} =>
            [from |-> i, to |-> j] \in accepted

=============================================================================

--------------------------- MODULE FrameRxProofs ---------------------------
(***************************************************************************)
(* Proofs about FrameRx: for every frame format and every stream of bytes  *)
(* and silences, nothing is stored behind the receive buffer, and the      *)
(* frames that are accepted are those of the stream.                       *)
(***************************************************************************)
EXTENDS FrameRx, SequenceLemmas, TLAPS

(* The assumptions on the frame format, without the one on the CRC.        *)
LEMMA Format ==
    /\ BYTE_MAX \in Nat
    /\ PREAMBLE_SIZE \in Nat
    /\ PREAMBLE_SIZE > 0
    /\ HDR_SIZE \in Nat
    /\ HDR_SIZE > 4
    /\ PAYLOAD_MAX \in Nat
BY FrameConstants

(* The length field of the buffer is a number.                             *)
LEMMA LenType == TypeOK => len \in Nat
<1> SUFFICES ASSUME TypeOK PROVE len \in Nat
  OBVIOUS
<1>1. 2 \in Cell
  BY Format DEF Cell
<1>2. frame[2] \in Byte
  BY <1>1 DEF TypeOK
<1> QED
  BY <1>2, Format DEF len, Byte

(* The stream and the silences in it, after one more byte.                 *)
LEMMA StreamType ==
    ASSUME TypeOK, NEW b \in Byte, NEW gap \in BOOLEAN,
           stream' = Append(stream, b),
           gaps' = IF gap THEN gaps \cup {Len(stream) + 1} ELSE gaps
    PROVE  /\ stream' \in Seq(Byte)
           /\ Len(stream) \in Nat
           /\ Len(stream') = Len(stream) + 1
           /\ gaps' \subseteq 1..Len(stream')
<1>1. stream \in Seq(Byte) /\ gaps \subseteq 1..Len(stream)
  BY DEF TypeOK
<1>2. stream' \in Seq(Byte) /\ Len(stream) \in Nat /\ Len(stream') = Len(stream) + 1
  BY <1>1
<1>3. 1..Len(stream) \subseteq 1..Len(stream') /\ Len(stream) + 1 \in 1..Len(stream')
  BY <1>2
<1>4. gaps' \subseteq 1..Len(stream')
  <2>1. CASE gap
    BY <1>1, <1>3, <2>1
  <2>2. CASE ~gap
    BY <1>1, <1>3, <2>2
  <2> QED
    BY <2>1, <2>2
<1> QED
  BY <1>2, <1>4

(* A byte outside a frame keeps the invariant; a frame starts with an empty*)
(* buffer.                                                                 *)
LEMMA HuntInv ==
    ASSUME RxInv, NEW b \in Byte, NEW gap \in BOOLEAN,
           stream' = Append(stream, b),
           gaps' = IF gap THEN gaps \cup {Len(stream) + 1} ELSE gaps,
           Hunt(Reset(gap), b)
    PROVE  RxInv'
<1> DEFINE st == Reset(gap)
<1>0. TypeOK /\ FillBound
  BY DEF RxInv
<1>1. st \in {"IDLE", "PREAMBLE", "SOF"} /\ (st # "IDLE" => st = state)
  BY DEF Hunt, Reset
<1>2. /\ stream' \in Seq(Byte)
      /\ Len(stream) \in Nat
      /\ Len(stream') = Len(stream) + 1
      /\ gaps' \subseteq 1..Len(stream')
  BY <1>0, StreamType
<1>3. frame' = frame /\ accepted' = accepted
  BY DEF Hunt
<1>4. index' = 0
  <2>1. index' = IF st = "IDLE" THEN 0 ELSE index
    BY DEF Hunt
  <2>2. st # "IDLE" => index = 0
    BY <1>0, <1>1 DEF FillBound
  <2> QED
    BY <2>1, <2>2
<1>5. crc' \in Byte
  <2>1. 0 \in Byte
    BY Format DEF Byte
  <2> QED
    BY <1>0, <2>1 DEF Hunt, CrcBefore, TypeOK
<1>6. start' \in 0..Len(stream')
  <2>1. start \in 0..Len(stream)
    BY <1>0 DEF TypeOK
  <2>2. start' \in {Len(stream) + 1, start}
    BY DEF Hunt
  <2> QED
    BY <1>2, <2>1, <2>2
<1>7. /\ state' \in {"IDLE", "PREAMBLE", "SOF", "FRAME"}
      /\ pre' \in 0..PREAMBLE_SIZE
      /\ state' = "PREAMBLE" => pre' < PREAMBLE_SIZE
  <2>1. pre \in 0..PREAMBLE_SIZE /\ (state = "PREAMBLE" => pre < PREAMBLE_SIZE)
    BY <1>0 DEF TypeOK
  <2>2. CASE st = "SOF"
    BY <2>1, <2>2 DEF Hunt
  <2>3. CASE st = "IDLE"
    BY <2>1, <2>3, Format DEF Hunt
  <2>4. CASE st = "PREAMBLE"
    BY <1>1, <2>1, <2>4, Format DEF Hunt
  <2> QED
    BY <1>1, <2>2, <2>3, <2>4
<1>8. len' = len /\ len \in Nat
  BY <1>0, <1>3, LenType DEF len
<1>9. TypeOK'
  BY <1>0, <1>2, <1>3, <1>4, <1>5, <1>6, <1>7, Format DEF TypeOK
<1>10. FillBound'
  BY <1>4, <1>8, Format DEF FillBound
<1> QED
  BY <1>9, <1>10 DEF RxInv

(* A byte of a frame keeps the invariant: it is stored below the end of the*)
(* buffer, and the frame ends there at the latest.                         *)
LEMMA CollectInv ==
    ASSUME RxInv, NEW b \in Byte, NEW gap \in BOOLEAN,
           stream' = Append(stream, b),
           gaps' = IF gap THEN gaps \cup {Len(stream) + 1} ELSE gaps,
           state = "FRAME",
           Collect(b)
    PROVE  RxInv'
<1>0. TypeOK /\ FillBound
  BY DEF RxInv
<1>1. /\ stream' \in Seq(Byte)
      /\ Len(stream) \in Nat
      /\ Len(stream') = Len(stream) + 1
      /\ gaps' \subseteq 1..Len(stream')
  BY <1>0, StreamType
<1>2. start' = start /\ start \in 0..Len(stream) /\ pre' = pre
  BY <1>0 DEF Collect, TypeOK
<1>3. index \in Nat /\ index < HDR_SIZE + PAYLOAD_MAX /\ index' = index + 1
  BY <1>0, Format DEF Collect, TypeOK
<1>4. frame' = [frame EXCEPT ![index + 1] = b] /\ frame \in [Cell -> Byte]
  BY <1>0 DEF Collect, TypeOK
<1>5. frame' \in [Cell -> Byte]
  BY <1>4
<1>6. crc' \in Byte
  <2>1. crc \in Byte /\ CrcStep(crc, b) \in Byte
    BY <1>0, FrameConstants DEF TypeOK
  <2> QED
    BY <2>1 DEF Collect
<1>7. /\ len \in Nat
      /\ len' \in Nat
      /\ index + 1 # 2 => len' = len
  <2>1. 2 \in Cell
    BY Format DEF Cell
  <2>2. frame'[2] \in Byte /\ (index + 1 # 2 => frame'[2] = frame[2])
    BY <1>4, <1>5, <2>1
  <2> QED
    BY <1>0, <2>2, LenType, Format DEF len, Byte
<1>8. accepted' \subseteq [from : Nat, to : Nat]
  <2>1. accepted \subseteq [from : Nat, to : Nat]
    BY <1>0 DEF TypeOK
  <2>2. [from |-> start, to |-> Len(stream) + 1] \in [from : Nat, to : Nat]
    BY <1>1, <1>2
  <2>3. \/ accepted' = accepted
        \/ accepted' = accepted \cup {[from |-> start, to |-> Len(stream) + 1]}
    BY DEF Collect
  <2> QED
    BY <2>1, <2>2, <2>3, Zenon
<1>9. state' \in {"IDLE", "FRAME"}
  BY DEF Collect
<1>10. state' = "FRAME" => /\ index + 1 # len' + HDR_SIZE
                           /\ index + 1 = 4 => ~(len' > PAYLOAD_MAX)
  BY DEF Collect, LengthBad
<1>11. index < len + HDR_SIZE /\ (index >= 4 => len <= PAYLOAD_MAX)
  BY <1>0 DEF FillBound
<1>12. state' = "FRAME" => index' < len' + HDR_SIZE
  <2> DEFINE n == len'
  <2>1. n \in Nat /\ (index + 1 # 2 => n = len)
    BY <1>7
  <2>2. state' = "FRAME" => index + 1 # n + HDR_SIZE
    BY <1>10
  <2> HIDE DEF n
  <2>3. index + 1 = 2 => index' < n + HDR_SIZE
    BY <1>3, <2>1, Format
  <2>4. state' = "FRAME" /\ index + 1 # 2 => index' < n + HDR_SIZE
    BY <1>3, <1>7, <1>11, <2>1, <2>2, Format
  <2>5. state' = "FRAME" => index' < n + HDR_SIZE
    BY <2>3, <2>4
  <2> QED
    BY <2>5 DEF n
<1>13. state' = "FRAME" /\ index' >= 4 => len' <= PAYLOAD_MAX
  BY <1>3, <1>7, <1>10, <1>11, Format
<1>14. state' = "FRAME" => index' < HDR_SIZE + PAYLOAD_MAX
  <2> DEFINE n == len'
  <2>1. /\ n \in Nat
        /\ state' = "FRAME" => index' < n + HDR_SIZE
        /\ state' = "FRAME" /\ index' >= 4 => n <= PAYLOAD_MAX
    BY <1>7, <1>12, <1>13
  <2> HIDE DEF n
  <2> QED
    BY <1>3, <2>1, Format
<1>15. TypeOK'
  BY <1>0, <1>1, <1>2, <1>3, <1>5, <1>6, <1>8, <1>9, <1>14, Format DEF TypeOK
<1>16. FillBound'
  BY <1>9, <1>12, <1>13 DEF FillBound
<1> QED
  BY <1>15, <1>16 DEF RxInv

LEMMA RxInvCorrect == Spec => []RxInv
<1>1. Init => RxInv
  <2> SUFFICES ASSUME Init PROVE RxInv
    OBVIOUS
  <2>1. frame \in [Cell -> Byte]
    BY FrameConstants DEF Init, Byte
  <2> QED
    BY <2>1, FrameConstants DEF Init, RxInv, TypeOK, FillBound, Byte
<1>2. RxInv /\ [Next]_vars => RxInv'
  <2> SUFFICES ASSUME RxInv, [Next]_vars PROVE RxInv'
    OBVIOUS
  <2>1. CASE UNCHANGED vars
    BY <2>1 DEF vars, RxInv, TypeOK, FillBound, len
  <2>2. ASSUME NEW b \in Byte, NEW gap \in BOOLEAN, Receive(b, gap)
        PROVE  RxInv'
    <3>1. CASE Hunt(Reset(gap), b)
      BY <2>2, <3>1, HuntInv DEF Receive
    <3>2. CASE Reset(gap) = "FRAME" /\ Collect(b)
      <4>1. state = "FRAME"
        BY <3>2 DEF Reset
      <4> QED
        BY <2>2, <3>2, <4>1, CollectInv DEF Receive
    <3> QED
      BY <2>2, <3>1, <3>2 DEF Receive
  <2> QED
    BY <2>1, <2>2 DEF Next
<1> QED
  BY <1>1, <1>2, PTL DEF Spec

(* The receive buffer is never overrun, whatever the bus carries: the index*)
(* stays within a header and the longest payload.                          *)
THEOREM TypeCorrect == Spec => []TypeOK
<1>1. RxInv => TypeOK
  BY DEF RxInv
<1> QED
  BY <1>1, RxInvCorrect, PTL

-----------------------------------------------------------------------------
(* The CRC and the frames of a stream.                                     *)

(* The recursive function behind CrcOf: c carries the CRC on along s.      *)
CrcChain(c, s, n) == c = [i \in 0..n |-> IF i = 0 THEN 0 ELSE CrcStep(c[i-1], s[i])]

(* It exists.                                                              *)
LEMMA CrcExists ==
    ASSUME NEW s, NEW n \in Nat
    PROVE  \E c : CrcChain(c, s, n)
<1> DEFINE T == {k \in Nat : ~ \E c : CrcChain(c, s, k)}
<1> SUFFICES ASSUME T # {} PROVE FALSE
  OBVIOUS
<1>1. PICK k \in T : \A m \in T : k =< m
  BY LeastNumber, T \subseteq Nat, Zenon
<1>2. k \in Nat /\ ~ \E c : CrcChain(c, s, k)
  OBVIOUS
<1>3. CASE k = 0
  <2> DEFINE c == [i \in 0..0 |-> 0]
  <2>1. c = [i \in 0..0 |-> IF i = 0 THEN 0 ELSE CrcStep(c[i-1], s[i])]
    OBVIOUS
  <2> QED BY <1>2, <1>3, <2>1, Zenon DEF CrcChain
<1>4. CASE k # 0
  <2>1. k - 1 \in Nat /\ k - 1 \notin T
    BY <1>1, <1>2, <1>4
  <2>2. PICK c : CrcChain(c, s, k - 1)
    BY <2>1
  <2> DEFINE d == [i \in 0..k |-> IF i = k THEN CrcStep(c[k-1], s[k]) ELSE c[i]]
  <2>3. c = [i \in 0..k-1 |-> IF i = 0 THEN 0 ELSE CrcStep(c[i-1], s[i])]
    BY <2>2 DEF CrcChain
  <2>4. \A i \in 0..k : d[i] = IF i = 0 THEN 0 ELSE CrcStep(d[i-1], s[i])
    <3> SUFFICES ASSUME NEW i \in 0..k
                 PROVE  d[i] = IF i = 0 THEN 0 ELSE CrcStep(d[i-1], s[i])
      OBVIOUS
    <3>1. CASE i = 0
      BY <1>2, <1>4, <2>3, <3>1
    <3>2. CASE i # 0 /\ i # k
      <4>1. i \in 0..k-1 /\ i - 1 \in 0..k /\ i - 1 # k
        BY <1>2, <3>2
      <4>2. d[i] = c[i] /\ d[i-1] = c[i-1]
        BY <3>2, <4>1
      <4>3. c[i] = CrcStep(c[i-1], s[i])
        BY <2>3, <3>2, <4>1
      <4> QED BY <3>2, <4>2, <4>3
    <3>3. CASE i # 0 /\ i = k
      <4>1. k - 1 \in 0..k /\ k - 1 # k /\ k \in 0..k
        BY <1>2, <1>4
      <4>2. d[k] = CrcStep(c[k-1], s[k]) /\ d[k-1] = c[k-1]
        BY <4>1
      <4> QED BY <3>3, <4>2
    <3> QED BY <3>1, <3>2, <3>3
  <2>5. d = [i \in 0..k |-> IF i = 0 THEN 0 ELSE CrcStep(d[i-1], s[i])]
    <3>1. d = [i \in 0..k |-> d[i]]
      OBVIOUS
    <3> HIDE DEF d
    <3> QED BY <2>4, <3>1
  <2> QED BY <1>2, <2>5, Zenon DEF CrcChain
<1> QED BY <1>3, <1>4

(* Every element of it is a CRC.                                           *)
LEMMA CrcChainType ==
    ASSUME NEW s \in Seq(Byte), NEW c, CrcChain(c, s, Len(s))
    PROVE  /\ c[0] = 0
           /\ \A i \in 1..Len(s) : c[i] = CrcStep(c[i-1], s[i])
           /\ \A i \in 0..Len(s) : c[i] \in Byte
<1>0. Len(s) \in Nat /\ \A i \in 1..Len(s) : s[i] \in Byte
  OBVIOUS
<1>1. \A i \in 0..Len(s) : c[i] = IF i = 0 THEN 0 ELSE CrcStep(c[i-1], s[i])
  BY DEF CrcChain
<1>2. c[0] = 0 /\ \A i \in 1..Len(s) : c[i] = CrcStep(c[i-1], s[i])
  BY <1>0, <1>1
<1> DEFINE T == {k \in Nat : k =< Len(s) /\ c[k] \notin Byte}
<1>3. T = {}
  <2> SUFFICES ASSUME T # {} PROVE FALSE
    OBVIOUS
  <2>1. PICK k \in T : \A m \in T : k =< m
    BY LeastNumber, T \subseteq Nat, Zenon
  <2>2. k # 0
    BY <1>2, Format DEF Byte
  <2>3. k - 1 \in Nat /\ k - 1 \notin T /\ k \in 1..Len(s)
    BY <1>0, <2>1, <2>2
  <2>4. c[k-1] \in Byte
    BY <1>0, <2>3
  <2>5. CrcStep(c[k-1], s[k]) \in Byte
    BY <1>0, <2>3, <2>4, FrameConstants
  <2> QED BY <1>2, <2>3, <2>5
<1>4. \A i \in 0..Len(s) : i \in Nat /\ i =< Len(s)
  BY <1>0
<1> QED BY <1>2, <1>3, <1>4

(* The CRC of a sequence is the last element of a chain.                   *)
LEMMA CrcValue ==
    ASSUME NEW s \in Seq(Byte)
    PROVE  \E c : CrcChain(c, s, Len(s)) /\ CrcOf(s) = c[Len(s)]
<1>1. Len(s) \in Nat
  OBVIOUS
<1> DEFINE c == CHOOSE c : c = [i \in 0..Len(s) |-> IF i = 0 THEN 0 ELSE CrcStep(c[i-1], s[i])]
<1>2. CrcOf(s) = c[Len(s)]
  BY DEF CrcOf
<1>3. \E d : d = [i \in 0..Len(s) |-> IF i = 0 THEN 0 ELSE CrcStep(d[i-1], s[i])]
  BY <1>1, CrcExists, Zenon DEF CrcChain
<1>4. c = [i \in 0..Len(s) |-> IF i = 0 THEN 0 ELSE CrcStep(c[i-1], s[i])]
  BY <1>3, Zenon
<1> QED BY <1>2, <1>4, Zenon DEF CrcChain

(* No byte, no CRC; and one more byte takes it one step further, as        *)
(* svsBdpRx computes it byte by byte.                                      *)
LEMMA CrcProperties ==
    /\ CrcOf(<<>>) = 0
    /\ \A s \in Seq(Byte) : CrcOf(s) \in Byte
    /\ \A s \in Seq(Byte) : \A b \in Byte : CrcOf(Append(s, b)) = CrcStep(CrcOf(s), b)
<1>1. CrcOf(<<>>) = 0
  <2>0. <<>> \in Seq(Byte) /\ Len(<<>>) = 0
    OBVIOUS
  <2>1. PICK c : CrcChain(c, <<>>, Len(<<>>)) /\ CrcOf(<<>>) = c[Len(<<>>)]
    BY <2>0, CrcValue
  <2>2. c[0] = 0
    BY <2>0, <2>1, CrcChainType
  <2> QED BY <2>0, <2>1, <2>2
<1>2. ASSUME NEW s \in Seq(Byte) PROVE CrcOf(s) \in Byte
  <2>1. PICK c : CrcChain(c, s, Len(s)) /\ CrcOf(s) = c[Len(s)]
    BY CrcValue
  <2>2. \A i \in 0..Len(s) : c[i] \in Byte
    BY <2>1, CrcChainType
  <2>3. Len(s) \in 0..Len(s)
    OBVIOUS
  <2> QED BY <2>1, <2>2, <2>3
<1>3. ASSUME NEW s \in Seq(Byte), NEW b \in Byte
      PROVE  CrcOf(Append(s, b)) = CrcStep(CrcOf(s), b)
  <2> DEFINE t == Append(s, b)
             n == Len(s)
  <2>1. /\ t \in Seq(Byte)
        /\ n \in Nat
        /\ Len(t) = n + 1
        /\ \A i \in 1..n : t[i] = s[i]
        /\ t[n + 1] = b
    BY AppendProperties
  <2> HIDE DEF t
  <2>2. PICK c : CrcChain(c, s, Len(s)) /\ CrcOf(s) = c[n]
    BY CrcValue
  <2>3. PICK d : CrcChain(d, t, Len(t)) /\ CrcOf(t) = d[Len(t)]
    BY <2>1, CrcValue
  <2>4. c[0] = 0 /\ \A i \in 1..n : c[i] = CrcStep(c[i-1], s[i])
    BY <2>2, CrcChainType
  <2>5. d[0] = 0 /\ \A i \in 1..n + 1 : d[i] = CrcStep(d[i-1], t[i])
    BY <2>1, <2>3, CrcChainType
  <2> HIDE DEF n
  <2> DEFINE T == {k \in Nat : k =< n /\ c[k] # d[k]}
  <2>6. T = {}
    <3> SUFFICES ASSUME T # {} PROVE FALSE
      OBVIOUS
    <3>1. PICK k \in T : \A m \in T : k =< m
      BY LeastNumber, T \subseteq Nat, Zenon
    <3>2. k # 0
      BY <2>4, <2>5
    <3>3. k - 1 \in Nat /\ k - 1 \notin T /\ k \in 1..n /\ k \in 1..n + 1
      BY <2>1, <3>1, <3>2
    <3>4. c[k-1] = d[k-1]
      BY <2>1, <3>3
    <3>5. c[k] = CrcStep(c[k-1], s[k]) /\ d[k] = CrcStep(d[k-1], t[k]) /\ t[k] = s[k]
      BY <2>1, <2>4, <2>5, <3>3
    <3> QED BY <3>4, <3>5
  <2>7. c[n] = d[n]
    BY <2>1, <2>6
  <2>8. d[n + 1] = CrcStep(d[n], b)
    <3>1. n + 1 \in 1..n + 1 /\ (n + 1) - 1 = n
      BY <2>1
    <3> QED BY <2>1, <2>5, <3>1
  <2>9. CrcOf(t) = CrcStep(CrcOf(s), b)
    BY <2>1, <2>2, <2>3, <2>7, <2>8
  <2> QED BY <2>9 DEF t
<1> QED BY <1>1, <1>2, <1>3

(* What WellFormed says of the bytes from i to j of a stream, without the  *)
(* copy of them.                                                           *)
FrameAt(st, i, j) ==
    LET n == i + PREAMBLE_SIZE
    IN  /\ \A m \in i..n-1 : st[m] = PREAMBLE
        /\ st[n] = SOF
        /\ st[n+2] = Invert(st[n+3])
        /\ st[n+2] =< PAYLOAD_MAX
        /\ j = n + HDR_SIZE + st[n+2]
        /\ st[n+1] = CrcOf(SubSeq(st, n+2, j))

(* A frame has at least a header; and the positions of FrameAt say the     *)
(* same of the stream as WellFormed of its part.                           *)
LEMMA FrameAtLong ==
    ASSUME NEW st \in Seq(Byte), NEW i \in Nat, i >= 1,
           NEW j \in Nat, j =< Len(st), i + PREAMBLE_SIZE + 2 =< Len(st), FrameAt(st, i, j)
    PROVE  i + PREAMBLE_SIZE + HDR_SIZE =< j
<1> DEFINE k == i + PREAMBLE_SIZE + 2
<1>1. k \in 1..Len(st) /\ j = i + PREAMBLE_SIZE + HDR_SIZE + st[k]
  BY Format DEF FrameAt
<1>2. st[k] \in Byte
  BY <1>1, ElementOfSeq
<1> HIDE DEF k
<1>3. st[k] \in Nat
  BY <1>2, Format DEF Byte
<1> QED BY <1>1, <1>3, Format

LEMMA WellFormedAt ==
    ASSUME NEW st \in Seq(Byte), NEW i \in Nat, i >= 1,
           NEW j \in Nat, j =< Len(st), i + PREAMBLE_SIZE + HDR_SIZE =< j
    PROVE  WellFormed(SubSeq(st, i, j)) <=> FrameAt(st, i, j)
<1> DEFINE s == SubSeq(st, i, j)
           P == PREAMBLE_SIZE
           f == SubSeq(s, P + 2, Len(s))
           n == i + P
<1>0. P \in Nat /\ P > 0 /\ HDR_SIZE \in Nat /\ HDR_SIZE > 4
  BY Format
<1>1. s \in Seq(Byte) /\ Len(s) = j - i + 1 /\ \A k \in 1..j - i + 1 : s[k] = st[i + k - 1]
  <2>1. i =< j + 1
    BY <1>0
  <2> QED BY <2>1, PartOfSeq
<1>2. f = SubSeq(st, n + 1, j)
  <2>1. P + 2 \in Nat /\ P + 2 >= 1 /\ P + 2 =< j - i + 2 /\ i =< j + 1 /\ i + (P + 2) - 1 = n + 1
    BY <1>0
  <2>2. SubSeq(SubSeq(st, i, j), P + 2, j - i + 1) = SubSeq(st, i + (P + 2) - 1, j)
    <3> HIDE DEF P
    <3> DEFINE q == P + 2
    <3>1. q \in Nat /\ q >= 1 /\ q =< j - i + 2 /\ i =< j + 1
      BY <2>1
    <3> HIDE DEF q
    <3>2. SubSeq(SubSeq(st, i, j), q, j - i + 1) = SubSeq(st, i + q - 1, j)
      BY <3>1, PartOfPart
    <3> QED BY <3>2 DEF q
  <2>3. f = SubSeq(SubSeq(st, i, j), P + 2, j - i + 1)
    BY <1>1
  <2> HIDE DEF f, P, n
  <2> QED BY <2>1, <2>2, <2>3
<1> HIDE DEF f
<1>3. n \in Nat /\ n + HDR_SIZE =< j /\ n >= 2
  BY <1>0
<1>4. /\ f \in Seq(Byte)
      /\ Len(f) = j - n
      /\ \A k \in 1..j - n : f[k] = st[n + k]
  <2> HIDE DEF n
  <2> DEFINE q == n + 1
  <2>1. q \in Nat /\ q >= 1 /\ q =< j + 1 /\ f = SubSeq(st, q, j)
    BY <1>0, <1>2, <1>3
  <2>2. j - q + 1 = j - n /\ \A k \in Nat : q + k - 1 = n + k
    BY <1>3
  <2> HIDE DEF q
  <2>3. f \in Seq(Byte) /\ Len(f) = j - q + 1 /\ \A k \in 1..j - q + 1 : f[k] = st[q + k - 1]
    BY <2>1, PartOfSeq
  <2> QED BY <2>2, <2>3
<1>5. Tail(f) = SubSeq(st, n + 2, j)
  <2> HIDE DEF n
  <2> DEFINE q == n + 1
  <2>1. q \in Nat /\ q >= 1 /\ q =< j + 1 /\ f = SubSeq(st, q, j) /\ Len(f) = j - q + 1
    BY <1>0, <1>2, <1>3, <1>4
  <2>2. Tail(f) = SubSeq(f, 2, Len(f))
    BY <1>4, TailIsSubSeq
  <2>3. q + 2 - 1 = n + 2 /\ 2 =< j - q + 2
    BY <1>0, <1>3
  <2> HIDE DEF q
  <2>4. SubSeq(SubSeq(st, q, j), 2, j - q + 1) = SubSeq(st, q + 2 - 1, j)
    BY <2>1, <2>3, PartOfPart
  <2> QED BY <2>1, <2>2, <2>3, <2>4
<1>6. f[1] = st[n + 1] /\ f[2] = st[n + 2] /\ f[3] = st[n + 3]
  <2>1. 1 \in 1..j - n /\ 2 \in 1..j - n /\ 3 \in 1..j - n
    BY <1>0, <1>3
  <2> HIDE DEF n
  <2> QED BY <1>4, <2>1
<1>7. s[P + 1] = st[n]
  <2>1. P + 1 \in 1..j - i + 1 /\ i + (P + 1) - 1 = n
    BY <1>0
  <2> HIDE DEF n, s, P
  <2> QED BY <1>1, <2>1
<1>8. (\A k \in 1..P : s[k] = PREAMBLE) <=> (\A m \in i..n - 1 : st[m] = PREAMBLE)
  <2>1. ASSUME \A k \in 1..P : s[k] = PREAMBLE, NEW m \in i..n - 1
        PROVE  st[m] = PREAMBLE
    <3>1. m - i + 1 \in 1..P /\ m - i + 1 \in 1..j - i + 1 /\ i + (m - i + 1) - 1 = m
      BY <1>0
    <3> HIDE DEF n, s, P
    <3> QED BY <1>1, <2>1, <3>1
  <2>2. ASSUME \A m \in i..n - 1 : st[m] = PREAMBLE, NEW k \in 1..P
        PROVE  s[k] = PREAMBLE
    <3>1. i + k - 1 \in i..n - 1 /\ k \in 1..j - i + 1
      BY <1>0
    <3> HIDE DEF n, s, P
    <3> QED BY <1>1, <2>2, <3>1
  <2> QED BY <2>1, <2>2
<1>9. (Len(f) = HDR_SIZE + f[2]) <=> (j = n + HDR_SIZE + st[n+2])
  <2>1. st[n+2] \in Byte
    <3>1. n + 2 \in 1..Len(st)
      BY <1>0, <1>3
    <3> HIDE DEF n
    <3> QED BY <3>1, ElementOfSeq
  <2>2. st[n+2] \in Nat
    BY <2>1, Format DEF Byte
  <2> DEFINE v == st[n+2]
             l == Len(f)
  <2>3. l = j - n /\ f[2] = v /\ v \in Nat /\ l \in Int
    BY <1>3, <1>4, <1>6, <2>2
  <2> HIDE DEF n, v, l
  <2>4. (l = HDR_SIZE + v) <=> (j = n + HDR_SIZE + v)
    BY <1>0, <1>3, <2>3
  <2>5. (l = HDR_SIZE + f[2]) <=> (j = n + HDR_SIZE + v)
    BY <2>3, <2>4
  <2> QED BY <2>5 DEF v, l
<1>10. Len(f) >= HDR_SIZE
  <2> HIDE DEF n
  <2> QED BY <1>0, <1>3, <1>4
<1>11. WellFormed(s) <=>
         /\ \A k \in 1..P : s[k] = PREAMBLE
         /\ s[P + 1] = SOF
         /\ f[2] = Invert(f[3])
         /\ f[2] =< PAYLOAD_MAX
         /\ Len(f) = HDR_SIZE + f[2]
         /\ f[1] = CrcOf(Tail(f))
  <2>1. f = SubSeq(s, (P + 1) + 1, Len(s))
    BY <1>0 DEF f
  <2> HIDE DEF s
  <2> QED BY <1>10, <2>1 DEF WellFormed
<1>12. FrameAt(st, i, j) <=>
         /\ \A m \in i..n - 1 : st[m] = PREAMBLE
         /\ st[n] = SOF
         /\ st[n+2] = Invert(st[n+3])
         /\ st[n+2] =< PAYLOAD_MAX
         /\ j = n + HDR_SIZE + st[n+2]
         /\ st[n+1] = CrcOf(SubSeq(st, n+2, j))
  BY DEF FrameAt
<1> HIDE DEF n, P, s
<1>13. WellFormed(s) <=> FrameAt(st, i, j)
  BY <1>5, <1>6, <1>7, <1>8, <1>9, <1>11, <1>12, Zenon
<1> QED BY <1>13 DEF s

(* A frame is longer than its header, whatever its bytes.                  *)
LEMMA WellFormedLong ==
    ASSUME NEW st \in Seq(Byte), NEW i \in Nat, i >= 1,
           NEW j \in Nat, j =< Len(st), i =< j + 1, WellFormed(SubSeq(st, i, j))
    PROVE  i + PREAMBLE_SIZE + HDR_SIZE =< j
<1> DEFINE s == SubSeq(st, i, j)
           P == PREAMBLE_SIZE
           f == SubSeq(s, P + 1 + 1, Len(s))
<1>0. P \in Nat /\ P > 0 /\ HDR_SIZE \in Nat /\ HDR_SIZE > 4
  BY Format
<1>1. s \in Seq(Byte) /\ Len(s) = j - i + 1
  BY PartOfSeq
<1>2. Len(f) >= HDR_SIZE
  BY DEF WellFormed
<1> HIDE DEF s
<1>3. Len(f) = IF P + 2 =< Len(s) THEN Len(s) - (P + 2) + 1 ELSE 0
  <2> DEFINE a == P + 2
             z == Len(s)
  <2>0. a \in Int /\ z \in Int /\ a >= 1 /\ \A k \in a..z : s[k] \in Byte
    BY <1>0, <1>1
  <2> HIDE DEF a, z
  <2>1. Len(SubSeq(s, a, z)) = IF a <= z THEN z - a + 1 ELSE 0
    BY <2>0, SubSeqProperties
  <2>2. f = SubSeq(s, a, z)
    BY <1>0 DEF a, z
  <2> HIDE DEF f
  <2> QED BY <2>1, <2>2 DEF a, z
<1> HIDE DEF f
<1> QED BY <1>0, <1>1, <1>2, <1>3

(* A frame stays one when the stream goes on.                              *)
LEMMA FrameKept ==
    ASSUME NEW st \in Seq(Byte), NEW b \in Byte, NEW i \in Nat, i >= 1,
           NEW j \in Nat, j =< Len(st), i + PREAMBLE_SIZE + HDR_SIZE =< j
    PROVE  FrameAt(Append(st, b), i, j) <=> FrameAt(st, i, j)
<1> DEFINE n == i + PREAMBLE_SIZE
           t == Append(st, b)
<1>1. n \in Nat /\ n >= 2 /\ n + 4 =< j /\ n + 2 \in Nat /\ n + 2 >= 1 /\ n + 2 =< j + 1
  BY Format
<1>2. SubSeq(t, n + 2, j) = SubSeq(st, n + 2, j)
  <2> HIDE DEF n
  <2> DEFINE q == n + 2
  <2>1. q \in Nat /\ q >= 1 /\ q =< j + 1
    BY <1>1
  <2> HIDE DEF q
  <2>2. SubSeq(t, q, j) = SubSeq(st, q, j)
    BY <2>1, PartKept
  <2> QED BY <2>2 DEF q
<1>3. \A k \in 1..Len(st) : t[k] = st[k]
  BY AppendProperties
<1> HIDE DEF t
<1>4. Len(st) \in Nat
  OBVIOUS
<1>5. /\ t[n] = st[n] /\ t[n+1] = st[n+1] /\ t[n+2] = st[n+2] /\ t[n+3] = st[n+3]
      /\ \A m \in i..n-1 : t[m] = st[m]
  <2> HIDE DEF n
  <2>1. n =< Len(st) /\ n + 1 =< Len(st) /\ n + 2 =< Len(st) /\ n + 3 =< Len(st)
    BY <1>1, <1>4
  <2>2. n \in 1..Len(st) /\ n + 1 \in 1..Len(st) /\ n + 2 \in 1..Len(st) /\ n + 3 \in 1..Len(st)
    BY <1>1, <1>4, <2>1
  <2>3. \A m \in i..n-1 : m \in 1..Len(st)
    BY <1>1, <1>4, <2>1
  <2> QED BY <1>3, <2>2, <2>3
<1>6. \A u : FrameAt(u, i, j) <=>
         /\ \A m \in i..n - 1 : u[m] = PREAMBLE
         /\ u[n] = SOF
         /\ u[n+2] = Invert(u[n+3])
         /\ u[n+2] =< PAYLOAD_MAX
         /\ j = n + HDR_SIZE + u[n+2]
         /\ u[n+1] = CrcOf(SubSeq(u, n+2, j))
  BY DEF FrameAt
<1> HIDE DEF n
<1>7. FrameAt(t, i, j) <=> FrameAt(st, i, j)
  BY <1>2, <1>5, <1>6, Zenon
<1> QED BY <1>7 DEF t

-----------------------------------------------------------------------------
(* The invariant behind Sound and Complete.                                *)

(* The bytes of the preamble since start are there, and no silence fell    *)
(* among the bytes since.                                                  *)
Preambled ==
    /\ start >= 1
    /\ gaps \cap (start + 1)..Len(stream) = {}
    /\ \A m \in start..Len(stream) :
          m < start + PREAMBLE_SIZE => stream[m] = PREAMBLE

(* The buffer and the CRC are those of the bytes behind the SOF.           *)
Framed ==
    /\ Len(stream) = start + PREAMBLE_SIZE + index
    /\ stream[start + PREAMBLE_SIZE] = SOF
    /\ \A m \in 1..index : frame[m] = stream[start + PREAMBLE_SIZE + m]
    /\ crc = CrcOf(SubSeq(stream, start + PREAMBLE_SIZE + 2, Len(stream)))

(* Where the machine is in the bytes since start.                          *)
Content ==
    /\ state # "IDLE" => Preambled
    /\ state \in {"PREAMBLE", "SOF"} =>
          pre >= 1 /\ Len(stream) = start + pre - 1 /\ crc = 0
    /\ state = "SOF" => pre = PREAMBLE_SIZE
    /\ state = "FRAME" => Framed /\ (index >= 4 => ~LengthBad)

Past == \A a \in accepted : a.from >= 1 /\ a.from =< a.to /\ a.to =< Len(stream)

(* Sound and Complete, of the stream itself.                               *)
SoundAt ==
    \A a \in accepted : /\ FrameAt(stream, a.from, a.to)
                        /\ a.from + PREAMBLE_SIZE + HDR_SIZE =< a.to
                        /\ gaps \cap (a.from + 1)..a.to = {}

CompleteAt ==
    \A i \in Fresh : \A j \in i..Len(stream) :
        (/\ i + PREAMBLE_SIZE + HDR_SIZE =< j
         /\ FrameAt(stream, i, j)
         /\ gaps \cap (i + 1)..j = {}) => [from |-> i, to |-> j] \in accepted

(* The bytes from i on are the beginning of a frame.                       *)
Begun(i) ==
    LET n == i + PREAMBLE_SIZE
    IN  /\ \A m \in i..Len(stream) : m < n => stream[m] = PREAMBLE
        /\ n =< Len(stream) => stream[n] = SOF
        /\ n + 4 =< Len(stream) => /\ stream[n+2] = Invert(stream[n+3])
                                   /\ stream[n+2] =< PAYLOAD_MAX
                                   /\ Len(stream) < n + HDR_SIZE + stream[n+2]

(* What a frame that began at i is waiting for.                            *)
Waiting(i) ==
    IF i + PREAMBLE_SIZE > Len(stream) + 1 THEN "PREAMBLE"
    ELSE IF i + PREAMBLE_SIZE = Len(stream) + 1 THEN "SOF" ELSE "FRAME"

(* A frame that begins at a fresh position is the one being received.      *)
Tracked ==
    \A i \in Fresh : Begun(i) /\ gaps \cap (i + 1)..Len(stream) = {} =>
        /\ i = Len(stream) + 1 => state = "IDLE"
        /\ i =< Len(stream) => start = i /\ state = Waiting(i)

FoundInv == RxInv /\ Content /\ Past /\ SoundAt /\ Tracked /\ CompleteAt

(* One more byte in the stream, and perhaps a silence before it.           *)
Grows(b, gap) ==
    /\ stream' = Append(stream, b)
    /\ gaps' = IF gap THEN gaps \cup {Len(stream) + 1} ELSE gaps

(* The stream with one more byte.                                          *)
LEMMA GrowsProperties ==
    ASSUME TypeOK, NEW b \in Byte, NEW gap \in BOOLEAN, Grows(b, gap)
    PROVE  /\ stream \in Seq(Byte) /\ stream' \in Seq(Byte)
           /\ Len(stream) \in Nat
           /\ Len(stream') = Len(stream) + 1
           /\ \A k \in 1..Len(stream) : stream'[k] = stream[k]
           /\ stream'[Len(stream) + 1] = b
           /\ gaps \subseteq 1..Len(stream)
           /\ ~gap => gaps' = gaps
           /\ gap => gaps' = gaps \cup {Len(stream) + 1}
           /\ gaps \subseteq gaps'
           /\ \A k \in 1..Len(stream) : stream[k] \in Byte
<1>1. stream \in Seq(Byte) /\ gaps \subseteq 1..Len(stream)
  BY DEF TypeOK
<1>2. stream' = Append(stream, b)
  BY DEF Grows
<1>3. /\ stream' \in Seq(Byte)
      /\ Len(stream') = Len(stream) + 1
      /\ \A k \in 1..Len(stream) : stream'[k] = stream[k]
      /\ stream'[Len(stream) + 1] = b
  BY <1>1, <1>2, AppendProperties
<1>4. Len(stream) \in Nat /\ \A k \in 1..Len(stream) : stream[k] \in Byte
  BY <1>1
<1> QED BY <1>1, <1>3, <1>4 DEF Grows

(* The bytes since start are still those of a preamble when another byte of*)
(* the frame comes.                                                        *)
LEMMA PreambledGrows ==
    ASSUME TypeOK, NEW b \in Byte, Grows(b, FALSE), start' = start, Preambled,
           Len(stream) + 1 < start + PREAMBLE_SIZE => b = PREAMBLE
    PROVE  Preambled'
<1>1. /\ Len(stream) \in Nat
      /\ Len(stream') = Len(stream) + 1
      /\ \A k \in 1..Len(stream) : stream'[k] = stream[k]
      /\ stream'[Len(stream) + 1] = b
      /\ gaps \subseteq 1..Len(stream)
      /\ gaps' = gaps
  BY GrowsProperties
<1>2. start \in Nat
  BY DEF TypeOK
<1>3. start >= 1 /\ gaps \cap (start + 1)..Len(stream) = {}
  BY DEF Preambled
<1>4. gaps' \cap (start' + 1)..Len(stream') = {}
  BY <1>1, <1>2, <1>3
<1>5. ASSUME NEW m \in start..Len(stream) + 1, m < start + PREAMBLE_SIZE
      PROVE  stream'[m] = PREAMBLE
  <2>1. CASE m = Len(stream) + 1
    BY <1>1, <1>5, <2>1
  <2>2. CASE m # Len(stream) + 1
    <3>1. m \in 1..Len(stream) /\ m \in start..Len(stream)
      BY <1>1, <1>2, <1>3, <2>2
    <3> QED BY <1>1, <1>5, <3>1 DEF Preambled
  <2> QED BY <2>1, <2>2
<1>6. \A m \in start'..Len(stream') : m < start' + PREAMBLE_SIZE => stream'[m] = PREAMBLE
  BY <1>1, <1>5
<1> QED BY <1>3, <1>4, <1>6 DEF Preambled

(* Outside a frame, a byte continues the preamble, ends it or resets the   *)
(* machine.                                                                *)
LEMMA HuntContent ==
    ASSUME RxInv, Content, NEW b \in Byte, NEW gap \in BOOLEAN, Grows(b, gap),
           Hunt(Reset(gap), b)
    PROVE  Content'
<1> DEFINE st == Reset(gap)
           L == Len(stream)
<1>0. TypeOK /\ FillBound
  BY DEF RxInv
<1>1. /\ L \in Nat
      /\ Len(stream') = L + 1
      /\ stream' \in Seq(Byte)
      /\ \A k \in 1..L : stream'[k] = stream[k]
      /\ stream'[L + 1] = b
      /\ gaps \subseteq 1..L
      /\ ~gap => gaps' = gaps
      /\ gap => gaps' = gaps \cup {L + 1}
  BY <1>0, GrowsProperties
<1>2. /\ st \in {"IDLE", "PREAMBLE", "SOF"}
      /\ st # "IDLE" => st = state /\ ~gap
  BY DEF Hunt, Reset
<1>3. PREAMBLE_SIZE \in Nat /\ PREAMBLE_SIZE > 0 /\ HDR_SIZE \in Nat /\ HDR_SIZE > 4
  BY Format
<1>4. pre \in Nat /\ start \in Nat /\ (state = "PREAMBLE" => pre < PREAMBLE_SIZE)
  BY <1>0, <1>3 DEF TypeOK
<1>5. CASE st = "IDLE"
  <2>1. start' = L + 1 /\ crc' = 0
    BY <1>5 DEF Hunt, CrcBefore
  <2>2. b # PREAMBLE => state' = "IDLE"
    BY <1>5 DEF Hunt
  <2>3. b = PREAMBLE => pre' = 1 /\ state' = IF 1 >= PREAMBLE_SIZE THEN "SOF" ELSE "PREAMBLE"
    BY <1>5 DEF Hunt
  <2>4. b = PREAMBLE => Preambled'
    <3>1. gaps' \cap (start' + 1)..Len(stream') = {}
      BY <1>1, <2>1
    <3>2. b = PREAMBLE => \A m \in start'..Len(stream') : stream'[m] = PREAMBLE
      BY <1>1, <2>1
    <3> QED BY <1>1, <2>1, <3>1, <3>2 DEF Preambled
  <2>5. state' \in {"IDLE", "PREAMBLE", "SOF"}
    BY <2>2, <2>3
  <2>6. state' \in {"PREAMBLE", "SOF"} => pre' >= 1 /\ Len(stream') = start' + pre' - 1 /\ crc' = 0
    BY <1>1, <2>1, <2>2, <2>3
  <2>7. state' = "SOF" => pre' = PREAMBLE_SIZE
    BY <1>3, <2>2, <2>3
  <2> QED BY <2>2, <2>4, <2>5, <2>6, <2>7 DEF Content
<1>6. CASE st = "PREAMBLE"
  <2>0. ~gap /\ state = "PREAMBLE"
    BY <1>2, <1>6
  <2>1. start' = start /\ crc' = crc
    BY <1>6 DEF Hunt, CrcBefore
  <2>2. b # PREAMBLE => state' = "IDLE"
    BY <1>6 DEF Hunt
  <2>3. b = PREAMBLE => pre' = pre + 1 /\ state' = IF pre + 1 >= PREAMBLE_SIZE THEN "SOF" ELSE "PREAMBLE"
    BY <1>6 DEF Hunt
  <2>4. Preambled /\ pre >= 1 /\ L = start + pre - 1 /\ crc = 0
    BY <2>0 DEF Content
  <2>5. b = PREAMBLE => Preambled'
    <3>1. Grows(b, FALSE)
      BY <2>0 DEF Grows
    <3> QED BY <1>0, <2>1, <2>4, <3>1, PreambledGrows
  <2>6. state' \in {"IDLE", "PREAMBLE", "SOF"}
    BY <2>2, <2>3
  <2>7. state' \in {"PREAMBLE", "SOF"} => pre' >= 1 /\ Len(stream') = start' + pre' - 1 /\ crc' = 0
    BY <1>1, <1>4, <2>1, <2>2, <2>3, <2>4
  <2>8. state' = "SOF" => pre' = PREAMBLE_SIZE
    BY <1>3, <1>4, <2>0, <2>2, <2>3
  <2> QED BY <2>2, <2>5, <2>6, <2>7, <2>8 DEF Content
<1>7. CASE st = "SOF"
  <2>0. ~gap /\ state = "SOF"
    BY <1>2, <1>7
  <2>1. start' = start /\ crc' = crc /\ index' = index /\ pre' = pre
    BY <1>7 DEF Hunt, CrcBefore
  <2>2. state' = IF b = SOF THEN "FRAME" ELSE "IDLE"
    BY <1>7 DEF Hunt
  <2>3. Preambled /\ pre = PREAMBLE_SIZE /\ L = start + pre - 1 /\ crc = 0
    BY <2>0 DEF Content
  <2>4. Preambled'
    <3>1. Grows(b, FALSE)
      BY <2>0 DEF Grows
    <3>2. ~(L + 1 < start + PREAMBLE_SIZE)
      BY <1>1, <1>3, <1>4, <2>3
    <3> QED BY <1>0, <2>1, <2>3, <3>1, <3>2, PreambledGrows
  <2>5. index = 0
    BY <1>0, <2>0 DEF FillBound
  <2>6. b = SOF => Framed'
    <3> DEFINE q == start + PREAMBLE_SIZE
    <3>1. q \in Nat /\ L + 1 = q
      BY <1>1, <1>3, <1>4, <2>3
    <3>2. SubSeq(stream', q + 2, L + 1) = <<>>
      <4>1. q + 2 \in Int /\ L + 1 \in Int /\ L + 1 < q + 2
        BY <1>1, <3>1
      <4> HIDE DEF q, L
      <4> QED BY <4>1, SubSeqEmpty
    <3>3. crc' = CrcOf(SubSeq(stream', q + 2, L + 1))
      BY <2>1, <2>3, <3>2, CrcProperties, Zenon
    <3>4. crc' = CrcOf(SubSeq(stream', start' + PREAMBLE_SIZE + 2, Len(stream')))
      BY <1>1, <2>1, <3>3, Zenon
    <3>5. b = SOF => stream'[start' + PREAMBLE_SIZE] = SOF
      BY <1>1, <2>1, <3>1
    <3>6. Len(stream') = start' + PREAMBLE_SIZE + index'
      BY <1>1, <2>1, <2>5, <3>1
    <3>7. \A m \in 1..index' : frame'[m] = stream'[start' + PREAMBLE_SIZE + m]
      BY <2>1, <2>5
    <3> HIDE DEF q, L
    <3> QED BY <3>4, <3>5, <3>6, <3>7 DEF Framed
  <2>7. ~(index' >= 4)
    BY <2>1, <2>5
  <2> QED BY <2>2, <2>4, <2>6, <2>7 DEF Content
<1> QED BY <1>2, <1>5, <1>6, <1>7

(* A byte of a frame: the buffer and the CRC stay those of the bytes behind*)
(* the SOF, and behind the fourth cell the length was checked.             *)
LEMMA CollectContent ==
    ASSUME RxInv, Content, NEW b \in Byte, Grows(b, FALSE), state = "FRAME", Collect(b)
    PROVE  Preambled' /\ Framed' /\ (index' >= 5 => ~LengthBad') /\ Content'
<1> DEFINE L == Len(stream)
           n == start + PREAMBLE_SIZE
<1>0. TypeOK /\ FillBound
  BY DEF RxInv
<1>1. /\ L \in Nat
      /\ Len(stream') = L + 1
      /\ stream \in Seq(Byte)
      /\ stream' \in Seq(Byte)
      /\ \A k \in 1..L : stream'[k] = stream[k]
      /\ stream'[L + 1] = b
  BY <1>0, GrowsProperties
<1>2. /\ PREAMBLE_SIZE \in Nat /\ PREAMBLE_SIZE > 0 /\ HDR_SIZE \in Nat /\ HDR_SIZE > 4
      /\ PAYLOAD_MAX \in Nat
  BY Format
<1>3. /\ start \in Nat /\ index \in Nat /\ index < HDR_SIZE + PAYLOAD_MAX
      /\ frame \in [Cell -> Byte]
  BY <1>0, <1>2 DEF TypeOK
<1>4. Preambled /\ Framed /\ (index >= 4 => ~LengthBad)
  BY DEF Content
<1>5. start' = start /\ index' = index + 1 /\ frame' = [frame EXCEPT ![index + 1] = b]
  BY DEF Collect
<1>6. L = n + index /\ stream[n] = SOF /\ n \in Nat /\ n >= 2 /\ start >= 1
  BY <1>2, <1>3, <1>4 DEF Framed, Preambled
<1>7. Preambled'
  <2>1. ~(L + 1 < n)
    BY <1>1, <1>3, <1>6
  <2> QED BY <1>0, <1>4, <1>5, <2>1, PreambledGrows
<1>8. index + 1 \in Cell /\ \A m \in 1..index : m \in Cell
  BY <1>2, <1>3 DEF Cell
<1>9. /\ frame'[index + 1] = b
      /\ \A m \in Cell : m # index + 1 => frame'[m] = frame[m]
  BY <1>3, <1>5, <1>8
<1>10. \A m \in 1..index + 1 : frame'[m] = stream'[n + m]
  <2> SUFFICES ASSUME NEW m \in 1..index + 1 PROVE frame'[m] = stream'[n + m]
    OBVIOUS
  <2>1. CASE m = index + 1
    BY <1>1, <1>3, <1>6, <1>9, <2>1
  <2>2. CASE m # index + 1
    <3>1. m \in 1..index /\ n + m \in 1..L
      BY <1>1, <1>3, <1>6, <2>2
    <3>2. frame'[m] = frame[m]
      BY <1>8, <1>9, <2>2, <3>1
    <3>3. frame[m] = stream[n + m]
      BY <1>4, <3>1 DEF Framed
    <3> QED BY <1>1, <3>1, <3>2, <3>3
  <2> QED BY <2>1, <2>2
<1>11. crc' = CrcOf(SubSeq(stream', n + 2, L + 1))
  <2>1. crc = CrcOf(SubSeq(stream, n + 2, L))
    BY <1>4 DEF Framed
  <2>2. CASE index = 0
    <3>1. crc' = crc
      BY <2>2 DEF Collect
    <3>2. SubSeq(stream, n + 2, L) = <<>> /\ SubSeq(stream', n + 2, L + 1) = <<>>
      <4> DEFINE q == n + 2
      <4>1. q \in Int /\ L \in Int /\ L + 1 \in Int /\ L < q /\ L + 1 < q
        BY <1>1, <1>6, <2>2
      <4> HIDE DEF q, L
      <4>2. SubSeq(stream, q, L) = <<>>
        BY <4>1, SubSeqEmpty
      <4>3. SubSeq(stream', q, L + 1) = <<>>
        BY <4>1, SubSeqEmpty
      <4> QED BY <4>2, <4>3 DEF q
    <3> QED BY <2>1, <3>1, <3>2, Zenon
  <2>3. CASE index # 0
    <3>1. crc' = CrcStep(crc, b)
      BY <1>3, <2>3 DEF Collect
    <3>2. stream' = Append(stream, b)
      BY DEF Grows
    <3> DEFINE q == n + 2
    <3>3. q \in Nat /\ q >= 1 /\ q =< L + 1
      BY <1>1, <1>3, <1>6, <2>3
    <3> HIDE DEF q
    <3>4. SubSeq(Append(stream, b), q, Len(stream) + 1) = Append(SubSeq(stream, q, Len(stream)), b)
      BY <1>1, <3>3, PartGrows
    <3>5. SubSeq(stream, q, L) \in Seq(Byte)
      BY <1>1, <3>3, PartOfSeq
    <3>6. CrcOf(Append(SubSeq(stream, q, L), b)) = CrcStep(CrcOf(SubSeq(stream, q, L)), b)
      BY <3>5, CrcProperties
    <3>7. crc = CrcOf(SubSeq(stream, q, L))
      BY <2>1 DEF q
    <3>8. crc' = CrcOf(SubSeq(stream', q, L + 1))
      BY <3>1, <3>2, <3>4, <3>6, <3>7, Zenon
    <3> QED BY <3>8 DEF q
  <2> QED BY <2>2, <2>3
<1>12. Framed'
  <2>1. Len(stream') = start' + PREAMBLE_SIZE + index'
    BY <1>1, <1>3, <1>5, <1>6
  <2>2. stream'[start' + PREAMBLE_SIZE] = SOF
    <3>1. n \in 1..L
      BY <1>1, <1>3, <1>6
    <3> QED BY <1>1, <1>5, <1>6, <3>1
  <2>3. \A m \in 1..index' : frame'[m] = stream'[start' + PREAMBLE_SIZE + m]
    BY <1>5, <1>10
  <2>4. crc' = CrcOf(SubSeq(stream', start' + PREAMBLE_SIZE + 2, Len(stream')))
    BY <1>1, <1>5, <1>11, Zenon
  <2> QED BY <2>1, <2>2, <2>3, <2>4 DEF Framed
<1>13. index' >= 5 => ~LengthBad'
  <2>1. SUFFICES ASSUME index' >= 5 PROVE ~LengthBad'
    OBVIOUS
  <2>2. index >= 4 /\ ~LengthBad
    BY <1>3, <1>4, <1>5, <2>1
  <2>3. 2 \in Cell /\ 3 \in Cell /\ 2 # index + 1 /\ 3 # index + 1
    BY <1>2, <1>3, <2>2 DEF Cell
  <2>4. frame'[2] = frame[2] /\ frame'[3] = frame[3]
    BY <1>9, <2>3
  <2> QED BY <2>2, <2>4 DEF LengthBad, len, Invert
<1>14. state' \in {"IDLE", "FRAME"} /\ (state' = "FRAME" => (index' = 4 => ~LengthBad'))
  BY <1>5 DEF Collect
<1>15. state' = "FRAME" => (index' >= 4 => ~LengthBad')
  BY <1>3, <1>5, <1>13, <1>14
<1>16. Content'
  BY <1>7, <1>12, <1>14, <1>15 DEF Content
<1> QED BY <1>7, <1>12, <1>13, <1>16

(* What is accepted is a frame, and so is what was accepted before.        *)
LEMMA AcceptedSound ==
    ASSUME RxInv, Content, Past, SoundAt, NEW b \in Byte, NEW gap \in BOOLEAN,
           Grows(b, gap),
           (Hunt(Reset(gap), b) \/ (Reset(gap) = "FRAME" /\ Collect(b)))
    PROVE  Past' /\ SoundAt'
<1> DEFINE L == Len(stream)
           new == [from |-> start, to |-> L + 1]
<1>0. TypeOK
  BY DEF RxInv
<1>1. /\ L \in Nat
      /\ Len(stream') = L + 1
      /\ stream \in Seq(Byte)
      /\ stream' \in Seq(Byte)
      /\ stream' = Append(stream, b)
      /\ gaps \subseteq 1..L
      /\ gaps' = gaps \/ gaps' = gaps \cup {L + 1}
  BY <1>0, GrowsProperties DEF Grows
<1>2. PREAMBLE_SIZE \in Nat /\ PREAMBLE_SIZE > 0 /\ HDR_SIZE \in Nat /\ HDR_SIZE > 4
  BY Format
<1>3. accepted \subseteq [from : Nat, to : Nat]
  BY <1>0 DEF TypeOK
<1>4. ASSUME NEW a \in accepted
      PROVE  /\ a.from >= 1 /\ a.from =< a.to /\ a.to =< L + 1
             /\ FrameAt(stream', a.from, a.to)
             /\ a.from + PREAMBLE_SIZE + HDR_SIZE =< a.to
             /\ gaps' \cap (a.from + 1)..a.to = {}
  <2>1. /\ a.from \in Nat /\ a.to \in Nat
        /\ a.from >= 1 /\ a.from =< a.to /\ a.to =< L
    BY <1>3 DEF Past
  <2>2. /\ FrameAt(stream, a.from, a.to)
        /\ a.from + PREAMBLE_SIZE + HDR_SIZE =< a.to
        /\ gaps \cap (a.from + 1)..a.to = {}
    BY DEF SoundAt
  <2>3. FrameAt(Append(stream, b), a.from, a.to)
    BY <1>1, <2>1, <2>2, FrameKept
  <2>4. gaps' \cap (a.from + 1)..a.to = {}
    <3> DEFINE i == a.from
               j == a.to
    <3>1. i \in Nat /\ j \in Nat /\ j =< L /\ gaps \cap (i + 1)..j = {}
      BY <2>1, <2>2
    <3> HIDE DEF i, j, L
    <3>2. gaps' \cap (i + 1)..j = {}
      BY <1>1, <3>1
    <3> QED BY <3>2 DEF i, j
  <2> QED BY <1>1, <2>1, <2>2, <2>3, <2>4
<1>5. CASE accepted' = accepted
  <2>1. \A a \in accepted' :
            /\ a.from >= 1 /\ a.from =< a.to /\ a.to =< L + 1
            /\ FrameAt(stream', a.from, a.to)
            /\ a.from + PREAMBLE_SIZE + HDR_SIZE =< a.to
            /\ gaps' \cap (a.from + 1)..a.to = {}
    BY <1>4, <1>5, Zenon
  <2> HIDE DEF L
  <2> QED BY <1>1, <2>1 DEF Past, SoundAt, L
<1>6. CASE accepted' # accepted
  <2>1. Reset(gap) = "FRAME" /\ Collect(b) /\ ~gap /\ state = "FRAME"
    BY <1>6 DEF Hunt, Reset
  <2>2. /\ index + 1 = len' + HDR_SIZE /\ crc' = frame'[1]
        /\ accepted' = accepted \cup {new}
        /\ start' = start /\ index' = index + 1
    BY <1>6, <2>1 DEF Collect
  <2>3. Grows(b, FALSE)
    BY <2>1 DEF Grows
  <2>4. Preambled' /\ Framed' /\ (index' >= 5 => ~LengthBad')
    BY <2>1, <2>3, CollectContent
  <2>5. len' \in Nat /\ index \in Nat /\ start \in Nat
    <3>1. RxInv'
      BY <2>1, <2>3, CollectInv DEF Grows
    <3>2. frame' \in [Cell -> Byte]
      BY <3>1 DEF RxInv, TypeOK
    <3>3. 2 \in Cell
      BY Format DEF Cell
    <3>4. frame'[2] \in Byte
      BY <3>2, <3>3
    <3>5. index \in Nat /\ start \in Nat
      BY <1>0, Format DEF TypeOK
    <3> QED BY <3>4, <3>5, Format DEF len, Byte
  <2> DEFINE n == start + PREAMBLE_SIZE
             v == len'
  <2>6. /\ v \in Nat /\ index + 1 = v + HDR_SIZE
        /\ index + 1 >= 5 /\ n \in Nat /\ n >= 2 /\ start >= 1 /\ L + 1 = n + (index + 1)
    <3>1. start >= 1
      BY <2>2, <2>4 DEF Preambled
    <3>2. L + 1 = start + PREAMBLE_SIZE + (index + 1)
      BY <1>1, <2>2, <2>4 DEF Framed
    <3>3. v \in Nat /\ index + 1 = v + HDR_SIZE
      BY <2>2, <2>5
    <3> HIDE DEF v
    <3> QED BY <1>2, <2>5, <3>1, <3>2, <3>3
  <2>7. \A m \in 1..index + 1 : frame'[m] = stream'[n + m]
    BY <2>2, <2>4 DEF Framed
  <2>8. frame'[1] = stream'[n+1] /\ frame'[2] = stream'[n+2] /\ frame'[3] = stream'[n+3]
    <3>1. 1 \in 1..index + 1 /\ 2 \in 1..index + 1 /\ 3 \in 1..index + 1
      BY <2>5, <2>6
    <3> HIDE DEF n
    <3> QED BY <2>7, <3>1
  <2>9. ~LengthBad'
    BY <2>2, <2>4, <2>6
  <2>10. v = stream'[n+2]
    BY <2>8 DEF len
  <2>11. stream'[n+2] = Invert(stream'[n+3]) /\ ~(stream'[n+2] > PAYLOAD_MAX)
    BY <2>8, <2>9 DEF LengthBad, len, Invert
  <2>12. stream'[n+2] =< PAYLOAD_MAX
    <3>1. v \in Nat /\ ~(v > PAYLOAD_MAX)
      BY <2>6, <2>10, <2>11
    <3> HIDE DEF v
    <3>2. v =< PAYLOAD_MAX
      BY <3>1, Format
    <3> QED BY <2>10, <3>2
  <2>13. \A m \in start..n - 1 : stream'[m] = PREAMBLE
    <3> SUFFICES ASSUME NEW m \in start..n - 1 PROVE stream'[m] = PREAMBLE
      OBVIOUS
    <3>1. m \in start..L + 1 /\ m < start + PREAMBLE_SIZE
      BY <1>1, <1>2, <2>5, <2>6
    <3> QED BY <1>1, <2>2, <2>4, <3>1 DEF Preambled
  <2>14. stream'[n] = SOF
    BY <2>2, <2>4 DEF Framed
  <2>15. crc' = CrcOf(SubSeq(stream', n + 2, L + 1))
    BY <1>1, <2>2, <2>4 DEF Framed
  <2>16. stream'[n+1] = CrcOf(SubSeq(stream', n + 2, L + 1))
    BY <2>2, <2>8, <2>15, Zenon
  <2>17. L + 1 = n + HDR_SIZE + stream'[n+2]
    <3> HIDE DEF v
    <3>1. L + 1 = n + HDR_SIZE + v
      BY <1>1, <1>2, <2>6
    <3> QED BY <2>10, <3>1
  <2>18. FrameAt(stream', start, L + 1)
    BY <2>11, <2>12, <2>13, <2>14, <2>16, <2>17 DEF FrameAt
  <2>19. start + PREAMBLE_SIZE + HDR_SIZE =< L + 1 /\ start =< L + 1
    <3> HIDE DEF v
    <3> QED BY <1>1, <1>2, <2>5, <2>6
  <2>20. gaps' \cap (start + 1)..L + 1 = {}
    BY <1>1, <2>2, <2>4 DEF Preambled
  <2>21. new.from = start /\ new.to = L + 1
    OBVIOUS
  <2>22. /\ new.from >= 1 /\ new.from =< new.to /\ new.to =< L + 1
         /\ FrameAt(stream', new.from, new.to)
         /\ new.from + PREAMBLE_SIZE + HDR_SIZE =< new.to
         /\ gaps' \cap (new.from + 1)..new.to = {}
    <3> HIDE DEF new
    <3>1. /\ new.from >= 1 /\ new.from =< new.to /\ new.to =< L + 1
          /\ new.from + PREAMBLE_SIZE + HDR_SIZE =< new.to
      BY <1>1, <2>6, <2>19, <2>21
    <3>2. FrameAt(stream', new.from, new.to)
      BY <2>18, <2>21, Zenon
    <3>3. gaps' \cap (new.from + 1)..new.to = {}
      BY <2>20, <2>21
    <3> QED BY <3>1, <3>2, <3>3
  <2> HIDE DEF new
  <2>23. \A a \in accepted' :
            /\ a.from >= 1 /\ a.from =< a.to /\ a.to =< L + 1
            /\ FrameAt(stream', a.from, a.to)
            /\ a.from + PREAMBLE_SIZE + HDR_SIZE =< a.to
            /\ gaps' \cap (a.from + 1)..a.to = {}
    BY <1>4, <2>2, <2>22, Zenon
  <2> HIDE DEF L, n, v
  <2> QED BY <1>1, <2>23 DEF Past, SoundAt, L
<1> QED BY <1>5, <1>6

(* A fresh position is an old one, or the next one after a silence, or the *)
(* one after a frame that ends with the byte.                              *)
LEMMA FreshStep ==
    ASSUME RxInv, Past, NEW b \in Byte, NEW gap \in BOOLEAN, Grows(b, gap),
           (Hunt(Reset(gap), b) \/ (Reset(gap) = "FRAME" /\ Collect(b))),
           NEW i \in Fresh'
    PROVE  /\ i \in Nat /\ i >= 1 /\ i =< Len(stream) + 2
           /\ i =< Len(stream) => i \in Fresh
           /\ i = Len(stream) + 1 => gap \/ i \in Fresh
           /\ i = Len(stream) + 2 => state' = "IDLE"
<1> DEFINE L == Len(stream)
<1>0. TypeOK
  BY DEF RxInv
<1>1. /\ L \in Nat
      /\ gaps \subseteq 1..L
      /\ ~gap => gaps' = gaps
      /\ gap => gaps' = gaps \cup {L + 1}
  BY <1>0, GrowsProperties
<1>2. accepted \subseteq [from : Nat, to : Nat] /\ \A a \in accepted : a.to \in Nat /\ a.to =< L /\ a.to >= 1
  BY <1>0 DEF TypeOK, Past
<1>3. \/ accepted' = accepted
      \/ accepted' = accepted \cup {[from |-> start, to |-> L + 1]} /\ state' = "IDLE"
  BY DEF Hunt, Collect
<1>4. i = 1 \/ i \in gaps' \/ \E a \in accepted' : i = a.to + 1
  BY DEF Fresh
<1>5. CASE i = 1
  BY <1>1, <1>5 DEF Fresh
<1>6. CASE i \in gaps'
  <2>1. i \in gaps \/ (gap /\ i = L + 1)
    BY <1>1, <1>6
  <2> QED BY <1>1, <2>1 DEF Fresh
<1>7. CASE \E a \in accepted' : i = a.to + 1
  <2>1. PICK a \in accepted' : i = a.to + 1
    BY <1>7
  <2>2. CASE a \in accepted
    <3>1. i \in Fresh
      BY <2>1, <2>2 DEF Fresh
    <3> QED BY <1>1, <1>2, <2>1, <2>2, <3>1
  <2>3. CASE a \notin accepted
    <3>1. a = [from |-> start, to |-> L + 1] /\ state' = "IDLE"
      BY <1>3, <2>1, <2>3
    <3> QED BY <1>1, <2>1, <3>1
  <2> QED BY <2>2, <2>3
<1> QED BY <1>4, <1>5, <1>6, <1>7

(* What began at i had begun before the byte.                              *)
LEMMA BegunBefore ==
    ASSUME TypeOK, NEW b \in Byte, NEW gap \in BOOLEAN, Grows(b, gap),
           NEW i \in Nat, i >= 1, i =< Len(stream) + 1, Begun(i)'
    PROVE  Begun(i)
<1> DEFINE n == i + PREAMBLE_SIZE
           L == Len(stream)
<1>1. /\ L \in Nat
      /\ Len(stream') = L + 1
      /\ \A k \in 1..L : stream'[k] = stream[k]
  BY GrowsProperties
<1>2. n \in Nat /\ n >= 2 /\ PREAMBLE_SIZE \in Nat /\ HDR_SIZE \in Nat /\ HDR_SIZE > 4
  BY Format
<1>3. \A m \in i..L : m < n => stream[m] = PREAMBLE
  <2> SUFFICES ASSUME NEW m \in i..L, m < n PROVE stream[m] = PREAMBLE
    OBVIOUS
  <2>1. m \in 1..L /\ m \in i..L + 1
    BY <1>1
  <2>2. stream'[m] = PREAMBLE
    BY <1>1, <2>1 DEF Begun
  <2> QED BY <1>1, <2>1, <2>2
<1>4. n =< L => stream[n] = SOF
  <2> SUFFICES ASSUME n =< L PROVE stream[n] = SOF
    OBVIOUS
  <2>1. n \in 1..L /\ n =< L + 1
    BY <1>1, <1>2
  <2>2. stream'[n] = SOF
    BY <1>1, <2>1 DEF Begun
  <2> QED BY <1>1, <2>1, <2>2
<1>5. n + 4 =< L => /\ stream[n+2] = Invert(stream[n+3])
                    /\ stream[n+2] =< PAYLOAD_MAX
                    /\ L < n + HDR_SIZE + stream[n+2]
  <2> SUFFICES ASSUME n + 4 =< L
               PROVE  /\ stream[n+2] = Invert(stream[n+3])
                      /\ stream[n+2] =< PAYLOAD_MAX
                      /\ L < n + HDR_SIZE + stream[n+2]
    OBVIOUS
  <2>1. n + 2 \in 1..L /\ n + 3 \in 1..L /\ n + 4 =< L + 1
    BY <1>1, <1>2
  <2>2. stream'[n+2] = stream[n+2] /\ stream'[n+3] = stream[n+3]
    BY <1>1, <2>1
  <2>3. /\ stream'[n+2] = Invert(stream'[n+3])
        /\ stream'[n+2] =< PAYLOAD_MAX
        /\ L + 1 < n + HDR_SIZE + stream'[n+2]
    BY <1>1, <2>1 DEF Begun
  <2>4. stream[n+2] \in Byte
    BY <2>1, GrowsProperties
  <2> DEFINE v == stream[n+2]
  <2>5. v \in Nat /\ L + 1 < n + HDR_SIZE + v
    BY <2>2, <2>3, <2>4, Format DEF Byte
  <2> HIDE DEF v
  <2>6. L < n + HDR_SIZE + v
    BY <1>1, <1>2, <2>5
  <2> QED BY <2>2, <2>3, <2>6 DEF v
<1> QED BY <1>3, <1>4, <1>5 DEF Begun

(* The frame that begins at a fresh position stays the one being received. *)
LEMMA TrackedStep ==
    ASSUME RxInv, Content, Past, Tracked, NEW b \in Byte, NEW gap \in BOOLEAN,
           Grows(b, gap),
           (Hunt(Reset(gap), b) \/ (Reset(gap) = "FRAME" /\ Collect(b)))
    PROVE  Tracked'
<1> DEFINE L == Len(stream)
<1>0. TypeOK
  BY DEF RxInv
<1>1. /\ L \in Nat
      /\ Len(stream') = L + 1
      /\ \A k \in 1..L : stream'[k] = stream[k]
      /\ stream'[L + 1] = b
      /\ gaps \subseteq 1..L
      /\ ~gap => gaps' = gaps
      /\ gap => gaps' = gaps \cup {L + 1}
      /\ gaps \subseteq gaps'
  BY <1>0, GrowsProperties
<1>2. PREAMBLE_SIZE \in Nat /\ PREAMBLE_SIZE > 0 /\ HDR_SIZE \in Nat /\ HDR_SIZE > 4
  BY Format
<1>3. SUFFICES ASSUME NEW i \in Fresh', Begun(i)', gaps' \cap (i + 1)..Len(stream') = {}
               PROVE  /\ i = L + 2 => state' = "IDLE"
                      /\ i =< L + 1 => start' = i /\ state' = Waiting(i)'
  <2>1. \A i \in Nat : (i = L + 2) <=> (i = Len(stream') + 1)
    BY <1>1
  <2>2. \A i \in Fresh' : i \in Nat
    BY FreshStep
  <2> QED BY <1>1, <2>1, <2>2 DEF Tracked
<1>4. /\ i \in Nat /\ i >= 1 /\ i =< L + 2
      /\ i =< L => i \in Fresh
      /\ i = L + 1 => gap \/ i \in Fresh
      /\ i = L + 2 => state' = "IDLE"
  BY FreshStep
<1>5. Waiting(i)' = IF i + PREAMBLE_SIZE > L + 2 THEN "PREAMBLE"
                    ELSE IF i + PREAMBLE_SIZE = L + 2 THEN "SOF" ELSE "FRAME"
  <2>1. Len(stream') + 1 = L + 2
    BY <1>1
  <2> QED BY <2>1 DEF Waiting
<1>6. i =< L + 1 => Begun(i)
  BY <1>0, <1>3, <1>4, BegunBefore
<1>7. \A m \in i..L + 1 : m < i + PREAMBLE_SIZE => stream'[m] = PREAMBLE
  BY <1>1, <1>3 DEF Begun
<1>8. CASE i = L + 1
  <2>1. Reset(gap) = "IDLE"
    <3>1. CASE gap
      BY <3>1 DEF Reset
    <3>2. CASE ~gap
      <4>1. i \in Fresh /\ Begun(i)
        BY <1>4, <1>6, <1>8, <3>2
      <4>2. gaps \cap (i + 1)..L = {}
        BY <1>1, <1>8
      <4>3. state = "IDLE"
        BY <1>8, <4>1, <4>2 DEF Tracked
      <4> QED BY <3>2, <4>3 DEF Reset
    <3> QED BY <3>1, <3>2
  <2>2. b = PREAMBLE
    <3>1. i \in i..L + 1 /\ i < i + PREAMBLE_SIZE
      BY <1>2, <1>4, <1>8
    <3>2. stream'[i] = PREAMBLE
      BY <1>7, <3>1
    <3> QED BY <1>1, <1>8, <3>2
  <2>3. start' = L + 1 /\ state' = IF 1 >= PREAMBLE_SIZE THEN "SOF" ELSE "PREAMBLE"
    BY <2>1, <2>2 DEF Hunt
  <2>4. state' = Waiting(i)'
    BY <1>1, <1>2, <1>5, <1>8, <2>3
  <2> QED BY <1>1, <1>8, <2>3, <2>4
<1>9. CASE i =< L
  <2>1. ~gap /\ Grows(b, FALSE)
    <3>1. L + 1 \notin gaps'
      BY <1>1, <1>3, <1>4, <1>9
    <3>2. ~gap
      BY <1>1, <3>1
    <3> QED BY <3>2 DEF Grows
  <2>2. i \in Fresh /\ Begun(i)
    BY <1>1, <1>4, <1>6, <1>9
  <2>3. gaps \cap (i + 1)..L = {}
    BY <1>1, <1>3, <1>4
  <2>4. start = i /\ state = Waiting(i) /\ Reset(gap) = state
    BY <1>9, <2>1, <2>2, <2>3 DEF Tracked, Reset
  <2>5. CASE i + PREAMBLE_SIZE > L + 1
    <3>1. state = "PREAMBLE"
      BY <2>4, <2>5 DEF Waiting
    <3>2. L = start + pre - 1 /\ pre \in Nat
      BY <1>0, <1>2, <3>1 DEF Content, TypeOK
    <3>3. b = PREAMBLE
      <4>1. L + 1 \in i..L + 1 /\ L + 1 < i + PREAMBLE_SIZE
        BY <1>1, <1>4, <1>9, <2>5
      <4> QED BY <1>1, <1>7, <4>1
    <3>4. start' = start /\ state' = IF pre + 1 >= PREAMBLE_SIZE THEN "SOF" ELSE "PREAMBLE"
      BY <2>4, <3>1, <3>3 DEF Hunt
    <3>5. (pre + 1 >= PREAMBLE_SIZE) <=> (i + PREAMBLE_SIZE = L + 2)
      BY <1>1, <1>2, <1>4, <2>4, <2>5, <3>2
    <3>6. ~(i + PREAMBLE_SIZE = L + 2) => i + PREAMBLE_SIZE > L + 2
      BY <1>1, <1>2, <1>4, <2>5
    <3>7. state' = Waiting(i)'
      BY <1>1, <1>2, <1>4, <1>5, <3>4, <3>5, <3>6
    <3> QED BY <1>1, <1>9, <2>4, <3>4, <3>7
  <2>6. CASE i + PREAMBLE_SIZE = L + 1
    <3>1. state = "SOF"
      BY <1>1, <2>4, <2>6 DEF Waiting
    <3>2. b = SOF
      <4>1. i + PREAMBLE_SIZE =< Len(stream')
        BY <1>1, <2>6
      <4>2. stream'[i + PREAMBLE_SIZE] = SOF
        BY <1>3, <4>1 DEF Begun
      <4> QED BY <1>1, <2>6, <4>2
    <3>3. start' = start /\ state' = "FRAME"
      BY <2>4, <3>1, <3>2 DEF Hunt
    <3>4. Waiting(i)' = "FRAME"
      BY <1>1, <1>2, <1>5, <2>6
    <3> QED BY <1>1, <1>9, <2>4, <3>3, <3>4
  <2>7. CASE i + PREAMBLE_SIZE =< L
    <3> DEFINE n == i + PREAMBLE_SIZE
               v == len'
    <3>1. state = "FRAME" /\ Collect(b)
      <4>1. state = "FRAME"
        BY <1>1, <1>2, <1>4, <2>4, <2>7 DEF Waiting
      <4> QED BY <2>4, <4>1 DEF Hunt
    <3>2. start' = start /\ index' = index + 1 /\ index \in Nat
      BY <1>0, <1>2, <3>1 DEF Collect, TypeOK
    <3>3. Framed' /\ L = n + index
      BY <2>1, <2>4, <3>1, CollectContent DEF Content, Framed
    <3>4. \A m \in 1..index + 1 : frame'[m] = stream'[n + m]
      BY <2>4, <3>2, <3>3 DEF Framed
    <3>5. v \in Nat
      <4>1. RxInv'
        BY <2>1, <3>1, CollectInv DEF Grows
      <4>2. frame' \in [Cell -> Byte]
        BY <4>1 DEF RxInv, TypeOK
      <4>3. 2 \in Cell
        BY Format DEF Cell
      <4>4. frame'[2] \in Byte
        BY <4>2, <4>3
      <4> QED BY <4>4, Format DEF len, Byte
    <3>6. index + 1 >= 4 => /\ stream'[n+2] = Invert(stream'[n+3])
                            /\ stream'[n+2] =< PAYLOAD_MAX
                            /\ L + 1 < n + HDR_SIZE + stream'[n+2]
      <4>1. index + 1 >= 4 => n + 4 =< Len(stream')
        BY <1>1, <1>2, <1>4, <3>2, <3>3
      <4> QED BY <1>1, <1>3, <4>1 DEF Begun
    <3>7. index + 1 >= 4 => frame'[2] = stream'[n+2] /\ frame'[3] = stream'[n+3]
      <4>1. index + 1 >= 4 => 2 \in 1..index + 1 /\ 3 \in 1..index + 1
        BY <3>2
      <4> HIDE DEF n
      <4> QED BY <3>4, <4>1
    <3>8. index + 1 >= 4 => /\ len' = Invert(frame'[3])
                            /\ v =< PAYLOAD_MAX
                            /\ L + 1 < n + HDR_SIZE + v
      BY <3>6, <3>7 DEF len
    <3>9. index + 1 = 4 => ~LengthBad'
      <4>1. index + 1 = 4 => len' = Invert(frame'[3]) /\ ~(v > PAYLOAD_MAX)
        <5> HIDE DEF v, n
        <5>1. index + 1 = 4 => v =< PAYLOAD_MAX
          BY <3>2, <3>8
        <5>2. index + 1 = 4 => ~(v > PAYLOAD_MAX)
          BY <3>5, <5>1, Format
        <5>3. index + 1 = 4 => len' = Invert(frame'[3])
          BY <3>2, <3>8
        <5> QED BY <5>2, <5>3
      <4> QED BY <4>1 DEF LengthBad, Invert
    <3>10. index + 1 # v + HDR_SIZE
      <4> HIDE DEF v
      <4> SUFFICES ASSUME index + 1 = v + HDR_SIZE PROVE FALSE
        OBVIOUS
      <4>1. index + 1 >= 4 /\ L + 1 = n + (index + 1)
        BY <1>1, <1>2, <1>4, <3>2, <3>3, <3>5
      <4>2. L + 1 < n + HDR_SIZE + v
        BY <3>8, <4>1
      <4> QED BY <1>1, <1>2, <1>4, <3>2, <3>5, <4>1, <4>2
    <3>11. state' = "FRAME"
      BY <3>1, <3>9, <3>10 DEF Collect
    <3>12. Waiting(i)' = "FRAME"
      BY <1>1, <1>2, <1>4, <1>5, <2>7
    <3> HIDE DEF v, n
    <3> QED BY <1>1, <1>9, <2>4, <3>2, <3>11, <3>12
  <2> QED BY <1>1, <1>2, <1>4, <2>5, <2>6, <2>7
<1>10. CASE i = L + 2
  BY <1>1, <1>4, <1>10
<1> QED BY <1>1, <1>4, <1>8, <1>9, <1>10

(* A frame that ends with the byte is accepted.                            *)
LEMMA CompleteStep ==
    ASSUME RxInv, Content, Past, Tracked, CompleteAt, NEW b \in Byte, NEW gap \in BOOLEAN,
           Grows(b, gap),
           (Hunt(Reset(gap), b) \/ (Reset(gap) = "FRAME" /\ Collect(b)))
    PROVE  CompleteAt'
<1> DEFINE L == Len(stream)
<1>0. TypeOK
  BY DEF RxInv
<1>1. /\ L \in Nat
      /\ Len(stream') = L + 1
      /\ stream \in Seq(Byte)
      /\ stream' \in Seq(Byte)
      /\ stream' = Append(stream, b)
      /\ \A k \in 1..L : stream'[k] = stream[k]
      /\ stream'[L + 1] = b
      /\ gaps \subseteq 1..L
      /\ ~gap => gaps' = gaps
      /\ gap => gaps' = gaps \cup {L + 1}
      /\ gaps \subseteq gaps'
  BY <1>0, GrowsProperties DEF Grows
<1>2. PREAMBLE_SIZE \in Nat /\ PREAMBLE_SIZE > 0 /\ HDR_SIZE \in Nat /\ HDR_SIZE > 4
  BY Format
<1>3. SUFFICES ASSUME NEW i \in Fresh', NEW j \in i..L + 1,
                      i + PREAMBLE_SIZE + HDR_SIZE =< j,
                      FrameAt(stream', i, j),
                      gaps' \cap (i + 1)..j = {}
               PROVE  [from |-> i, to |-> j] \in accepted'
  BY <1>1 DEF CompleteAt
<1>4. i \in Nat /\ i >= 1 /\ (i =< L => i \in Fresh)
  BY FreshStep
<1>5. j \in Nat /\ i =< L /\ i \in Fresh
  BY <1>1, <1>2, <1>3, <1>4
<1>6. CASE j =< L
  <2>1. FrameAt(stream, i, j)
    BY <1>1, <1>3, <1>4, <1>5, <1>6, FrameKept
  <2>2. gaps \cap (i + 1)..j = {}
    BY <1>1, <1>3
  <2>3. j \in i..L
    BY <1>1, <1>3, <1>4, <1>5, <1>6
  <2>4. [from |-> i, to |-> j] \in accepted
    BY <1>3, <1>5, <2>1, <2>2, <2>3 DEF CompleteAt
  <2> QED BY <2>4 DEF Hunt, Collect
<1>7. CASE j = L + 1
  <2> DEFINE n == i + PREAMBLE_SIZE
             v == stream'[n+2]
  <2>0. n \in Nat /\ n >= 2 /\ n + HDR_SIZE =< L + 1
    BY <1>2, <1>3, <1>4, <1>7
  <2>1. ~gap /\ Grows(b, FALSE)
    <3>1. L + 1 \notin gaps'
      BY <1>1, <1>3, <1>4, <1>5, <1>7
    <3>2. ~gap
      BY <1>1, <3>1
    <3> QED BY <3>2 DEF Grows
  <2>2. /\ \A m \in i..n-1 : stream'[m] = PREAMBLE
        /\ stream'[n] = SOF
        /\ stream'[n+2] = Invert(stream'[n+3])
        /\ stream'[n+2] =< PAYLOAD_MAX
        /\ L + 1 = n + HDR_SIZE + v
        /\ stream'[n+1] = CrcOf(SubSeq(stream', n+2, L + 1))
    BY <1>3, <1>7 DEF FrameAt
  <2>3. n \in 1..L /\ n + 2 \in 1..L /\ n + 3 \in 1..L
    <3> HIDE DEF n, v
    <3> QED BY <1>1, <1>2, <2>0
  <2>4. stream[n] = SOF /\ stream[n+2] = v /\ stream[n+3] = stream'[n+3]
    <3> HIDE DEF n
    <3> QED BY <1>1, <2>2, <2>3
  <2>5. L < n + HDR_SIZE + v
    <3>1. v \in Byte
      BY <2>3, <2>4, <1>1
    <3>2. v \in Nat
      BY <3>1, Format DEF Byte
    <3> HIDE DEF n, v
    <3> QED BY <1>1, <1>2, <2>0, <2>2, <3>2
  <2>6. \A m \in i..L : m < n => stream[m] = PREAMBLE
    <3> SUFFICES ASSUME NEW m \in i..L, m < n PROVE stream[m] = PREAMBLE
      OBVIOUS
    <3>1. m \in i..n-1 /\ m \in 1..L
      BY <1>1, <1>4, <2>0
    <3> QED BY <1>1, <2>2, <3>1
  <2>7. Begun(i)
    <3> USE DEF Begun
    <3>1. stream[n+2] = Invert(stream[n+3]) /\ stream[n+2] =< PAYLOAD_MAX
          /\ L < n + HDR_SIZE + stream[n+2]
      BY <2>2, <2>4, <2>5
    <3> QED BY <2>4, <2>6, <3>1
  <2>8. gaps \cap (i + 1)..L = {}
    BY <1>1, <1>3, <1>4, <1>7
  <2>9. start = i /\ state = "FRAME"
    <3>1. start = i /\ state = Waiting(i)
      BY <1>5, <2>7, <2>8 DEF Tracked
    <3>2. ~(n > L + 1) /\ n # L + 1
      <4> HIDE DEF n
      <4> QED BY <1>1, <1>2, <2>0
    <3> QED BY <3>1, <3>2 DEF Waiting
  <2>10. Collect(b)
    BY <2>1, <2>9 DEF Hunt, Reset
  <2>11. Framed' /\ start' = start /\ index' = index + 1 /\ index \in Nat
    <3>1. Framed'
      BY <2>1, <2>9, <2>10, CollectContent
    <3>2. start' = start /\ index' = index + 1
      BY <2>10 DEF Collect
    <3>3. index \in Nat
      BY <1>0, <1>2 DEF TypeOK
    <3> QED BY <3>1, <3>2, <3>3
  <2>12. /\ L + 1 = n + (index + 1)
         /\ \A m \in 1..index + 1 : frame'[m] = stream'[n + m]
         /\ crc' = CrcOf(SubSeq(stream', n + 2, L + 1))
    BY <1>1, <2>9, <2>11 DEF Framed
  <2>13. frame'[1] = stream'[n+1] /\ frame'[2] = v
    <3>1. 1 \in 1..index + 1 /\ 2 \in 1..index + 1
      <4> HIDE DEF n, v
      <4> QED BY <1>1, <1>2, <2>0, <2>11, <2>12
    <3> QED BY <2>12, <3>1
  <2>14. crc' = frame'[1]
    BY <2>2, <2>12, <2>13, Zenon
  <2>15. index + 1 = len' + HDR_SIZE
    <3>1. v \in Nat
      <4>1. v \in Byte
        BY <2>3, <2>4, <1>1
      <4> QED BY <4>1, Format DEF Byte
    <3>2. index + 1 = v + HDR_SIZE
      <4> HIDE DEF n, v
      <4> QED BY <1>1, <1>2, <2>0, <2>2, <2>11, <2>12, <3>1
    <3> QED BY <2>13, <3>2 DEF len
  <2>16. [from |-> start, to |-> L + 1] \in accepted'
    BY <2>10, <2>14, <2>15 DEF Collect
  <2> QED BY <1>7, <2>9, <2>16
<1> QED BY <1>1, <1>5, <1>6, <1>7

LEMMA FoundInvCorrect == Spec => []FoundInv
<1>1. Init => FoundInv
  <2> SUFFICES ASSUME Init PROVE FoundInv
    OBVIOUS
  <2>1. RxInv
    <3>1. frame \in [Cell -> Byte]
      BY FrameConstants DEF Init, Byte
    <3> QED BY <3>1, FrameConstants DEF Init, RxInv, TypeOK, FillBound, Byte
  <2>2. /\ state = "IDLE" /\ accepted = {} /\ gaps = {} /\ stream = <<>>
        /\ Len(stream) = 0
    BY DEF Init
  <2>3. Content /\ Past /\ SoundAt
    BY <2>2 DEF Content, Past, SoundAt
  <2>4. Fresh = {1}
    BY <2>2 DEF Fresh
  <2>5. Tracked
    BY <2>2, <2>4 DEF Tracked
  <2>6. CompleteAt
    BY <2>2, <2>4 DEF CompleteAt
  <2> QED BY <2>1, <2>3, <2>5, <2>6 DEF FoundInv
<1>2. FoundInv /\ [Next]_vars => FoundInv'
  <2> SUFFICES ASSUME FoundInv, [Next]_vars PROVE FoundInv'
    OBVIOUS
  <2>0. RxInv /\ Content /\ Past /\ SoundAt /\ Tracked /\ CompleteAt
    BY DEF FoundInv
  <2>1. CASE UNCHANGED vars
    <3> USE <2>1 DEF vars
    <3>1. RxInv'
      BY <2>0 DEF RxInv, TypeOK, FillBound, len
    <3>2. Content'
      BY <2>0 DEF Content, Preambled, Framed, LengthBad, len
    <3>3. Past'
      BY <2>0 DEF Past
    <3>4. SoundAt'
      BY <2>0 DEF SoundAt
    <3>5. Tracked'
      BY <2>0, Zenon DEF Tracked, Fresh, Begun, Waiting
    <3>6. CompleteAt'
      BY <2>0, Zenon DEF CompleteAt, Fresh
    <3> QED BY <3>1, <3>2, <3>3, <3>4, <3>5, <3>6 DEF FoundInv
  <2>2. ASSUME NEW b \in Byte, NEW gap \in BOOLEAN, Receive(b, gap)
        PROVE  FoundInv'
    <3>1. Grows(b, gap) /\ (Hunt(Reset(gap), b) \/ (Reset(gap) = "FRAME" /\ Collect(b)))
      BY <2>2 DEF Receive, Grows
    <3>2. Reset(gap) = "FRAME" => state = "FRAME" /\ ~gap
      BY DEF Reset
    <3>3. RxInv'
      BY <2>0, <3>1, <3>2, HuntInv, CollectInv DEF Grows
    <3>4. Content'
      <4>1. CASE Hunt(Reset(gap), b)
        BY <2>0, <3>1, <4>1, HuntContent
      <4>2. CASE Reset(gap) = "FRAME" /\ Collect(b)
        <5>1. Grows(b, FALSE)
          BY <3>1, <3>2, <4>2 DEF Grows
        <5> QED BY <2>0, <3>2, <4>2, <5>1, CollectContent
      <4> QED BY <3>1, <4>1, <4>2
    <3>5. Past' /\ SoundAt'
      BY <2>0, <3>1, AcceptedSound
    <3>6. Tracked'
      BY <2>0, <3>1, TrackedStep
    <3>7. CompleteAt'
      BY <2>0, <3>1, CompleteStep
    <3> QED BY <3>3, <3>4, <3>5, <3>6, <3>7 DEF FoundInv
  <2> QED BY <2>1, <2>2 DEF Next
<1> QED BY <1>1, <1>2, PTL DEF Spec

(* Whatever the bus carries, what is accepted is a frame of the stream,    *)
(* byte by byte: nothing of an earlier frame, of noise or of the bytes     *)
(* before a silence is left in it.                                         *)
THEOREM SoundCorrect == Spec => []Sound
<1>1. FoundInv => Sound
  <2> SUFFICES ASSUME FoundInv, NEW a \in accepted
               PROVE  /\ WellFormed(SubSeq(stream, a.from, a.to))
                      /\ gaps \cap (a.from + 1)..a.to = {}
    BY DEF Sound
  <2>1. stream \in Seq(Byte) /\ accepted \subseteq [from : Nat, to : Nat]
    BY DEF FoundInv, RxInv, TypeOK
  <2>2. a.from \in Nat /\ a.to \in Nat /\ a.from >= 1 /\ a.to =< Len(stream)
    BY <2>1 DEF FoundInv, Past
  <2>3. /\ FrameAt(stream, a.from, a.to)
        /\ a.from + PREAMBLE_SIZE + HDR_SIZE =< a.to
        /\ gaps \cap (a.from + 1)..a.to = {}
    BY DEF FoundInv, SoundAt
  <2>4. WellFormed(SubSeq(stream, a.from, a.to))
    BY <2>1, <2>2, <2>3, WellFormedAt
  <2> QED BY <2>3, <2>4
<1> QED BY <1>1, FoundInvCorrect, PTL

(* Whatever the bus carries, a frame that follows a silence or another     *)
(* frame is accepted.                                                      *)
THEOREM CompleteCorrect == Spec => []Complete
<1>1. FoundInv => Complete
  <2> SUFFICES ASSUME FoundInv, NEW i \in Fresh, NEW j \in i..Len(stream),
                      WellFormed(SubSeq(stream, i, j)),
                      gaps \cap (i + 1)..j = {}
               PROVE  [from |-> i, to |-> j] \in accepted
    BY DEF Complete
  <2>1. /\ stream \in Seq(Byte) /\ Len(stream) \in Nat
        /\ gaps \subseteq 1..Len(stream)
        /\ accepted \subseteq [from : Nat, to : Nat]
    BY DEF FoundInv, RxInv, TypeOK
  <2>2. i \in Nat /\ i >= 1
    BY <2>1 DEF Fresh
  <2>3. j \in Nat /\ j =< Len(stream) /\ i =< j + 1
    BY <2>1, <2>2
  <2>4. i + PREAMBLE_SIZE + HDR_SIZE =< j
    BY <2>1, <2>2, <2>3, WellFormedLong
  <2>5. FrameAt(stream, i, j)
    BY <2>1, <2>2, <2>3, <2>4, WellFormedAt
  <2> QED BY <2>4, <2>5 DEF FoundInv, CompleteAt
<1> QED BY <1>1, FoundInvCorrect, PTL

=============================================================================

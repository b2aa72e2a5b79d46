------------------------------ MODULE McuFrames ------------------------------
(***************************************************************************)
(* The receiver of the controller's serial line: MCU2UI (protocol/mcu_ui.h)*)
(* driven by UartClient::onUartData.  A frame is a head, the number n of   *)
(* its data bytes, the data, the sum of all these, and the end byte.  The  *)
(* line hands over its bytes in chunks of any size; a few of them may be   *)
(* disturbed.                                                              *)
(*                                                                         *)
(* Bytes are numbers below Base instead of 256, and the buffer is shorter, *)
(* so that a length byte too large for the buffer is still a byte.         *)
(***************************************************************************)
EXTENDS Naturals, Sequences, SequencesExt

CONSTANTS
    Base,       \* 256
    Heads,      \* HEAD_BYTE and HEAD_BYTE_ACTIVE
    End,        \* END_BYTE
    BufLen,     \* BUF_LEN
    Data,       \* the data bytes the controller sends
    MaxData,    \* at most so many in a frame
    MaxLine,    \* bound on the bytes on their way
    MaxNoise    \* bound on the bytes disturbed

Byte == 0..Base - 1

ASSUME BytesAssumption ==
    Base \in Nat \ {0} /\ Heads \subseteq Byte /\ End \in Byte /\ Data \subseteq Byte
ASSUME NoiseAssumption == MaxNoise \in Nat
ASSUME SizeAssumption ==
    MaxData \in Nat /\ BufLen \in Nat /\ MaxData + 4 <= BufLen /\ MaxData < Base

VARIABLES
    line,       \* sent by the controller, not yet read
    buf,        \* mCurrRecv: the first len bytes of its buffer
    got,        \* the frames given to onCommand by the last reading
    queue,      \* what was sent since the start and should still come
    noise       \* the number of bytes disturbed

vars == <<line, buf, got, queue, noise>>

\* Sum(): the type of its result wraps.
Sum(s) ==
    LET upTo[i \in 0..Len(s)] == IF i = 0 THEN 0 ELSE (upTo[i - 1] + s[i]) % Base
    IN  upTo[Len(s)]

Prefix(s, k) == SubSeq(s, 1, k)
From(s, k) == SubSeq(s, k, Len(s))

RealLen(b) == b[2] + 4

Payloads == UNION {[1..n -> Data] : n \in 1..MaxData}

\* A frame as the controller sends it.
Frame(h, p) == LET f == <<h, Len(p)>> \o p IN f \o <<Sum(f), End>>

Frames == {Frame(h, p) : h \in Heads, p \in Payloads}
-----------------------------------------------------------------------------
(* MCU2UI.                                                                 *)

\* Mutant: what precedes the head is kept.
FromHead_KeepsAll(b) == b

\* The search for the head, done once in a call of add.
FromHead(b) ==
    LET at == {i \in DOMAIN b : b[i] \in Heads}
    IN  IF at = {} THEN << >> ELSE From(b, Min(at))

\* Mutant: the bytes already there are forgotten.
Room_Whole(b) == BufLen

Room(b) == BufLen - Len(b)

\* The state of add: the buffer, the chunk bf, how much of it was read, find_head.
Adding == [buf : Seq(Byte), bf : Seq(Byte), rlen : Nat, found : BOOLEAN]

\* One round of its loop: fill the buffer, look for a head until one was found.
Round(r) ==
    LET k == Min({Room(r.buf), Len(r.bf) - r.rlen})
        full == r.buf \o SubSeq(r.bf, r.rlen + 1, r.rlen + k)
        looks == ~r.found /\ Len(full) > 1
        kept == IF looks THEN FromHead(full) ELSE full
    IN  [r EXCEPT !.buf = kept, !.rlen = @ + k, !.found = @ \/ (looks /\ kept # << >>)]

Fill[r \in Adding] ==
    IF Len(r.buf) >= BufLen \/ r.rlen >= Len(r.bf) THEN r ELSE Fill[Round(r)]

\* Mutant: what follows the frame is taken for read.
Excess_None(r) == 0

\* Bytes in the buffer that follow the frame: they are to be added again.
Excess(r) ==
    IF r.found /\ Len(r.buf) > 4 /\ Len(r.buf) > RealLen(r.buf) THEN Len(r.buf) - RealLen(r.buf) ELSE 0

Trim[r \in Adding] == [r EXCEPT !.rlen = IF @ > Excess(r) THEN @ - Excess(r) ELSE 0]

\* add(): the buffer in the end, and how much of the chunk is taken for read.
Add(b, c) == Trim[Fill[[buf |-> b, bf |-> c, rlen |-> 0, found |-> FALSE]]]

\* Mutant: a frame is complete with the byte that follows it.
Complete_Later(b) == Len(b) > 4 /\ b[1] \in Heads /\ Len(b) > RealLen(b)

Complete(b) == Len(b) > 4 /\ b[1] \in Heads /\ Len(b) >= RealLen(b)

\* check(): the sum is not compared with the byte sent, it only must not be zero.
Check(b) == Sum(Prefix(b, b[2] + 2)) # 0 /\ b[b[2] + 4] = End

\* What is given to onCommand.
Handed(b) == IF Check(b) THEN <<Prefix(b, RealLen(b))>> ELSE << >>

\* The loop of onUartData, after an add: the buffer in the end, and the frames handed on.
Deal[a \in Adding] ==
    IF ~Complete(a.buf) THEN [buf |-> a.buf, got |-> << >>]
    ELSE LET r == IF a.rlen >= Len(a.bf) THEN [buf |-> << >>, got |-> << >>]
                  ELSE Deal[Add(<< >>, From(a.bf, a.rlen + 1))]
         IN  [buf |-> r.buf, got |-> Handed(a.buf) \o r.got]

OnUartData(b, c) == Deal[Add(b, c)]
-----------------------------------------------------------------------------
Init == line = << >> /\ buf = << >> /\ got = << >> /\ queue = << >> /\ noise = 0

\* The controller sends a frame.  One whose bytes add up to zero will be refused.
Send(f) ==
    /\ Len(line) + Len(f) <= MaxLine
    /\ line' = line \o f
    /\ queue' = IF noise = 0 /\ Check(f) THEN Append(queue, f) ELSE queue
    /\ got' = << >>
    /\ UNCHANGED <<buf, noise>>

\* handleEvents: read what there is and hand it to onRecvData.
Read ==
    /\ line # << >>
    /\ \E k \in 1..Len(line) :
          /\ line' = From(line, k + 1)
          /\ \E r \in {OnUartData(buf, Prefix(line, k))} :
                /\ buf' = r.buf /\ got' = r.got
                /\ queue' = IF noise = 0 THEN From(queue, Len(r.got) + 1) ELSE queue
    /\ UNCHANGED noise

\* A byte is lost, changed, or one comes from nowhere.
Disturb ==
    /\ noise < MaxNoise
    /\ \/ \E i \in DOMAIN line : line' = Prefix(line, i - 1) \o From(line, i + 1)
       \/ \E i \in DOMAIN line, x \in Byte : line' = [line EXCEPT ![i] = x]
       \/ \E x \in Byte : line' = Append(line, x)
    /\ noise' = noise + 1
    /\ queue' = << >> /\ got' = << >>
    /\ UNCHANGED buf

Next == Read \/ Disturb \/ \E f \in Frames : Send(f)

\* The line is polled; the controller reports again and again, and not only frames that
\* are refused.
Fairness == WF_vars(Read) /\ SF_vars(\E f \in Frames : Check(f) /\ Send(f))

Spec == Init /\ [][Next]_vars /\ Fairness
-----------------------------------------------------------------------------
TypeOK ==
    /\ line \in Seq(Byte) /\ buf \in Seq(Byte) /\ Len(buf) <= BufLen
    /\ queue \in Seq(Frames) /\ noise \in 0..MaxNoise
    /\ \A i \in DOMAIN got : got[i] \in Seq(Byte)

\* The buffer is full and the frame it began does not fit: add takes nothing more,
\* complete stays false, and the receiver never hears anything again.
Deaf == Len(buf) = BufLen /\ RealLen(buf) > BufLen

\* On an undisturbed line every frame read is delivered at once.
Prompt == noise = 0 /\ line = << >> => queue = << >> /\ buf = << >>

\* After its first byte the frame holds no byte that could be taken for a head.
Plain(f) == \A i \in 2..Len(f) : f[i] \notin Heads

\* Once the disturbances are over the receiver finds the frames again (mcu_ui.h:141),
\* unless one made it deaf or the controller goes on sending frames with a byte inside
\* that equals a head: taken for the head each time, it may keep a lost place lost.
\* However many such frames came before the last of them, it recovers.
Recovers ==
    \/ []<>(got # << >>)
    \/ <>[]Deaf
    \/ []<><<\E f \in Frames : ~Plain(f) /\ Send(f)>>_vars

Channel == INSTANCE FrameChannel WITH noisy <- noise > 0

\* On an undisturbed line the receiver is a channel, however the bytes are cut into
\* chunks.
KeepsChannel == Channel!Spec

\* The bytes of a frame that is handed on add up to its checksum.
SumsRight == \A i \in DOMAIN got : LET f == got[i] IN Sum(Prefix(f, f[2] + 2)) = f[f[2] + 3]
=============================================================================

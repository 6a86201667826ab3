-------------------------- MODULE ConsoleRelayProofs --------------------------
(***************************************************************************)
(* The safety half of ConsoleRelay's refinement of DuplexChannel, for any  *)
(* amount of data, any buffers and any number of pings: every step of the  *)
(* relay, of the sockets and of the two ends is a step of the channel or   *)
(* changes nothing the ends can see.  That the other end is closed in the  *)
(* end, and that everything arrives, is liveness and left to TLC.          *)
(*                                                                         *)
(* The n-th item of an end is n, so that order, loss and repetition show   *)
(* in the numbers: what lies in the four places between two ends continues *)
(* the count of what was received.                                         *)
(***************************************************************************)
EXTENDS ConsoleRelay, SequenceTheorems, TLAPS

Frame == [kind : {"data", "ping", "close"}, v : Nat]

Types ==
    /\ phase \in {"asked", "upgraded", "relaying", "over"}
    /\ up \in {"next", "write", "shutdown", "done"}
    /\ down \in {"read", "send", "close", "done"}
    /\ upBuf \in Seq(Nat) /\ downBuf \in Seq(Nat)
    /\ up = "write" => Len(upBuf) = 1
    /\ up # "write" => upBuf = <<>>
    /\ down # "send" => downBuf = <<>>
    /\ wsIn \in Seq(Frame)
    /\ tcpOut \in Seq(Nat) /\ tcpIn \in Seq(Nat) /\ wsOut \in Seq(Nat)
    /\ sent \in [{Client, Guest} -> Seq(Nat)]
    /\ got \in [{Client, Guest} -> Seq(Nat)]
    /\ open \in [{Client, Guest} -> BOOLEAN]

\* The sequence counts on from n.
From(s, n) == \A i \in 1..Len(s) : s[i] = n + i

\* What an end sends is 1, 2, 3, ... and so is what it received.
CountInv == \A e \in {Client, Guest} : From(sent[e], 0) /\ From(got[e], 0)

\* How far the items of an end have come on their way: read by the other end, in
\* the socket towards it, in the hand of the future that copies them.
UpSent    == Len(got[Guest]) + Len(tcpOut)
UpTaken   == UpSent + Len(upBuf)
DownSent  == Len(got[Client]) + Len(wsOut)
DownTaken == DownSent + Len(downBuf)

IsData(i) == wsIn[i].kind = "data"

\* The frames the client sent that wait to be read: in order, and without a gap
\* after those taken already.  Pings lie between them, so they are not counted
\* by their place.
WsInv ==
    /\ \A i, j \in 1..Len(wsIn) : i < j /\ IsData(i) /\ IsData(j) => wsIn[i].v < wsIn[j].v
    /\ \A i \in 1..Len(wsIn) : IsData(i) =>
         /\ UpTaken < wsIn[i].v /\ wsIn[i].v <= Len(sent[Client])
         /\ \/ wsIn[i].v = UpTaken + 1
            \/ \E j \in 1..(i - 1) : IsData(j) /\ wsIn[j].v + 1 = wsIn[i].v
    /\ open[Client] =>
         \/ UpTaken = Len(sent[Client])
         \/ \E i \in 1..Len(wsIn) : IsData(i) /\ wsIn[i].v = Len(sent[Client])

UpInv ==
    /\ From(tcpOut, Len(got[Guest])) /\ From(upBuf, UpSent)
    /\ UpTaken <= Len(sent[Client])
    /\ phase # "over" /\ up \in {"next", "write"} => WsInv

DownInv ==
    /\ From(wsOut, Len(got[Client])) /\ From(downBuf, DownSent)
    /\ DownTaken <= Len(sent[Guest])
    /\ phase # "over" /\ down \in {"read", "send"} =>
         /\ From(tcpIn, DownTaken)
         /\ DownTaken + Len(tcpIn) <= Len(sent[Guest])
         /\ open[Guest] => DownTaken + Len(tcpIn) = Len(sent[Guest])

IInv == Types /\ CountInv /\ UpInv /\ DownInv

USE RelayAssumption

-----------------------------------------------------------------------------
(* Sequences that count                                                    *)

\* Appending the next number, or a sequence that continues, keeps the count.
LEMMA FromConcat ==
  ASSUME NEW s \in Seq(Nat), NEW t \in Seq(Nat), NEW n \in Nat,
         From(s, n), From(t, n + Len(s))
  PROVE  s \o t \in Seq(Nat) /\ Len(s \o t) = Len(s) + Len(t) /\ From(s \o t, n)
<1>1. /\ s \o t \in Seq(Nat) /\ Len(s \o t) = Len(s) + Len(t)
      /\ \A i \in 1..Len(s) + Len(t) : (s \o t)[i] = IF i <= Len(s) THEN s[i] ELSE t[i - Len(s)]
  BY ConcatProperties
<1>2. ASSUME NEW i \in 1..Len(s) + Len(t) PROVE (s \o t)[i] = n + i
  <2>1. Len(s) \in Nat /\ Len(t) \in Nat OBVIOUS
  <2>2. CASE i <= Len(s)
    BY <1>1, <2>1, <2>2 DEF From
  <2>3. CASE ~(i <= Len(s))
    <3>1. i - Len(s) \in 1..Len(t) BY <2>1, <2>3
    <3> QED BY <1>1, <2>1, <2>3, <3>1 DEF From
  <2> QED BY <2>2, <2>3
<1> QED BY <1>1, <1>2 DEF From

LEMMA FromAppend ==
  ASSUME NEW s \in Seq(Nat), NEW n \in Nat, From(s, n)
  PROVE  /\ Append(s, n + Len(s) + 1) \in Seq(Nat)
         /\ Len(Append(s, n + Len(s) + 1)) = Len(s) + 1
         /\ From(Append(s, n + Len(s) + 1), n)
BY DEF From

\* Two sequences of a length that count from the same number are equal.
LEMMA FromEqual ==
  ASSUME NEW s \in Seq(Nat), NEW t \in Seq(Nat), NEW n \in Nat, Len(s) = Len(t),
         From(s, n), From(t, n)
  PROVE  s = t
BY SeqEqual DEF From

\* The tail counts on from the head.
LEMMA FromTail ==
  ASSUME NEW s \in Seq(Nat), s # <<>>, NEW n \in Nat, From(s, n)
  PROVE  /\ Head(s) = n + 1 /\ Tail(s) \in Seq(Nat)
         /\ Len(Tail(s)) = Len(s) - 1 /\ Len(s) >= 1 /\ From(Tail(s), n + 1)
<1>1. Len(s) \in Nat /\ Len(s) >= 1 BY EmptySeq
<1>2. /\ Head(s) = s[1] /\ Tail(s) \in Seq(Nat) /\ Len(Tail(s)) = Len(s) - 1
      /\ \A i \in 1..(Len(s) - 1) : Tail(s)[i] = s[i + 1]
  BY HeadTailProperties
<1> QED BY <1>1, <1>2 DEF From

\* A prefix and the rest after it.
LEMMA FromCut ==
  ASSUME NEW s \in Seq(Nat), NEW n \in Nat, From(s, n), NEW m \in 1..Len(s)
  PROVE  /\ SubSeq(s, 1, m) \in Seq(Nat) /\ Len(SubSeq(s, 1, m)) = m
         /\ From(SubSeq(s, 1, m), n)
         /\ SubSeq(s, m + 1, Len(s)) \in Seq(Nat)
         /\ Len(SubSeq(s, m + 1, Len(s))) = Len(s) - m
         /\ From(SubSeq(s, m + 1, Len(s)), n + m)
<1>1. Len(s) \in Nat /\ m \in Nat /\ m <= Len(s) /\ \A i \in 1..Len(s) : s[i] = n + i /\ s[i] \in Nat
  BY DEF From
<1>2. /\ SubSeq(s, 1, m) \in Seq(Nat) /\ Len(SubSeq(s, 1, m)) = m
      /\ \A i \in 1..m : SubSeq(s, 1, m)[i] = s[i]
  <2>1. \A i \in 1..m : s[i] \in Nat BY <1>1
  <2>2. /\ SubSeq(s, 1, m) \in Seq(Nat)
        /\ Len(SubSeq(s, 1, m)) = IF 1 <= m THEN m - 1 + 1 ELSE 0
        /\ \A i \in 1 .. m - 1 + 1 : SubSeq(s, 1, m)[i] = s[1 + i - 1]
    BY <1>1, <2>1, SubSeqProperties
  <2> QED BY <1>1, <2>2
<1>3. /\ SubSeq(s, m + 1, Len(s)) \in Seq(Nat)
      /\ Len(SubSeq(s, m + 1, Len(s))) = Len(s) - m
      /\ \A i \in 1..(Len(s) - m) : SubSeq(s, m + 1, Len(s))[i] = s[m + i]
  <2>1. \A i \in m + 1 .. Len(s) : s[i] \in Nat BY <1>1
  <2>2. /\ SubSeq(s, m + 1, Len(s)) \in Seq(Nat)
        /\ Len(SubSeq(s, m + 1, Len(s))) = IF m + 1 <= Len(s) THEN Len(s) - (m + 1) + 1 ELSE 0
        /\ \A i \in 1 .. Len(s) - (m + 1) + 1 : SubSeq(s, m + 1, Len(s))[i] = s[m + 1 + i - 1]
    BY <1>1, <2>1, SubSeqProperties
  <2> QED BY <1>1, <2>2
<1> QED BY <1>1, <1>2, <1>3 DEF From

-----------------------------------------------------------------------------
(* What a step leaves alone                                                *)

upState   == <<up, upBuf, tcpOut, got[Guest], sent[Client]>>
downState == <<down, downBuf, wsOut, got[Client], sent[Guest]>>

\* A direction is not disturbed by the other, nor by an end that closes.
LEMMA UpStays ==
  ASSUME UpInv, UNCHANGED upState, phase' = "over" \/ (phase # "over" /\ wsIn' = wsIn),
         open'[Client] => open[Client]
  PROVE  UpInv'
BY DEF UpInv, upState, WsInv, IsData, UpTaken, UpSent, From

LEMMA DownStays ==
  ASSUME DownInv, UNCHANGED downState, phase' = "over" \/ (phase # "over" /\ tcpIn' = tcpIn),
         open'[Guest] => open[Guest]
  PROVE  DownInv'
BY DEF DownInv, downState, DownTaken, DownSent, From

LEMMA CountStays ==
  ASSUME CountInv, UNCHANGED <<sent, got>>
  PROVE  CountInv'
BY DEF CountInv, From

\* An end that closes: a step of the channel, or none if it was closed.
LEMMA CloseMaps ==
  ASSUME Types, NEW e \in {Client, Guest}, Closes(e), UNCHANGED <<sent, got>>
  PROVE  [Channel!Next]_(Channel!chanVars)
<1>1. CASE open[e]
  <2>1. Channel!Close(e) BY <1>1 DEF Channel!Close, Closes
  <2> QED BY <2>1 DEF Channel!Next, Channel!Ends
<1>2. CASE ~open[e]
  <2>1. open' = open BY <1>2 DEF Types, Closes
  <2> QED BY <2>1 DEF Channel!chanVars
<1> QED BY <1>1, <1>2

LEMMA StutterMaps ==
  ASSUME UNCHANGED ends
  PROVE  [Channel!Next]_(Channel!chanVars)
BY DEF ends, Channel!chanVars

Maps == [Channel!Next]_(Channel!chanVars)

-----------------------------------------------------------------------------
(* The steps                                                               *)

LEMMA ReadWsKeeps ==
  ASSUME IInv, ReadWs
  PROVE  IInv' /\ Maps
<1>0. Types /\ CountInv /\ UpInv /\ DownInv /\ UNCHANGED ends BY DEF IInv, ReadWs
<1>1. /\ phase = "relaying" /\ phase' = phase /\ up = "next" /\ upBuf = <<>>
      /\ UNCHANGED <<down, downBuf, tcpOut, tcpIn, wsOut, sent, got, open>>
  BY <1>0 DEF ReadWs, Types, ends
<1>2. /\ Len(wsIn) \in Nat \ {0} /\ Head(wsIn) = wsIn[1] /\ Head(wsIn) \in Frame
      /\ wsIn' \in Seq(Frame) /\ Len(wsIn') = Len(wsIn) - 1
      /\ \A i \in 1..Len(wsIn') : wsIn'[i] = wsIn[i + 1]
  BY <1>0, HeadTailProperties, EmptySeq DEF ReadWs, Types
<1>3. WsInv BY <1>0, <1>1 DEF UpInv
<1>4. /\ Len(got[Guest]) \in Nat /\ Len(tcpOut) \in Nat /\ UpTaken = UpSent /\ UpSent \in Nat
      /\ Len(sent[Client]) \in Nat /\ UpSent' = UpSent
  BY <1>0, <1>1 DEF Types, UpTaken, UpSent
<1>5. CASE Head(wsIn).kind = "data"
  <2>1. up' = "write" /\ upBuf' = <<Head(wsIn).v>> BY <1>5 DEF ReadWs
  <2>2. IsData(1) /\ Head(wsIn).v \in Nat BY <1>2, <1>5 DEF IsData, Frame
  <2>3. Head(wsIn).v = UpTaken + 1 /\ Head(wsIn).v <= Len(sent[Client])
    BY <1>2, <1>3, <2>2 DEF WsInv
  <2>4. UpTaken' = UpTaken + 1 BY <1>4, <2>1 DEF UpTaken
  <2>5. \A i \in 1..Len(wsIn') : IsData(i)' <=> IsData(i + 1) BY <1>2 DEF IsData
  <2>6. WsInv'
    <3>1. \A i, j \in 1..Len(wsIn') : i < j /\ IsData(i)' /\ IsData(j)' => wsIn'[i].v < wsIn'[j].v
      <4>1. SUFFICES ASSUME NEW i \in 1..Len(wsIn'), NEW j \in 1..Len(wsIn'),
                            i < j, IsData(i)', IsData(j)'
                     PROVE  wsIn'[i].v < wsIn'[j].v
        OBVIOUS
      <4>2. /\ i + 1 \in 1..Len(wsIn) /\ j + 1 \in 1..Len(wsIn) /\ i + 1 < j + 1
            /\ wsIn'[i] = wsIn[i + 1] /\ wsIn'[j] = wsIn[j + 1]
        BY <1>2, <4>1
      <4>3. IsData(i + 1) /\ IsData(j + 1) BY <2>5, <4>1
      <4>4. wsIn[i + 1].v < wsIn[j + 1].v BY <1>3, <4>2, <4>3 DEF WsInv
      <4> QED BY <4>2, <4>4
    <3>2. ASSUME NEW i \in 1..Len(wsIn'), IsData(i)'
          PROVE  /\ UpTaken' < wsIn'[i].v /\ wsIn'[i].v <= Len(sent[Client])
                 /\ \/ wsIn'[i].v = UpTaken' + 1
                    \/ \E j \in 1..(i - 1) : IsData(j)' /\ wsIn'[j].v + 1 = wsIn'[i].v
      <4>1. /\ i + 1 \in 1..Len(wsIn) /\ IsData(i + 1) /\ wsIn'[i] = wsIn[i + 1]
            /\ wsIn[1].v < wsIn[i + 1].v /\ wsIn[i + 1].v \in Nat
        <5>1. i + 1 \in 1..Len(wsIn) /\ wsIn'[i] = wsIn[i + 1] /\ 1 \in 1..Len(wsIn) /\ 1 < i + 1
          BY <1>2
        <5>2. IsData(i + 1) BY <2>5, <3>2
        <5>3. wsIn[1].v < wsIn[i + 1].v BY <1>3, <2>2, <5>1, <5>2 DEF WsInv
        <5>4. wsIn[i + 1] \in Frame BY <1>0, <5>1 DEF Types
        <5> QED BY <5>1, <5>2, <5>3, <5>4 DEF Frame
      <4>2. wsIn[i + 1].v # UpTaken + 1 BY <1>2, <1>4, <2>3, <4>1
      <4>3. PICK j \in 1..i : IsData(j) /\ wsIn[j].v + 1 = wsIn[i + 1].v
        BY <1>3, <4>1, <4>2 DEF WsInv
      <4>4. CASE j = 1
        BY <1>2, <1>3, <1>4, <2>3, <2>4, <4>1, <4>3, <4>4 DEF WsInv
      <4>5. CASE j # 1
        <5>1. j - 1 \in 1..(i - 1) /\ IsData(j - 1)' /\ wsIn'[j - 1] = wsIn[j]
          BY <1>2, <2>5, <4>3, <4>5
        <5> QED BY <1>2, <1>3, <1>4, <2>3, <2>4, <4>1, <4>3, <5>1 DEF WsInv
      <4> QED BY <4>4, <4>5
    <3>3. ASSUME open[Client]
          PROVE  \/ UpTaken' = Len(sent[Client])
                 \/ \E i \in 1..Len(wsIn') : IsData(i)' /\ wsIn'[i].v = Len(sent[Client])
      <4>1. UpTaken # Len(sent[Client]) BY <1>4, <2>3
      <4>2. PICK i \in 1..Len(wsIn) : IsData(i) /\ wsIn[i].v = Len(sent[Client])
        BY <1>3, <3>3, <4>1 DEF WsInv
      <4>3. CASE i = 1 BY <1>2, <1>4, <2>3, <2>4, <4>2, <4>3
      <4>4. CASE i # 1
        <5>1. i - 1 \in 1..Len(wsIn') /\ IsData(i - 1)' /\ wsIn'[i - 1] = wsIn[i]
          BY <1>2, <2>5, <4>2, <4>4
        <5> QED BY <4>2, <5>1
      <4> QED BY <4>3, <4>4
    <3> QED BY <1>1, <3>1, <3>2, <3>3 DEF WsInv
  <2>7. UpInv'
    <3>1. From(upBuf', UpSent) BY <1>4, <2>1, <2>3 DEF From
    <3>2. UpTaken' <= Len(sent[Client]) BY <1>4, <2>3, <2>4
    <3> QED BY <1>0, <1>1, <1>4, <2>6, <3>1, <3>2 DEF UpInv, From
  <2>8. Types' BY <1>0, <1>1, <1>2, <2>1, <2>2 DEF Types
  <2> QED BY <1>0, <1>1, <2>7, <2>8, DownStays, CountStays, StutterMaps
          DEF IInv, downState, Maps
<1>6. CASE Head(wsIn).kind = "close"
  <2>1. up' = "shutdown" /\ upBuf' = upBuf BY <1>6 DEF ReadWs
  <2>2. Types' BY <1>0, <1>1, <1>2, <2>1 DEF Types
  <2>3. UpInv' BY <1>0, <1>1, <2>1 DEF UpInv, UpTaken, UpSent, From
  <2> QED BY <1>0, <1>1, <2>2, <2>3, DownStays, CountStays, StutterMaps DEF IInv, downState, Maps
<1>7. CASE Head(wsIn).kind = "ping"
  <2>1. UNCHANGED <<up, upBuf>> BY <1>7 DEF ReadWs
  <2>2. Types' BY <1>0, <1>1, <1>2, <2>1 DEF Types
  <2>3. ~IsData(1) BY <1>2, <1>7 DEF IsData
  <2>4. /\ \A i \in 1..Len(wsIn') : IsData(i)' <=> IsData(i + 1)
        /\ UpTaken' = UpTaken
    BY <1>1, <1>2, <2>1 DEF IsData, UpTaken, UpSent
  <2>5. \A i \in 1..Len(wsIn) : IsData(i) => i - 1 \in 1..Len(wsIn') /\ IsData(i - 1)' /\ wsIn'[i - 1] = wsIn[i]
    BY <1>2, <2>3, <2>4
  <2>6. WsInv'
    <3>1. \A i, j \in 1..Len(wsIn') : i < j /\ IsData(i)' /\ IsData(j)' => wsIn'[i].v < wsIn'[j].v
      <4>1. SUFFICES ASSUME NEW i \in 1..Len(wsIn'), NEW j \in 1..Len(wsIn'),
                            i < j, IsData(i)', IsData(j)'
                     PROVE  wsIn'[i].v < wsIn'[j].v
        OBVIOUS
      <4>2. /\ i + 1 \in 1..Len(wsIn) /\ j + 1 \in 1..Len(wsIn) /\ i + 1 < j + 1
            /\ wsIn'[i] = wsIn[i + 1] /\ wsIn'[j] = wsIn[j + 1]
        BY <1>2, <4>1
      <4>3. IsData(i + 1) /\ IsData(j + 1) BY <2>4, <4>1
      <4>4. wsIn[i + 1].v < wsIn[j + 1].v BY <1>3, <4>2, <4>3 DEF WsInv
      <4> QED BY <4>2, <4>4
    <3>2. ASSUME NEW i \in 1..Len(wsIn'), IsData(i)'
          PROVE  /\ UpTaken < wsIn'[i].v /\ wsIn'[i].v <= Len(sent[Client])
                 /\ \/ wsIn'[i].v = UpTaken + 1
                    \/ \E j \in 1..(i - 1) : IsData(j)' /\ wsIn'[j].v + 1 = wsIn'[i].v
      <4>1. i + 1 \in 1..Len(wsIn) /\ IsData(i + 1) /\ wsIn'[i] = wsIn[i + 1]
        BY <1>2, <2>4, <3>2
      <4>2. CASE wsIn[i + 1].v = UpTaken + 1
        BY <1>3, <4>1, <4>2 DEF WsInv
      <4>3. CASE wsIn[i + 1].v # UpTaken + 1
        <5>1. PICK j \in 1..i : IsData(j) /\ wsIn[j].v + 1 = wsIn[i + 1].v
          BY <1>3, <4>1, <4>3 DEF WsInv
        <5>2. j - 1 \in 1..(i - 1) /\ IsData(j - 1)' /\ wsIn'[j - 1] = wsIn[j]
          BY <1>2, <2>3, <2>5, <5>1, j # 1
        <5> QED BY <1>3, <4>1, <5>1, <5>2 DEF WsInv
      <4> QED BY <4>2, <4>3
    <3>3. open[Client] => \/ UpTaken = Len(sent[Client])
                          \/ \E i \in 1..Len(wsIn') : IsData(i)' /\ wsIn'[i].v = Len(sent[Client])
      BY <1>3, <2>5 DEF WsInv
    <3> QED BY <1>1, <2>4, <3>1, <3>2, <3>3 DEF WsInv
  <2>7. UpInv' BY <1>0, <1>1, <2>1, <2>4, <2>6 DEF UpInv, UpSent, From
  <2> QED BY <1>0, <1>1, <2>2, <2>7, DownStays, CountStays, StutterMaps DEF IInv, downState, Maps
<1> QED BY <1>2, <1>5, <1>6, <1>7 DEF Frame

\* The frames that wait, while what was taken of them stays the same.
LEMMA WsStays ==
  ASSUME WsInv, wsIn' = wsIn, sent'[Client] = sent[Client], UpTaken' = UpTaken,
         open'[Client] => open[Client]
  PROVE  WsInv'
BY DEF WsInv, IsData

\* What Types says of the lengths.
LEMMA Lengths ==
  ASSUME Types
  PROVE  /\ Len(got[Guest]) \in Nat /\ Len(got[Client]) \in Nat
         /\ Len(sent[Guest]) \in Nat /\ Len(sent[Client]) \in Nat
         /\ Len(tcpOut) \in Nat /\ Len(wsOut) \in Nat /\ Len(tcpIn) \in Nat
         /\ Len(upBuf) \in Nat /\ Len(downBuf) \in Nat /\ Len(wsIn) \in Nat
         /\ UpSent \in Nat /\ UpTaken \in Nat /\ DownSent \in Nat /\ DownTaken \in Nat
<1>1. /\ got[Guest] \in Seq(Nat) /\ got[Client] \in Seq(Nat)
      /\ sent[Guest] \in Seq(Nat) /\ sent[Client] \in Seq(Nat)
  BY DEF Types
<1>2. \A q \in Seq(Nat) : Len(q) \in Nat BY LenProperties
<1>3. Len(wsIn) \in Nat BY LenProperties DEF Types
<1> QED BY <1>1, <1>2, <1>3 DEF Types, UpSent, UpTaken, DownSent, DownTaken

LEMMA WriteTcpKeeps ==
  ASSUME IInv, WriteTcp
  PROVE  IInv' /\ Maps
<1>0. Types /\ CountInv /\ UpInv /\ DownInv /\ UNCHANGED ends BY DEF IInv, WriteTcp
<1>1. /\ phase = "relaying" /\ phase' = phase /\ up = "write" /\ upBuf' = <<>>
      /\ UNCHANGED <<down, downBuf, wsIn, tcpIn, wsOut, sent, got, open>>
  BY <1>0 DEF WriteTcp, ends
<1>2. WsInv BY <1>0, <1>1 DEF UpInv
<1>3. CASE Len(tcpOut) < Buffer /\ tcpOut' = tcpOut \o upBuf /\ up' = "next"
  <2>1. /\ tcpOut' \in Seq(Nat) /\ Len(tcpOut') = Len(tcpOut) + Len(upBuf)
        /\ From(tcpOut', Len(got[Guest]))
    BY <1>0, <1>3, Lengths, FromConcat DEF Types, UpInv, UpSent
  <2>2. UpTaken' = UpTaken
    <3> DEFINE a == Len(got[Guest])  b == Len(tcpOut)  c == Len(upBuf)
    <3>1. a \in Nat /\ b \in Nat /\ c \in Nat BY <1>0, Lengths
    <3>2. UpTaken = a + b + c BY DEF UpTaken, UpSent
    <3>3. Len(upBuf') = 0 /\ got'[Guest] = got[Guest] /\ Len(tcpOut') = b + c BY <1>1, <2>1
    <3>4. UpTaken' = a + (b + c) + 0 BY <3>3 DEF UpTaken, UpSent
    <3> HIDE DEF a, b, c
    <3> QED BY <3>1, <3>2, <3>4
  <2>3. WsInv' BY <1>1, <1>2, <2>2, WsStays
  <2>4. From(upBuf', UpSent') BY <1>1 DEF From
  <2>5. UpInv' BY <1>0, <1>1, <2>1, <2>2, <2>3, <2>4 DEF UpInv
  <2>6. Types' BY <1>0, <1>1, <1>3, <2>1 DEF Types
  <2> QED BY <1>0, <1>1, <2>5, <2>6, DownStays, CountStays, StutterMaps DEF IInv, downState, Maps
<1>4. CASE up' = "shutdown" /\ tcpOut' = tcpOut
  <2>1. UpTaken' = UpSent /\ UpSent <= UpTaken
    BY <1>0, <1>1, <1>4, Lengths DEF UpTaken, UpSent
  <2>2. From(upBuf', UpSent') BY <1>1 DEF From
  <2>3. UpTaken' <= Len(sent[Client]) BY <1>0, <2>1, Lengths DEF UpInv
  <2>4. UpInv' BY <1>0, <1>1, <1>4, <2>2, <2>3 DEF UpInv, From
  <2>5. Types' BY <1>0, <1>1, <1>4 DEF Types
  <2> QED BY <1>0, <1>1, <2>4, <2>5, DownStays, CountStays, StutterMaps DEF IInv, downState, Maps
<1> QED BY <1>3, <1>4 DEF WriteTcp

LEMMA ShutdownKeeps ==
  ASSUME IInv, Shutdown
  PROVE  IInv' /\ Maps
<1>0. Types /\ CountInv /\ UpInv /\ DownInv /\ UNCHANGED ends BY DEF IInv, Shutdown
<1>1. /\ phase = "relaying" /\ phase' = phase /\ up = "shutdown" /\ up' = "done"
      /\ UNCHANGED <<down, upBuf, downBuf, wsIn, tcpOut, tcpIn, wsOut, sent, got, open>>
  BY <1>0 DEF Shutdown, sockets, ends
<1>2. Types' BY <1>0, <1>1 DEF Types
<1>3. UpInv' BY <1>0, <1>1 DEF UpInv, UpTaken, UpSent, From
<1> QED BY <1>0, <1>1, <1>2, <1>3, DownStays, CountStays, StutterMaps DEF IInv, downState, Maps

LEMMA ReadTcpKeeps ==
  ASSUME IInv, ReadTcp
  PROVE  IInv' /\ Maps
<1>0. Types /\ CountInv /\ UpInv /\ DownInv /\ UNCHANGED ends BY DEF IInv, ReadTcp
<1>1. /\ phase = "relaying" /\ phase' = phase /\ down = "read" /\ downBuf = <<>>
      /\ UNCHANGED <<up, upBuf, wsIn, tcpOut, wsOut, sent, got, open>>
  BY <1>0 DEF ReadTcp, ends, Types
<1>2. /\ DownTaken = DownSent /\ DownSent' = DownSent
      /\ From(tcpIn, DownTaken) /\ DownTaken + Len(tcpIn) <= Len(sent[Guest])
      /\ open[Guest] => DownTaken + Len(tcpIn) = Len(sent[Guest])
  BY <1>0, <1>1, Lengths DEF DownInv, DownTaken, DownSent
<1>3. ASSUME NEW n \in 1..Len(tcpIn), downBuf' = SubSeq(tcpIn, 1, n),
             tcpIn' = SubSeq(tcpIn, n + 1, Len(tcpIn)), down' = "send"
      PROVE  IInv' /\ Maps
  <2>1. /\ downBuf' \in Seq(Nat) /\ Len(downBuf') = n /\ From(downBuf', DownTaken)
        /\ tcpIn' \in Seq(Nat) /\ Len(tcpIn') = Len(tcpIn) - n
        /\ From(tcpIn', DownTaken + n)
    BY <1>0, <1>2, <1>3, Lengths, FromCut DEF Types
  <2>2. DownTaken' = DownTaken + n BY <1>2, <2>1 DEF DownTaken
  <2>3. n \in Nat /\ n <= Len(tcpIn) /\ Len(tcpIn) \in Nat /\ DownTaken \in Nat /\ Len(sent[Guest]) \in Nat
    BY <1>0, Lengths
  <2>4. From(downBuf', DownSent') BY <1>2, <2>1
  <2>5. From(tcpIn', DownTaken') BY <2>1, <2>2
  <2>6. /\ DownTaken' <= Len(sent[Guest])
        /\ DownTaken' + Len(tcpIn') = DownTaken + Len(tcpIn)
    BY <1>2, <2>1, <2>2, <2>3
  <2>7. From(wsOut, Len(got[Client])) BY <1>0 DEF DownInv
  <2>8. DownInv' BY <1>1, <1>2, <2>4, <2>5, <2>6, <2>7 DEF DownInv
  <2>9. Types' BY <1>0, <1>1, <1>3, <2>1 DEF Types
  <2> QED BY <1>0, <1>1, <2>8, <2>9, UpStays, CountStays, StutterMaps DEF IInv, upState, Maps
<1>4. CASE down' \in {"close", "done"} /\ UNCHANGED <<downBuf, tcpIn>>
  <2>1. Types' BY <1>0, <1>1, <1>4 DEF Types
  <2>2. DownInv' BY <1>0, <1>1, <1>4 DEF DownInv, DownTaken, DownSent, From
  <2> QED BY <1>0, <1>1, <2>1, <2>2, UpStays, CountStays, StutterMaps DEF IInv, upState, Maps
<1> QED BY <1>3, <1>4 DEF ReadTcp

LEMMA SendWsKeeps ==
  ASSUME IInv, SendWs
  PROVE  IInv' /\ Maps
<1>0. Types /\ CountInv /\ UpInv /\ DownInv /\ UNCHANGED ends BY DEF IInv, SendWs
<1>1. /\ phase = "relaying" /\ phase' = phase /\ down = "send" /\ downBuf' = <<>>
      /\ UNCHANGED <<up, upBuf, wsIn, tcpIn, tcpOut, sent, got, open>>
  BY <1>0 DEF SendWs, ends
<1>2. /\ From(tcpIn, DownTaken) /\ DownTaken + Len(tcpIn) <= Len(sent[Guest])
      /\ open[Guest] => DownTaken + Len(tcpIn) = Len(sent[Guest])
  BY <1>0, <1>1 DEF DownInv
<1>3. CASE Len(wsOut) < Buffer /\ wsOut' = wsOut \o downBuf /\ down' = "read"
  <2>1. /\ wsOut' \in Seq(Nat) /\ Len(wsOut') = Len(wsOut) + Len(downBuf)
        /\ From(wsOut', Len(got[Client]))
    BY <1>0, <1>3, Lengths, FromConcat DEF Types, DownInv, DownSent
  <2>2. DownTaken' = DownTaken
    <3> DEFINE a == Len(got[Client])  b == Len(wsOut)  c == Len(downBuf)
    <3>1. a \in Nat /\ b \in Nat /\ c \in Nat BY <1>0, Lengths
    <3>2. DownTaken = a + b + c BY DEF DownTaken, DownSent
    <3>3. Len(downBuf') = 0 /\ got'[Client] = got[Client] /\ Len(wsOut') = b + c BY <1>1, <2>1
    <3>4. DownTaken' = a + (b + c) + 0 BY <3>3 DEF DownTaken, DownSent
    <3> HIDE DEF a, b, c
    <3> QED BY <3>1, <3>2, <3>4
  <2>3. From(downBuf', DownSent') BY <1>1 DEF From
  <2>4. DownInv' BY <1>0, <1>1, <1>2, <2>1, <2>2, <2>3 DEF DownInv
  <2>5. Types' BY <1>0, <1>1, <1>3, <2>1 DEF Types
  <2> QED BY <1>0, <1>1, <2>4, <2>5, UpStays, CountStays, StutterMaps DEF IInv, upState, Maps
<1>4. CASE down' = "done" /\ wsOut' = wsOut
  <2>1. DownTaken' = DownSent /\ DownSent <= DownTaken
    BY <1>0, <1>1, <1>4, Lengths DEF DownTaken, DownSent
  <2>2. From(downBuf', DownSent') BY <1>1 DEF From
  <2>3. DownTaken' <= Len(sent[Guest]) BY <1>0, <2>1, Lengths DEF DownInv
  <2>4. DownInv' BY <1>0, <1>1, <1>4, <2>2, <2>3 DEF DownInv, From
  <2>5. Types' BY <1>0, <1>1, <1>4 DEF Types
  <2> QED BY <1>0, <1>1, <2>4, <2>5, UpStays, CountStays, StutterMaps DEF IInv, upState, Maps
<1> QED BY <1>3, <1>4 DEF SendWs

LEMMA SendCloseKeeps ==
  ASSUME IInv, SendClose
  PROVE  IInv' /\ Maps
<1>0. Types /\ CountInv /\ UpInv /\ DownInv /\ UNCHANGED ends BY DEF IInv, SendClose
<1>1. /\ phase = "relaying" /\ phase' = phase /\ down = "close" /\ down' = "done"
      /\ UNCHANGED <<up, upBuf, downBuf, wsIn, tcpOut, tcpIn, wsOut, sent, got, open>>
  BY <1>0 DEF SendClose, sockets, ends
<1>2. Types' BY <1>0, <1>1 DEF Types
<1>3. DownInv' BY <1>0, <1>1 DEF DownInv, DownTaken, DownSent, From
<1> QED BY <1>0, <1>1, <1>2, <1>3, UpStays, CountStays, StutterMaps DEF IInv, upState, Maps

LEMMA FinishKeeps ==
  ASSUME IInv, Finish
  PROVE  IInv' /\ Maps
<1>0. Types /\ CountInv /\ UpInv /\ DownInv /\ UNCHANGED ends BY DEF IInv, Finish
<1>1. /\ phase' = "over" /\ wsIn' = <<>> /\ tcpIn' = <<>>
      /\ UNCHANGED <<up, down, upBuf, downBuf, tcpOut, wsOut, sent, got, open>>
  BY <1>0 DEF Finish, futures, ends
<1>2. Types' BY <1>0, <1>1 DEF Types
<1> QED BY <1>0, <1>1, <1>2, UpStays, DownStays, CountStays, StutterMaps
        DEF IInv, upState, downState, Maps

\* The task before the relay: the destination is refused, or not reached, or the
\* relay begins.
LEMMA BeginKeeps ==
  ASSUME IInv, Resolve \/ Connect
  PROVE  IInv' /\ Maps
<1>0. Types /\ CountInv /\ UpInv /\ DownInv BY DEF IInv
<1>1. /\ phase # "over" /\ phase' \in {"upgraded", "relaying", "over"}
      /\ UNCHANGED <<up, down, upBuf, downBuf, wsIn, tcpIn, tcpOut, wsOut, sent, got>>
      /\ open' = open \/ Closes(Guest)
  BY DEF Resolve, Connect, futures, sockets
<1>2. open' \in [{Client, Guest} -> BOOLEAN] /\ \A e \in {Client, Guest} : open'[e] => open[e]
  BY <1>0, <1>1 DEF Types, Closes
<1>3. Types' BY <1>0, <1>1, <1>2 DEF Types
<1>4. Maps
  <2>1. CASE open' = open BY <1>1, <2>1, StutterMaps DEF Maps, ends
  <2>2. CASE Closes(Guest) BY <1>0, <1>1, <2>2, CloseMaps DEF Maps
  <2> QED BY <1>1, <2>1, <2>2
<1> QED BY <1>0, <1>1, <1>2, <1>3, <1>4, UpStays, DownStays, CountStays
        DEF IInv, upState, downState

\* A ping or a Close behind the waiting frames is none of the data.
LEMMA QuietFrame ==
  ASSUME Types, NEW f \in Frame, f.kind # "data", wsIn' = Append(wsIn, f), WsInv,
         UNCHANGED <<sent[Client], UpTaken>>, open'[Client] => open[Client]
  PROVE  WsInv'
<1>1. /\ Len(wsIn) \in Nat /\ Len(wsIn') = Len(wsIn) + 1 /\ wsIn'[Len(wsIn) + 1] = f
      /\ \A i \in 1..Len(wsIn) : wsIn'[i] = wsIn[i]
  BY AppendProperties, LenProperties DEF Types
<1>2. \A i \in 1..Len(wsIn') : IsData(i)' => i \in 1..Len(wsIn) BY <1>1 DEF IsData
<1>3. \A i \in 1..Len(wsIn) : i \in 1..Len(wsIn') /\ (IsData(i)' <=> IsData(i))
  BY <1>1 DEF IsData
<1>4. \A i, j \in 1..Len(wsIn') : i < j /\ IsData(i)' /\ IsData(j)' => wsIn'[i].v < wsIn'[j].v
  BY <1>1, <1>2, <1>3 DEF WsInv
<1>5. ASSUME NEW i \in 1..Len(wsIn'), IsData(i)'
      PROVE  /\ UpTaken < wsIn'[i].v /\ wsIn'[i].v <= Len(sent[Client])
             /\ \/ wsIn'[i].v = UpTaken + 1
                \/ \E j \in 1..(i - 1) : IsData(j)' /\ wsIn'[j].v + 1 = wsIn'[i].v
  <2>1. i \in 1..Len(wsIn) /\ IsData(i) /\ wsIn'[i] = wsIn[i] BY <1>1, <1>2, <1>3, <1>5
  <2>2. \A j \in 1..(i - 1) : wsIn'[j] = wsIn[j] /\ (IsData(j)' <=> IsData(j))
    BY <1>1, <1>3, <2>1
  <2> QED BY <2>1, <2>2 DEF WsInv
<1>6. open[Client] => \/ UpTaken = Len(sent[Client])
                      \/ \E i \in 1..Len(wsIn') : IsData(i)' /\ wsIn'[i].v = Len(sent[Client])
  BY <1>1, <1>3 DEF WsInv
<1> QED BY <1>4, <1>5, <1>6 DEF WsInv

\* WsInv of the next state, from its parts.
LEMMA WsParts ==
  ASSUME \A i, j \in 1..Len(wsIn') :
           i < j /\ IsData(i)' /\ IsData(j)' => wsIn'[i].v < wsIn'[j].v,
         \A i \in 1..Len(wsIn') : IsData(i)' =>
           /\ UpTaken' < wsIn'[i].v /\ wsIn'[i].v <= Len(sent'[Client])
           /\ \/ wsIn'[i].v = UpTaken' + 1
              \/ \E j \in 1..(i - 1) : IsData(j)' /\ wsIn'[j].v + 1 = wsIn'[i].v,
         \E i \in 1..Len(wsIn') : IsData(i)' /\ wsIn'[i].v = Len(sent'[Client])
  PROVE  WsInv'
BY DEF WsInv

\* The next item of the client behind the waiting frames continues them.
LEMMA DataFrame ==
  ASSUME Types, wsIn' = Append(wsIn, Data(Len(sent[Client]) + 1)), WsInv,
         open[Client], UpTaken' = UpTaken, UpTaken <= Len(sent[Client]),
         Len(sent'[Client]) = Len(sent[Client]) + 1
  PROVE  WsInv'
<1> DEFINE n == Len(sent[Client])
<1>0. Data(n + 1) \in Frame /\ n \in Nat /\ UpTaken \in Nat BY Lengths DEF Data, Frame
<1>1. /\ Len(wsIn) \in Nat /\ Len(wsIn') = Len(wsIn) + 1 /\ wsIn'[Len(wsIn) + 1] = Data(n + 1)
      /\ \A i \in 1..Len(wsIn) : wsIn'[i] = wsIn[i]
  BY <1>0, AppendProperties, LenProperties DEF Types
<1>2. wsIn'[Len(wsIn) + 1].kind = "data" /\ wsIn'[Len(wsIn) + 1].v = n + 1 BY <1>1 DEF Data
<1>3. \A i \in 1..Len(wsIn) : wsIn[i].v \in Nat /\ (IsData(i)' <=> IsData(i))
  <2>1. \A i \in 1..Len(wsIn) : wsIn[i] \in Frame BY DEF Types
  <2> QED BY <1>1, <2>1 DEF IsData, Frame
<1>4. \A i \in 1..Len(wsIn') : i = Len(wsIn) + 1 \/ i \in 1..Len(wsIn) BY <1>1
<1>5. \A i \in 1..Len(wsIn) : IsData(i) => UpTaken < wsIn[i].v /\ wsIn[i].v <= n
  BY DEF WsInv
<1>6. ASSUME NEW i \in 1..Len(wsIn'), NEW j \in 1..Len(wsIn'), i < j, IsData(i)', IsData(j)'
      PROVE  wsIn'[i].v < wsIn'[j].v
  <2>1. i \in 1..Len(wsIn) BY <1>1, <1>6
  <2>2. CASE j \in 1..Len(wsIn) BY <1>1, <1>3, <1>6, <2>1, <2>2 DEF WsInv
  <2>3. CASE j = Len(wsIn) + 1
    <3>1. wsIn[i].v <= n /\ wsIn[i].v \in Nat /\ wsIn'[i] = wsIn[i] BY <1>1, <1>3, <1>5, <1>6, <2>1
    <3> QED BY <1>0, <1>2, <2>3, <3>1
  <2> QED BY <1>4, <2>2, <2>3
<1>7. ASSUME NEW i \in 1..Len(wsIn'), IsData(i)'
      PROVE  /\ UpTaken < wsIn'[i].v /\ wsIn'[i].v <= n + 1
             /\ \/ wsIn'[i].v = UpTaken + 1
                \/ \E j \in 1..(i - 1) : IsData(j)' /\ wsIn'[j].v + 1 = wsIn'[i].v
  <2>1. CASE i \in 1..Len(wsIn)
    <3>1. IsData(i) /\ wsIn'[i] = wsIn[i] /\ wsIn[i].v \in Nat BY <1>1, <1>3, <1>7, <2>1
    <3>2. \A j \in 1..(i - 1) : wsIn'[j] = wsIn[j] /\ (IsData(j)' <=> IsData(j))
      BY <1>1, <1>3, <2>1
    <3>3. UpTaken < wsIn[i].v /\ wsIn[i].v <= n BY <1>5, <2>1, <3>1
    <3>4. \/ wsIn[i].v = UpTaken + 1
          \/ \E j \in 1..(i - 1) : IsData(j) /\ wsIn[j].v + 1 = wsIn[i].v
      BY <2>1, <3>1 DEF WsInv
    <3>5. wsIn[i].v <= n + 1 BY <1>0, <3>1, <3>3
    <3> QED BY <3>1, <3>2, <3>3, <3>4, <3>5
  <2>2. CASE i = Len(wsIn) + 1
    <3>1. UpTaken < n + 1 BY <1>0
    <3>2. CASE UpTaken = n BY <1>0, <1>2, <2>2, <3>1, <3>2
    <3>3. CASE UpTaken # n
      <4>1. PICK j \in 1..Len(wsIn) : IsData(j) /\ wsIn[j].v = n BY <3>3 DEF WsInv
      <4>2. j \in 1..(i - 1) /\ IsData(j)' /\ wsIn'[j].v = n BY <1>1, <1>3, <2>2, <4>1
      <4> QED BY <1>0, <1>2, <2>2, <3>1, <4>2
    <3> QED BY <3>2, <3>3
  <2> QED BY <1>4, <2>1, <2>2
<1>8. \E i \in 1..Len(wsIn') : IsData(i)' /\ wsIn'[i].v = n + 1
  BY <1>1, <1>2 DEF IsData
<1>9. UpTaken' = UpTaken /\ Len(sent'[Client]) = n + 1 OBVIOUS
<1>10. \A i, j \in 1..Len(wsIn') : i < j /\ IsData(i)' /\ IsData(j)' => wsIn'[i].v < wsIn'[j].v
  BY <1>6
<1>11. \A i \in 1..Len(wsIn') : IsData(i)' =>
         /\ UpTaken' < wsIn'[i].v /\ wsIn'[i].v <= Len(sent'[Client])
         /\ \/ wsIn'[i].v = UpTaken' + 1
            \/ \E j \in 1..(i - 1) : IsData(j)' /\ wsIn'[j].v + 1 = wsIn'[i].v
  BY <1>7, <1>9
<1>12. \E i \in 1..Len(wsIn') : IsData(i)' /\ wsIn'[i].v = Len(sent'[Client])
  BY <1>8, <1>9
<1> QED BY <1>10, <1>11, <1>12, WsParts

LEMMA ClientSendsKeeps ==
  ASSUME IInv, ClientSends
  PROVE  IInv' /\ Maps
<1>0. Types /\ CountInv /\ UpInv /\ DownInv BY DEF IInv
<1>1. /\ phase \in {"upgraded", "relaying"} /\ phase' = phase /\ open[Client]
      /\ UNCHANGED <<up, down, upBuf, downBuf, tcpOut, tcpIn, wsOut, got, open>>
  BY DEF ClientSends, futures
<1>2. UpTaken' = UpTaken /\ UpSent' = UpSent BY <1>1 DEF UpTaken, UpSent
<1>3. CASE /\ Len(sent[Client]) < MaxSent
           /\ sent' = [sent EXCEPT ![Client] = Append(@, Len(@) + 1)]
           /\ wsIn' = Append(wsIn, Data(Len(sent[Client]) + 1))
  <2>1. /\ sent[Client] \in Seq(Nat) /\ From(sent[Client], 0) BY <1>0 DEF Types, CountInv
  <2>2. /\ sent'[Client] = Append(sent[Client], Len(sent[Client]) + 1)
        /\ sent'[Guest] = sent[Guest]
    BY <1>0, <1>3 DEF Types
  <2>3. /\ sent'[Client] \in Seq(Nat) /\ Len(sent'[Client]) = Len(sent[Client]) + 1
        /\ From(sent'[Client], 0)
    BY <2>1, <2>2, FromAppend
  <2>4. sent' \in [{Client, Guest} -> Seq(Nat)]
    BY <1>0, <1>3, <2>2, <2>3 DEF Types
  <2>5. CountInv' BY <1>0, <1>1, <2>2, <2>3 DEF CountInv
  <2>6. Data(Len(sent[Client]) + 1) \in Frame BY <1>0, Lengths DEF Data, Frame
  <2>7. wsIn' \in Seq(Frame) BY <1>0, <1>3, <2>6, AppendProperties DEF Types
  <2>8. Types' BY <1>0, <1>1, <2>4, <2>7 DEF Types
  <2>9. UpTaken' <= Len(sent'[Client])
    BY <1>0, <1>2, <2>3, Lengths DEF UpInv
  <2>10. WsInv => WsInv' BY <1>0, <1>1, <1>2, <1>3, <2>3, DataFrame DEF UpInv
  <2>11. UpInv' BY <1>0, <1>1, <1>2, <2>9, <2>10 DEF UpInv
  <2>12. DownInv' BY <1>0, <1>1, <2>2, DownStays DEF downState
  <2>13. Channel!Send(Client) BY <1>1, <1>3 DEF Channel!Send
  <2>14. Maps BY <2>13 DEF Maps, Channel!Next, Channel!Ends
  <2> QED BY <2>5, <2>8, <2>11, <2>12, <2>14 DEF IInv
<1>4. CASE wsIn' = Append(wsIn, Ping) /\ sent' = sent
  <2>1. Ping \in Frame /\ Ping.kind # "data" BY DEF Ping, Frame
  <2>2. wsIn' \in Seq(Frame) BY <1>0, <1>4, <2>1, AppendProperties DEF Types
  <2>3. Types' BY <1>0, <1>1, <1>4, <2>2 DEF Types
  <2>4. WsInv => WsInv' BY <1>0, <1>1, <1>2, <1>4, <2>1, QuietFrame
  <2>5. UpInv' BY <1>0, <1>1, <1>2, <1>4, <2>4 DEF UpInv
  <2>6. Maps BY <1>1, <1>4, StutterMaps DEF Maps, ends
  <2> QED BY <1>0, <1>1, <1>4, <2>3, <2>5, <2>6, DownStays, CountStays DEF IInv, downState
<1> QED BY <1>3, <1>4 DEF ClientSends

LEMMA GuestSendsKeeps ==
  ASSUME IInv, GuestSends
  PROVE  IInv' /\ Maps
<1>0. Types /\ CountInv /\ UpInv /\ DownInv BY DEF IInv
<1>1. /\ phase = "relaying" /\ phase' = phase /\ open[Guest] /\ Len(sent[Guest]) < MaxSent
      /\ sent' = [sent EXCEPT ![Guest] = Append(@, Len(@) + 1)]
      /\ tcpIn' = Append(tcpIn, Len(sent[Guest]) + 1)
      /\ UNCHANGED <<up, down, upBuf, downBuf, wsIn, tcpOut, wsOut, got, open>>
  BY DEF GuestSends, futures
<1>2. /\ sent[Guest] \in Seq(Nat) /\ From(sent[Guest], 0) BY <1>0 DEF Types, CountInv
<1>3. /\ sent'[Guest] = Append(sent[Guest], Len(sent[Guest]) + 1)
      /\ sent'[Client] = sent[Client]
  BY <1>0, <1>1 DEF Types
<1>4. /\ sent'[Guest] \in Seq(Nat) /\ Len(sent'[Guest]) = Len(sent[Guest]) + 1
      /\ From(sent'[Guest], 0)
  BY <1>2, <1>3, FromAppend
<1>5. sent' \in [{Client, Guest} -> Seq(Nat)]
  BY <1>0, <1>1, <1>3, <1>4 DEF Types
<1>6. CountInv' BY <1>0, <1>1, <1>3, <1>4 DEF CountInv
<1>7. /\ Len(sent[Guest]) \in Nat /\ tcpIn \in Seq(Nat) /\ Len(tcpIn) \in Nat /\ DownTaken \in Nat
  BY <1>0, Lengths DEF Types
<1>8. tcpIn' \in Seq(Nat) /\ Len(tcpIn') = Len(tcpIn) + 1
  BY <1>1, <1>7, AppendProperties
<1>9. Types' BY <1>0, <1>1, <1>5, <1>8 DEF Types
<1>10. DownTaken' = DownTaken /\ DownSent' = DownSent BY <1>1 DEF DownTaken, DownSent
<1>11. DownTaken' <= Len(sent'[Guest]) BY <1>0, <1>4, <1>7, <1>10 DEF DownInv
<1>12. ASSUME down \in {"read", "send"}
       PROVE  From(tcpIn', DownTaken) /\ DownTaken + Len(tcpIn') = Len(sent'[Guest])
  <2>1. From(tcpIn, DownTaken) /\ DownTaken + Len(tcpIn) = Len(sent[Guest])
    BY <1>0, <1>1, <1>12 DEF DownInv
  <2>2. tcpIn' = Append(tcpIn, DownTaken + Len(tcpIn) + 1) BY <1>1, <2>1
  <2>3. From(tcpIn', DownTaken) BY <1>7, <2>1, <2>2, FromAppend
  <2>4. DownTaken + Len(tcpIn') = DownTaken + (Len(tcpIn) + 1) BY <1>8
  <2>5. DownTaken + (Len(tcpIn) + 1) = Len(sent[Guest]) + 1 BY <1>7, <2>1
  <2> QED BY <1>4, <2>3, <2>4, <2>5
<1>13. DownInv'
  <2>1. DownTaken' + Len(tcpIn') <= Len(sent'[Guest]) \/ down \notin {"read", "send"}
    BY <1>4, <1>7, <1>8, <1>10, <1>12
  <2> QED BY <1>0, <1>1, <1>10, <1>11, <1>12, <2>1 DEF DownInv
<1>14. UpInv' BY <1>0, <1>1, <1>3, UpStays DEF upState
<1>15. Channel!Send(Guest) BY <1>1 DEF Channel!Send
<1>16. Maps BY <1>15 DEF Maps, Channel!Next, Channel!Ends
<1> QED BY <1>6, <1>9, <1>13, <1>14, <1>16 DEF IInv

\* An end that reads the next number continues its count, and the rest waits on.
LEMMA ReadNext ==
  ASSUME NEW g \in Seq(Nat), NEW q \in Seq(Nat), From(g, 0), From(q, Len(g)), q # <<>>
  PROVE  /\ Append(g, Head(q)) \in Seq(Nat) /\ Len(Append(g, Head(q))) = Len(g) + 1
         /\ From(Append(g, Head(q)), 0)
         /\ Tail(q) \in Seq(Nat) /\ Len(Tail(q)) = Len(q) - 1 /\ Len(q) \in Nat \ {0}
         /\ From(Tail(q), Len(g) + 1)
<1>1. Len(g) \in Nat /\ Len(q) \in Nat BY LenProperties
<1>2. /\ Head(q) = Len(g) + 1 /\ Tail(q) \in Seq(Nat) /\ Len(Tail(q)) = Len(q) - 1
      /\ Len(q) >= 1 /\ From(Tail(q), Len(g) + 1)
  BY <1>1, FromTail
<1>3. /\ Append(g, Len(g) + 1) \in Seq(Nat) /\ Len(Append(g, Len(g) + 1)) = Len(g) + 1
      /\ From(Append(g, Len(g) + 1), 0)
  BY <1>1, FromAppend
<1> QED BY <1>1, <1>2, <1>3

\* A longer count that its peer has sent is a delivery of the channel.
LEMMA ReadMaps ==
  ASSUME Types, CountInv, NEW e \in {Client, Guest}, open[e],
         NEW g \in Seq(Nat), got' = [got EXCEPT ![e] = g], UNCHANGED <<sent, open>>,
         From(g, 0), Len(g) = Len(got[e]) + 1, Len(g) <= Len(sent[Channel!Peer(e)])
  PROVE  Maps
<1> DEFINE s == sent[Channel!Peer(e)]
<1>1. s \in Seq(Nat) /\ From(s, 0) BY DEF Types, CountInv, Channel!Peer
<1>2. Len(g) \in Nat /\ Len(s) \in Nat /\ Len(got[e]) \in Nat BY <1>1, LenProperties DEF Types
<1>3. Len(g) \in 1..Len(s) /\ Len(g) \in Len(got[e]) + 1 .. Len(s) BY <1>2
<1>4. /\ SubSeq(s, 1, Len(g)) \in Seq(Nat) /\ Len(SubSeq(s, 1, Len(g))) = Len(g)
      /\ From(SubSeq(s, 1, Len(g)), 0)
  BY <1>1, <1>3, FromCut
<1>5. SubSeq(s, 1, Len(g)) = g BY <1>4, FromEqual
<1>6. Channel!Deliver(e) BY <1>3, <1>5 DEF Channel!Deliver
<1> QED BY <1>6 DEF Maps, Channel!Next, Channel!Ends

LEMMA GuestReadsKeeps ==
  ASSUME IInv, GuestReads
  PROVE  IInv' /\ Maps
<1>0. Types /\ CountInv /\ UpInv /\ DownInv BY DEF IInv
<1> DEFINE g == Append(got[Guest], Head(tcpOut))
<1>1. /\ phase' = phase /\ open[Guest] /\ tcpOut # <<>>
      /\ got' = [got EXCEPT ![Guest] = g] /\ tcpOut' = Tail(tcpOut)
      /\ UNCHANGED <<up, down, upBuf, downBuf, wsIn, tcpIn, wsOut, sent, open>>
  BY DEF GuestReads, futures
<1>2. /\ got[Guest] \in Seq(Nat) /\ tcpOut \in Seq(Nat) /\ From(got[Guest], 0)
      /\ From(tcpOut, Len(got[Guest]))
  BY <1>0 DEF Types, CountInv, UpInv
<1>3. /\ g \in Seq(Nat) /\ Len(g) = Len(got[Guest]) + 1 /\ From(g, 0)
      /\ tcpOut' \in Seq(Nat) /\ Len(tcpOut') = Len(tcpOut) - 1 /\ Len(tcpOut) \in Nat \ {0}
      /\ From(tcpOut', Len(got[Guest]) + 1)
  BY <1>1, <1>2, ReadNext
<1> HIDE DEF g
<1>4. got'[Guest] = g /\ got'[Client] = got[Client] BY <1>0, <1>1 DEF Types
<1>5. got' \in [{Client, Guest} -> Seq(Nat)] BY <1>0, <1>1, <1>3 DEF Types
<1>6. Types' BY <1>0, <1>1, <1>3, <1>5 DEF Types
<1>7. CountInv' BY <1>0, <1>1, <1>3, <1>4 DEF CountInv
<1>8. UpSent' = UpSent
  <2>1. UpSent' = (Len(got[Guest]) + 1) + (Len(tcpOut) - 1) BY <1>3, <1>4 DEF UpSent
  <2>2. Len(got[Guest]) \in Nat /\ Len(tcpOut) \in Nat BY <1>0, Lengths
  <2> QED BY <2>1, <2>2 DEF UpSent
<1>9. UpTaken' = UpTaken BY <1>1, <1>8 DEF UpTaken
<1>10. From(tcpOut', Len(got'[Guest])) BY <1>3, <1>4
<1>11. WsInv => WsInv' BY <1>1, <1>9, WsStays
<1>12. UpInv' BY <1>0, <1>1, <1>8, <1>9, <1>10, <1>11 DEF UpInv
<1>13. DownInv' BY <1>0, <1>1, <1>4, DownStays DEF downState
<1>14. Len(g) <= Len(sent[Client])
  <2>1. UpTaken <= Len(sent[Client]) BY <1>0 DEF UpInv
  <2>2. /\ Len(got[Guest]) \in Nat /\ Len(tcpOut) \in Nat /\ Len(upBuf) \in Nat
        /\ Len(sent[Client]) \in Nat
    BY <1>0, Lengths
  <2>3. Len(got[Guest]) + Len(tcpOut) + Len(upBuf) <= Len(sent[Client]) BY <2>1 DEF UpTaken, UpSent
  <2> QED BY <1>3, <2>2, <2>3
<1>15. Maps
  <2>1. Channel!Peer(Guest) = Client BY DEF Channel!Peer
  <2> QED BY <1>0, <1>1, <1>3, <1>14, <2>1, ReadMaps
<1> QED BY <1>6, <1>7, <1>12, <1>13, <1>15 DEF IInv

LEMMA ClientReadsKeeps ==
  ASSUME IInv, ClientReads
  PROVE  IInv' /\ Maps
<1>0. Types /\ CountInv /\ UpInv /\ DownInv BY DEF IInv
<1> DEFINE g == Append(got[Client], Head(wsOut))
<1>1. /\ phase' = phase /\ open[Client] /\ wsOut # <<>>
      /\ got' = [got EXCEPT ![Client] = g] /\ wsOut' = Tail(wsOut)
      /\ UNCHANGED <<up, down, upBuf, downBuf, wsIn, tcpIn, tcpOut, sent, open>>
  BY DEF ClientReads, futures
<1>2. /\ got[Client] \in Seq(Nat) /\ wsOut \in Seq(Nat) /\ From(got[Client], 0)
      /\ From(wsOut, Len(got[Client]))
  BY <1>0 DEF Types, CountInv, DownInv
<1>3. /\ g \in Seq(Nat) /\ Len(g) = Len(got[Client]) + 1 /\ From(g, 0)
      /\ wsOut' \in Seq(Nat) /\ Len(wsOut') = Len(wsOut) - 1 /\ Len(wsOut) \in Nat \ {0}
      /\ From(wsOut', Len(got[Client]) + 1)
  BY <1>1, <1>2, ReadNext
<1> HIDE DEF g
<1>4. got'[Client] = g /\ got'[Guest] = got[Guest] BY <1>0, <1>1 DEF Types
<1>5. got' \in [{Client, Guest} -> Seq(Nat)] BY <1>0, <1>1, <1>3 DEF Types
<1>6. Types' BY <1>0, <1>1, <1>3, <1>5 DEF Types
<1>7. CountInv' BY <1>0, <1>1, <1>3, <1>4 DEF CountInv
<1>8. DownSent' = DownSent
  <2>1. DownSent' = (Len(got[Client]) + 1) + (Len(wsOut) - 1) BY <1>3, <1>4 DEF DownSent
  <2>2. Len(got[Client]) \in Nat /\ Len(wsOut) \in Nat BY <1>0, Lengths
  <2> QED BY <2>1, <2>2 DEF DownSent
<1>9. DownTaken' = DownTaken BY <1>1, <1>8 DEF DownTaken
<1>10. From(wsOut', Len(got'[Client])) BY <1>3, <1>4
<1>11. DownInv' BY <1>0, <1>1, <1>8, <1>9, <1>10 DEF DownInv
<1>12. UpInv' BY <1>0, <1>1, <1>4, UpStays DEF upState
<1>13. Len(g) <= Len(sent[Guest])
  <2>1. DownTaken <= Len(sent[Guest]) BY <1>0 DEF DownInv
  <2>2. /\ Len(got[Client]) \in Nat /\ Len(wsOut) \in Nat /\ Len(downBuf) \in Nat
        /\ Len(sent[Guest]) \in Nat
    BY <1>0, Lengths
  <2>3. Len(got[Client]) + Len(wsOut) + Len(downBuf) <= Len(sent[Guest])
    BY <2>1 DEF DownTaken, DownSent
  <2> QED BY <1>3, <2>2, <2>3
<1>14. Maps
  <2>1. Channel!Peer(Client) = Guest BY DEF Channel!Peer
  <2> QED BY <1>0, <1>1, <1>3, <1>13, <2>1, ReadMaps
<1> QED BY <1>6, <1>7, <1>11, <1>12, <1>14 DEF IInv

LEMMA ClientClosesKeeps ==
  ASSUME IInv, ClientCloses
  PROVE  IInv' /\ Maps
<1>0. Types /\ CountInv /\ UpInv /\ DownInv BY DEF IInv
<1>1. /\ phase' = phase /\ Closes(Client)
      /\ wsIn' \in IF phase = "over" THEN {wsIn} ELSE {Append(wsIn, Closed), <<Closed>>}
      /\ UNCHANGED <<up, down, upBuf, downBuf, tcpIn, tcpOut, wsOut, sent, got>>
  BY DEF ClientCloses, futures
<1>2. open' \in [{Client, Guest} -> BOOLEAN] /\ ~open'[Client] /\ open'[Guest] = open[Guest]
  BY <1>0, <1>1 DEF Types, Closes
<1>3. Closed \in Frame /\ Closed.kind # "data" BY DEF Closed, Frame
<1>4. wsIn' \in Seq(Frame)
  <2>1. Append(wsIn, Closed) \in Seq(Frame) /\ <<Closed>> \in Seq(Frame)
    BY <1>0, <1>3, AppendProperties DEF Types
  <2> QED BY <1>0, <1>1, <2>1 DEF Types
<1>5. Types' BY <1>0, <1>1, <1>2, <1>4 DEF Types
<1>6. UpTaken' = UpTaken /\ UpSent' = UpSent BY <1>1 DEF UpTaken, UpSent
<1>7. ASSUME phase # "over", WsInv PROVE WsInv'
  <2>1. CASE wsIn' = Append(wsIn, Closed)
    BY <1>0, <1>1, <1>2, <1>3, <1>6, <1>7, <2>1, QuietFrame
  <2>2. CASE wsIn' = <<Closed>>
    <3>1. \A i \in 1..Len(wsIn') : ~IsData(i)' BY <1>3, <2>2 DEF IsData
    <3> QED BY <1>2, <3>1 DEF WsInv
  <2> QED BY <1>1, <1>7, <2>1, <2>2
<1>8. UpInv' BY <1>0, <1>1, <1>6, <1>7 DEF UpInv
<1>9. Maps BY <1>0, <1>1, CloseMaps DEF Maps
<1> QED BY <1>0, <1>1, <1>2, <1>5, <1>8, <1>9, DownStays, CountStays DEF IInv, downState

LEMMA GuestClosesKeeps ==
  ASSUME IInv, GuestCloses
  PROVE  IInv' /\ Maps
<1>0. Types /\ CountInv /\ UpInv /\ DownInv BY DEF IInv
<1>1. /\ phase' = phase /\ Closes(Guest) /\ tcpIn' \in {tcpIn, <<>>}
      /\ UNCHANGED <<up, down, upBuf, downBuf, wsIn, tcpOut, wsOut, sent, got>>
  BY DEF GuestCloses, futures
<1>2. open' \in [{Client, Guest} -> BOOLEAN] /\ ~open'[Guest] /\ open'[Client] = open[Client]
  BY <1>0, <1>1 DEF Types, Closes
<1>3. Types'
  <2>1. CASE tcpIn' = tcpIn BY <1>0, <1>1, <1>2, <2>1 DEF Types
  <2>2. CASE tcpIn' = <<>>
    <3>1. tcpIn' \in Seq(Nat) BY <2>2
    <3> QED BY <1>0, <1>1, <1>2, <3>1 DEF Types
  <2> QED BY <1>1, <2>1, <2>2
<1>4. DownTaken' = DownTaken /\ DownSent' = DownSent BY <1>1 DEF DownTaken, DownSent
<1>5. ASSUME phase # "over", down \in {"read", "send"}
      PROVE  From(tcpIn', DownTaken) /\ DownTaken + Len(tcpIn') <= Len(sent[Guest])
  <2>1. CASE tcpIn' = tcpIn BY <1>0, <1>5, <2>1 DEF DownInv
  <2>2. CASE tcpIn' = <<>>
    <3>1. DownTaken <= Len(sent[Guest]) /\ DownTaken \in Nat BY <1>0, Lengths DEF DownInv
    <3> QED BY <2>2, <3>1 DEF From
  <2> QED BY <1>1, <2>1, <2>2
<1>6. DownInv' BY <1>0, <1>1, <1>2, <1>4, <1>5 DEF DownInv
<1>7. Maps BY <1>0, <1>1, CloseMaps DEF Maps
<1> QED BY <1>0, <1>1, <1>2, <1>3, <1>6, <1>7, UpStays, CountStays DEF IInv, upState

LEMMA SeveredKeeps ==
  ASSUME IInv, ClientSevered \/ GuestSevered
  PROVE  IInv' /\ Maps
<1>0. Types /\ CountInv /\ UpInv /\ DownInv BY DEF IInv
<1>1. PICK e \in {Client, Guest} : Closes(e) BY DEF ClientSevered, GuestSevered
<1>2. /\ phase' = "over"
      /\ UNCHANGED <<up, down, upBuf, downBuf, wsIn, tcpIn, tcpOut, wsOut, sent, got>>
  BY DEF ClientSevered, GuestSevered, futures, sockets
<1>3. open' \in [{Client, Guest} -> BOOLEAN] /\ \A x \in {Client, Guest} : open'[x] => open[x]
  BY <1>0, <1>1 DEF Types, Closes
<1>4. Types' BY <1>0, <1>2, <1>3 DEF Types
<1>5. Maps BY <1>0, <1>1, <1>2, CloseMaps DEF Maps
<1> QED BY <1>0, <1>2, <1>3, <1>4, <1>5, UpStays, DownStays, CountStays DEF IInv, upState, downState

-----------------------------------------------------------------------------
(* The theorem                                                             *)

LEMMA InitHolds == Init => IInv /\ Channel!Init
<1> SUFFICES ASSUME Init PROVE IInv /\ Channel!Init OBVIOUS
<1>1. Types BY DEF Init, Types
<1>2. /\ got[Client] = <<>> /\ got[Guest] = <<>> /\ sent[Client] = <<>> /\ sent[Guest] = <<>>
      /\ upBuf = <<>> /\ downBuf = <<>> /\ tcpOut = <<>> /\ wsOut = <<>> /\ tcpIn = <<>>
      /\ wsIn = <<>>
  BY DEF Init
<1>3. CountInv BY <1>2 DEF CountInv, From
<1>4. UpInv BY <1>2 DEF UpInv, WsInv, UpTaken, UpSent, From
<1>5. DownInv BY <1>2 DEF DownInv, DownTaken, DownSent, From
<1>6. Channel!Init BY DEF Init, Channel!Init, Channel!Ends
<1> QED BY <1>1, <1>3, <1>4, <1>5, <1>6 DEF IInv

LEMMA StepMaps == IInv /\ [Next]_vars => IInv' /\ Maps
<1>1. CASE Next /\ IInv
  BY <1>1, BeginKeeps, FinishKeeps, ReadWsKeeps, WriteTcpKeeps, ShutdownKeeps, ReadTcpKeeps,
     SendWsKeeps, SendCloseKeeps, ClientSendsKeeps, GuestSendsKeeps, GuestReadsKeeps,
     ClientReadsKeeps, ClientClosesKeeps, GuestClosesKeeps, SeveredKeeps
  DEF Next, Relay, Up, Down
<1>2. CASE UNCHANGED vars /\ IInv
  <2>1. Types' BY <1>2 DEF IInv, Types, vars
  <2>2. CountInv' BY <1>2, CountStays DEF IInv, vars
  <2>3. UpInv' BY <1>2 DEF IInv, UpInv, WsInv, IsData, UpTaken, UpSent, From, vars
  <2>4. DownInv' BY <1>2 DEF IInv, DownInv, DownTaken, DownSent, From, vars
  <2>5. Maps BY <1>2, StutterMaps DEF vars, ends, Maps
  <2> QED BY <2>1, <2>2, <2>3, <2>4, <2>5 DEF IInv
<1> QED BY <1>1, <1>2

\* The relay implements the channel, as far as safety goes: whatever the frames,
\* the short reads, the pings, the buffers and the order in which select! sees its
\* futures end, no end ever receives anything but the next items its peer sent, in
\* order, once, and no byte reaches an end that has closed.
THEOREM RelayImplementsChannel == Spec => Channel!Init /\ [][Channel!Next]_(Channel!chanVars)
<1>1. Init => IInv /\ Channel!Init BY InitHolds
<1>2. IInv /\ [Next]_vars => IInv' /\ [Channel!Next]_(Channel!chanVars) BY StepMaps DEF Maps
<1> QED BY <1>1, <1>2, PTL DEF Spec

-----------------------------------------------------------------------------
(* Types                                                                   *)

Items  == 1 .. MaxSent
Frames == [kind : {"data"}, v : Items] \cup {Ping, Closed}

\* TypeOK, part by part, with what a step takes from one place and puts into the
\* next.
TypeInv ==
    /\ phase \in {"asked", "upgraded", "relaying", "over"}
    /\ record \in {"none", "name", "address"}
    /\ up \in {"next", "write", "shutdown", "done"}
    /\ down \in {"read", "send", "close", "done"}
    /\ upBuf \in Seq(Items) /\ downBuf \in Seq(Items)
    /\ IF up = "write" THEN Len(upBuf) = 1 ELSE upBuf = <<>>
    /\ (downBuf # <<>>) <=> (down = "send")
    /\ wsIn \in Seq(Frames)
    /\ tcpOut \in Seq(Items) /\ tcpIn \in Seq(Items) /\ wsOut \in Seq(Items)
    /\ pings \in 0 .. MaxPings
    /\ sent \in [{Client, Guest} -> Seq(Nat)]
    /\ open \in [{Client, Guest} -> BOOLEAN]

\* It is TypeOK and more.
LEMMA TypeInvTypes == TypeInv => TypeOK
<1> SUFFICES ASSUME TypeInv PROVE TypeOK
  OBVIOUS
<1> DEFINE Any == [kind : {"data", "ping", "close"}, v : 0 .. MaxSent]
<1>1. Frames \subseteq Any
  BY DEF Frames, Items, Ping, Closed
<1>2. wsIn \in Seq(Any)
  <2>1. wsIn \in Seq(Frames) BY DEF TypeInv
  <2> HIDE DEF Any
  <2> QED BY <1>1, <2>1, SeqMonotonic
<1>3. \A q \in {tcpOut, tcpIn, wsOut} : q \in Seq(1 .. MaxSent)
  BY DEF TypeInv, Items
<1>4. Len(upBuf) = (IF up = "write" THEN 1 ELSE 0)
  BY DEF TypeInv
<1> QED BY <1>2, <1>3, <1>4 DEF TypeOK, TypeInv

\* Every step keeps the types.
LEMMA TypeStep == ASSUME TypeInv, Next PROVE TypeInv'
<1> USE DEF TypeInv, sockets, futures, ends
<1>0. <<>> \in Seq(Items) /\ Len(<<>>) = 0
  OBVIOUS
<1>1. CASE Resolve \/ Connect
  BY <1>1 DEF Resolve, Connect, Closes
<1>2. CASE ReadWs
  <2>1. Head(wsIn) \in Frames /\ Tail(wsIn) \in Seq(Frames)
    BY <1>2 DEF ReadWs
  <2>2. CASE Head(wsIn).kind = "data"
    <3>1. Head(wsIn).v \in Items
      BY <2>1, <2>2 DEF Frames, Ping, Closed
    <3>2. <<Head(wsIn).v>> \in Seq(Items) /\ Len(<<Head(wsIn).v>>) = 1
      BY <3>1
    <3> QED BY <1>2, <2>1, <2>2, <3>2 DEF ReadWs
  <2>3. CASE Head(wsIn).kind = "close"
    BY <1>2, <2>1, <2>3 DEF ReadWs
  <2>4. CASE Head(wsIn).kind \notin {"data", "close"}
    BY <1>2, <2>1, <2>4 DEF ReadWs
  <2> QED BY <2>2, <2>3, <2>4
<1>3. CASE WriteTcp \/ SendWs
  <2>1. tcpOut \o upBuf \in Seq(Items) /\ wsOut \o downBuf \in Seq(Items)
    OBVIOUS
  <2>2. CASE WriteTcp
    BY <1>0, <2>1, <2>2 DEF WriteTcp
  <2>3. CASE SendWs
    BY <1>0, <2>1, <2>3 DEF SendWs
  <2> QED BY <1>3, <2>2, <2>3
<1>4. CASE Shutdown \/ SendClose \/ Finish
  BY <1>4 DEF Shutdown, SendClose, Finish
<1>5. CASE ReadTcp
  <2>1. ASSUME NEW n \in 1 .. Len(tcpIn)
        PROVE  /\ SubSeq(tcpIn, 1, n) \in Seq(Items) /\ SubSeq(tcpIn, 1, n) # <<>>
               /\ SubSeq(tcpIn, n + 1, Len(tcpIn)) \in Seq(Items)
    <3>1. Len(tcpIn) \in Nat /\ \A i \in 1 .. Len(tcpIn) : tcpIn[i] \in Items
      OBVIOUS
    <3>2. SubSeq(tcpIn, 1, n) \in Seq(Items) /\ Len(SubSeq(tcpIn, 1, n)) = n
      BY <3>1, SubSeqProperties
    <3>3. SubSeq(tcpIn, n + 1, Len(tcpIn)) \in Seq(Items)
      BY <3>1, SubSeqProperties
    <3>4. Len(SubSeq(tcpIn, 1, n)) # 0
      BY <3>2
    <3> QED BY <3>2, <3>3, <3>4, EmptySeq
  <2> QED BY <1>5, <2>1 DEF ReadTcp
<1>6. ASSUME ClientSends, wsIn' = Append(wsIn, Data(Len(sent[Client]) + 1)), UNCHANGED pings,
             sent' = [sent EXCEPT ![Client] = Append(@, Len(@) + 1)], Len(sent[Client]) < MaxSent
      PROVE  TypeInv'
  <2>1. Len(sent[Client]) \in Nat /\ Len(sent[Client]) + 1 \in Items
    BY <1>6 DEF Items
  <2>2. Data(Len(sent[Client]) + 1) \in Frames
    BY <2>1 DEF Data, Frames
  <2>3. wsIn' \in Seq(Frames)
    BY <1>6, <2>2
  <2>4. sent' \in [{Client, Guest} -> Seq(Nat)]
    BY <1>6, <2>1
  <2> QED BY <1>6, <2>3, <2>4 DEF ClientSends
<1>7. ASSUME ClientSends, pings < MaxPings, pings' = pings + 1, wsIn' = Append(wsIn, Ping), UNCHANGED sent
      PROVE  TypeInv'
  <2>1. pings' \in 0 .. MaxPings
    BY <1>7
  <2>2. wsIn' \in Seq(Frames)
    BY <1>7 DEF Frames
  <2> QED BY <1>7, <2>1, <2>2 DEF ClientSends
<1>8. CASE GuestSends
  <2>1. Len(sent[Guest]) + 1 \in Items
    BY <1>8 DEF GuestSends, Items
  <2>2. sent' \in [{Client, Guest} -> Seq(Nat)] /\ tcpIn' \in Seq(Items)
    BY <1>8, <2>1 DEF GuestSends, Items
  <2> QED BY <1>8, <2>2 DEF GuestSends
<1>9. CASE GuestReads \/ ClientReads
  <2>1. CASE GuestReads
    BY <2>1, HeadTailProperties DEF GuestReads
  <2>2. CASE ClientReads
    BY <2>2, HeadTailProperties DEF ClientReads
  <2> QED BY <1>9, <2>1, <2>2
<1>10. CASE ClientCloses
  <2>1. Closed \in Frames
    BY DEF Frames
  <2>2. Append(wsIn, Closed) \in Seq(Frames) /\ <<Closed>> \in Seq(Frames)
    BY <2>1
  <2>3. wsIn' \in Seq(Frames)
    BY <1>10, <2>2 DEF ClientCloses
  <2> QED BY <1>10, <2>3 DEF ClientCloses, Closes
<1>11. CASE GuestCloses
  <2>1. tcpIn' \in Seq(Items)
    BY <1>0, <1>11 DEF GuestCloses
  <2> QED BY <1>11, <2>1 DEF GuestCloses, Closes
<1>12. CASE ClientSevered \/ GuestSevered
  BY <1>12 DEF ClientSevered, GuestSevered, Closes
<1>13. ClientSends =>
         \/ /\ wsIn' = Append(wsIn, Data(Len(sent[Client]) + 1)) /\ UNCHANGED pings
            /\ sent' = [sent EXCEPT ![Client] = Append(@, Len(@) + 1)] /\ Len(sent[Client]) < MaxSent
         \/ /\ pings < MaxPings /\ pings' = pings + 1 /\ wsIn' = Append(wsIn, Ping) /\ UNCHANGED sent
  BY DEF ClientSends
<1> QED BY <1>1, <1>2, <1>3, <1>4, <1>5, <1>6, <1>7, <1>8, <1>9, <1>10, <1>11, <1>12, <1>13
        DEF Next, Relay, Up, Down

\* For any amount of data, the futures hold what their next call is about, and
\* nothing but items the ends sent is on its way.
THEOREM TypeCorrect == Spec => []TypeOK
<1>1. Init => TypeInv
  BY DEF Init, TypeInv
<1>2. TypeInv /\ UNCHANGED vars => TypeInv'
  BY DEF TypeInv, vars
<1> QED BY <1>1, <1>2, TypeInvTypes, TypeStep, PTL DEF Spec
=============================================================================

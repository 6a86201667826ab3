----------------------------- MODULE ConsoleRelay -----------------------------
(***************************************************************************)
(* lsbx-stream's /stream/{sandbox_id}/{guest_path}: the destination is     *)
(* resolved from the sandbox store, the connection is upgraded to a        *)
(* WebSocket, and two futures copy bytes, one per direction, between the   *)
(* WebSocket and a TCP connection to the guest's VNC port.  select! ends   *)
(* the relay with whichever future ends first; the other one is dropped    *)
(* where it stands.                                                        *)
(*                                                                         *)
(* The buffers of the two connections are external.  An item is a byte or  *)
(* a run of bytes; the n-th item of an end is n.                           *)
(***************************************************************************)
EXTENDS Naturals, Sequences

CONSTANTS
    Client, Guest,
    MaxSent,       \* bound on what an end sends
    Buffer,        \* items a socket buffer holds towards a peer that does not read
    MaxPings       \* bound on the client's ping frames

ASSUME RelayAssumption ==
    Client # Guest /\ MaxSent \in Nat /\ Buffer \in Nat \ {0} /\ MaxPings \in Nat

VARIABLES
    phase,     \* of the task: "asked", "upgraded", "relaying", "over"
    record,    \* what the store has: "none", "name" (no address), "address"
    up,        \* ws_to_tcp: "next", "write", "shutdown", "done"
    down,      \* tcp_to_ws: "read", "send", "close", "done"
    upBuf, downBuf,   \* the item, or the bytes, the future has in hand
    wsIn,      \* frames from the client not yet read by the relay
    tcpOut,    \* bytes for the guest it has not read yet
    tcpIn,     \* bytes from the guest not yet read by the relay
    wsOut,     \* bytes for the client it has not read yet
    pings,
    sent, got, open   \* the ends' own view, as in DuplexChannel

vars == <<phase, record, up, down, upBuf, downBuf, wsIn, tcpOut, tcpIn, wsOut, pings,
          sent, got, open>>
sockets == <<wsIn, tcpOut, tcpIn, wsOut>>
futures == <<up, down, upBuf, downBuf>>
ends    == <<sent, got, open>>

Data(v) == [kind |-> "data", v |-> v]   \* a Binary or a Text frame
Ping    == [kind |-> "ping", v |-> 0]
Closed  == [kind |-> "close", v |-> 0]  \* a Close frame, or the error of a broken socket

Init ==
    /\ phase = "asked" /\ record \in {"none", "name", "address"}
    /\ up = "next" /\ down = "read" /\ upBuf = <<>> /\ downBuf = <<>>
    /\ wsIn = <<>> /\ tcpOut = <<>> /\ tcpIn = <<>> /\ wsOut = <<>>
    /\ pings = 0
    /\ sent = [e \in {Client, Guest} |-> <<>>]
    /\ got  = [e \in {Client, Guest} |-> <<>>]
    /\ open = [e \in {Client, Guest} |-> TRUE]

Closes(e) == open' = [open EXCEPT ![e] = FALSE]

-----------------------------------------------------------------------------
(* The task                                                                *)

\* stream_handler: load the record, parse its host, only then upgrade.  A
\* refusal is an HTTP answer and no guest is contacted.
Resolve ==
    /\ phase = "asked"
    /\ IF record = "address"
       THEN phase' = "upgraded" /\ UNCHANGED open
       ELSE phase' = "over" /\ Closes(Guest)
    /\ UNCHANGED <<record, futures, sockets, pings, sent, got>>

\* relay: TcpStream::connect; when it fails the WebSocket is dropped.
Connect ==
    /\ phase = "upgraded"
    /\ \/ open[Guest] /\ phase' = "relaying" /\ UNCHANGED open
       \/ phase' = "over" /\ Closes(Guest)
    /\ UNCHANGED <<record, futures, sockets, pings, sent, got>>

\* ws_to_tcp: ws_receiver.next().
ReadWs ==
    /\ phase = "relaying" /\ up = "next" /\ wsIn # <<>>
    /\ wsIn' = Tail(wsIn)
    /\ CASE Head(wsIn).kind = "data"  -> up' = "write" /\ upBuf' = <<Head(wsIn).v>>
         [] Head(wsIn).kind = "close" -> up' = "shutdown" /\ UNCHANGED upBuf
         [] OTHER                     -> UNCHANGED <<up, upBuf>>
    /\ UNCHANGED <<phase, record, down, downBuf, tcpOut, tcpIn, wsOut, pings, ends>>

\* write_all waits for room; the write fails once the guest is gone, though the
\* first ones may still be taken.
WriteTcp ==
    /\ phase = "relaying" /\ up = "write"
    /\ \/ Len(tcpOut) < Buffer /\ tcpOut' = tcpOut \o upBuf /\ up' = "next"
       \/ ~open[Guest] /\ up' = "shutdown" /\ UNCHANGED tcpOut
    /\ upBuf' = <<>>
    /\ UNCHANGED <<phase, record, down, downBuf, wsIn, tcpIn, wsOut, pings, ends>>

\* tcp_writer.shutdown(): the guest reads EOF after what is buffered.
Shutdown ==
    /\ phase = "relaying" /\ up = "shutdown" /\ up' = "done"
    /\ UNCHANGED <<phase, record, down, upBuf, downBuf, sockets, pings, ends>>

\* tcp_to_ws: one read takes any number of the bytes there are; none means EOF
\* or an error.
ReadTcp ==
    /\ phase = "relaying" /\ down = "read"
    /\ \/ \E n \in 1..Len(tcpIn) :
            /\ downBuf' = SubSeq(tcpIn, 1, n)
            /\ tcpIn' = SubSeq(tcpIn, n + 1, Len(tcpIn))
            /\ down' = "send"
       \/ /\ tcpIn = <<>> /\ ~open[Guest]
          /\ down' \in {"close", "done"} /\ UNCHANGED <<downBuf, tcpIn>>
    /\ UNCHANGED <<phase, record, up, upBuf, wsIn, tcpOut, wsOut, pings, ends>>

SendWs ==
    /\ phase = "relaying" /\ down = "send"
    /\ \/ Len(wsOut) < Buffer /\ wsOut' = wsOut \o downBuf /\ down' = "read"
       \/ ~open[Client] /\ down' = "done" /\ UNCHANGED wsOut
    /\ downBuf' = <<>>
    /\ UNCHANGED <<phase, record, up, upBuf, wsIn, tcpOut, tcpIn, pings, ends>>

\* The Close frame to the client, sent or not.
SendClose ==
    /\ phase = "relaying" /\ down = "close" /\ down' = "done"
    /\ UNCHANGED <<phase, record, up, upBuf, downBuf, sockets, pings, ends>>

\* Mutant: join! instead of select!.
Finish_Both ==
    /\ phase = "relaying" /\ up = "done" /\ down = "done"
    /\ phase' = "over" /\ wsIn' = <<>> /\ tcpIn' = <<>>
    /\ UNCHANGED <<record, futures, tcpOut, wsOut, pings, ends>>

\* select!: the first future that ends ends the relay; both sockets are dropped
\* with all that was not read from them and what the other future had in hand.
Finish ==
    /\ phase = "relaying" /\ "done" \in {up, down}
    /\ phase' = "over" /\ wsIn' = <<>> /\ tcpIn' = <<>>
    /\ UNCHANGED <<record, futures, tcpOut, wsOut, pings, ends>>

-----------------------------------------------------------------------------
(* The two ends and the network between (external)                         *)

ClientSends ==
    /\ open[Client] /\ phase \in {"upgraded", "relaying"}
    /\ \/ /\ Len(sent[Client]) < MaxSent
          /\ sent' = [sent EXCEPT ![Client] = Append(@, Len(@) + 1)]
          /\ wsIn' = Append(wsIn, Data(Len(sent[Client]) + 1))
          /\ UNCHANGED pings
       \/ /\ pings < MaxPings /\ pings' = pings + 1
          /\ wsIn' = Append(wsIn, Ping) /\ UNCHANGED sent
    /\ UNCHANGED <<phase, record, futures, tcpOut, tcpIn, wsOut, got, open>>

GuestSends ==
    /\ open[Guest] /\ phase = "relaying" /\ Len(sent[Guest]) < MaxSent
    /\ sent' = [sent EXCEPT ![Guest] = Append(@, Len(@) + 1)]
    /\ tcpIn' = Append(tcpIn, Len(sent[Guest]) + 1)
    /\ UNCHANGED <<phase, record, futures, wsIn, tcpOut, wsOut, pings, got, open>>

GuestReads ==
    /\ open[Guest] /\ tcpOut # <<>>
    /\ got' = [got EXCEPT ![Guest] = Append(@, Head(tcpOut))]
    /\ tcpOut' = Tail(tcpOut)
    /\ UNCHANGED <<phase, record, futures, wsIn, tcpIn, wsOut, pings, sent, open>>

ClientReads ==
    /\ open[Client] /\ wsOut # <<>>
    /\ got' = [got EXCEPT ![Client] = Append(@, Head(wsOut))]
    /\ wsOut' = Tail(wsOut)
    /\ UNCHANGED <<phase, record, futures, wsIn, tcpOut, tcpIn, pings, sent, open>>

\* A closing client's Close comes after its frames, or in their place when its
\* connection breaks; a closing guest's EOF likewise.
ClientCloses ==
    /\ open[Client] /\ Closes(Client)
    /\ wsIn' \in IF phase = "over" THEN {wsIn} ELSE {Append(wsIn, Closed), <<Closed>>}
    /\ UNCHANGED <<phase, record, futures, tcpOut, tcpIn, wsOut, pings, sent, got>>

GuestCloses ==
    /\ open[Guest] /\ Closes(Guest)
    /\ tcpIn' \in {tcpIn, <<>>}
    /\ UNCHANGED <<phase, record, futures, wsIn, tcpOut, wsOut, pings, sent, got>>

\* An end sees that the relay dropped its socket, at once or once it has read
\* what was on its way.
ClientSevered ==
    /\ phase = "over" /\ open[Client] /\ Closes(Client)
    /\ UNCHANGED <<phase, record, futures, sockets, pings, sent, got>>

GuestSevered ==
    /\ phase = "over" /\ open[Guest] /\ Closes(Guest)
    /\ UNCHANGED <<phase, record, futures, sockets, pings, sent, got>>

Relay == Resolve \/ Connect \/ Finish
Up    == ReadWs \/ WriteTcp \/ Shutdown
Down  == ReadTcp \/ SendWs \/ SendClose

Next ==
    \/ Relay \/ Up \/ Down
    \/ ClientSends \/ GuestSends \/ GuestReads \/ ClientReads
    \/ ClientCloses \/ GuestCloses \/ ClientSevered \/ GuestSevered

Spec == Init /\ [][Next]_vars

\* The runtime polls the task and both its futures, and TCP delivers.
TaskFairness ==
    /\ WF_vars(Relay) /\ WF_vars(Up) /\ WF_vars(Down)
    /\ WF_vars(ClientSevered) /\ WF_vars(GuestSevered)

\* The ends read what they are sent.
PeerFairness == WF_vars(ClientReads) /\ WF_vars(GuestReads)

FairSpec == Spec /\ TaskFairness /\ PeerFairness

\* A guest that is alive but no longer reads (a hung VNC server).
HungGuestSpec == Spec /\ TaskFairness /\ WF_vars(ClientReads)

-----------------------------------------------------------------------------
(* Properties                                                              *)

TypeOK ==
    /\ phase \in {"asked", "upgraded", "relaying", "over"}
    /\ record \in {"none", "name", "address"}
    /\ up \in {"next", "write", "shutdown", "done"}
    /\ down \in {"read", "send", "close", "done"}
    /\ Len(upBuf) = (IF up = "write" THEN 1 ELSE 0)
    /\ (downBuf # <<>>) <=> (down = "send")
    /\ wsIn \in Seq([kind : {"data", "ping", "close"}, v : 0..MaxSent])
    /\ \A q \in {tcpOut, tcpIn, wsOut} : q \in Seq(1..MaxSent)
    /\ pings \in 0..MaxPings
    /\ open \in [{Client, Guest} -> BOOLEAN]

Channel == INSTANCE DuplexChannel WITH
             Client <- Client, Guest <- Guest, MaxSent <- MaxSent,
             sent <- sent, got <- got, open <- open

\* The relay keeps the promise of a duplex channel: each end receives a prefix
\* of what the other sent, in order and without repeats, everything while both
\* are open; and when one end closes or cannot be reached, the other is closed.
IsDuplexChannel == Channel!Spec

\* Whatever the guest does, the guest's connection is not kept once the client
\* has closed its own.  It holds under FairSpec and not under HungGuestSpec
\* (README, section 4).
ClosePropagates == ~open[Client] ~> ~open[Guest]
=============================================================================

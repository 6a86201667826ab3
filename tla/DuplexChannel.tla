---------------------------- MODULE DuplexChannel ----------------------------
(***************************************************************************)
(* What a console connection promises the two ends it joins: a reliable,   *)
(* ordered byte channel in either direction for as long as both ends are   *)
(* open, and no end that stays open for ever after the other is gone.      *)
(* What was under way when an end closed may be lost, but only from the    *)
(* tail.  ConsoleRelay implements it.                                      *)
(***************************************************************************)
EXTENDS Naturals, Sequences

CONSTANTS
    Client, Guest,  \* the two ends
    MaxSent         \* bound on what an end sends

VARIABLES
    sent,    \* what each end has sent; the n-th item of an end is n
    got,     \* what each end has received
    open     \* is the end still open?

chanVars == <<sent, got, open>>

Ends    == {Client, Guest}
Peer(e) == IF e = Client THEN Guest ELSE Client

Init ==
    /\ sent = [e \in Ends |-> <<>>]
    /\ got  = [e \in Ends |-> <<>>]
    /\ open = [e \in Ends |-> TRUE]

Send(e) ==
    /\ open[e] /\ Len(sent[e]) < MaxSent
    /\ sent' = [sent EXCEPT ![e] = Append(@, Len(@) + 1)]
    /\ UNCHANGED <<got, open>>

\* The end receives the next items its peer sent, one or several at once.
Deliver(e) ==
    /\ open[e]
    /\ \E n \in Len(got[e]) + 1 .. Len(sent[Peer(e)]) :
        got' = [got EXCEPT ![e] = SubSeq(sent[Peer(e)], 1, n)]
    /\ UNCHANGED <<sent, open>>

\* An end closes of its own accord, or dies.
Close(e) ==
    /\ open[e] /\ open' = [open EXCEPT ![e] = FALSE]
    /\ UNCHANGED <<sent, got>>

\* The channel closes an end whose peer is gone.
Sever(e) == ~open[Peer(e)] /\ Close(e)

Next == \E e \in Ends : Send(e) \/ Deliver(e) \/ Close(e)

Spec ==
    /\ Init /\ [][Next]_chanVars
    /\ \A e \in Ends : WF_chanVars(Sever(e)) /\ WF_chanVars(open[Peer(e)] /\ Deliver(e))
=============================================================================

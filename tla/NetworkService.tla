--------------------------- MODULE NetworkService ---------------------------
(***************************************************************************)
(* What the network promises the protocol controllers: every message they  *)
(* send is handed to each of its destinations at most once, never invented *)
(* and, in an ordered virtual network, in the order in which its sender    *)
(* sent it.                                                                *)
(***************************************************************************)
EXTENDS Naturals, Sequences

CONSTANTS NIs, Vnets, Ordered, Program, MsgVnet, MsgDests

VARIABLES
    sent,   \* sent[n]: the messages NI n's controller has sent, in order
    got     \* got[n][vn]: the messages handed to n's controller, in order

Members(s) == {s[i] : i \in DOMAIN s}

Init ==
    /\ sent = [n \in NIs |-> <<>>]
    /\ got = [n \in NIs |-> [vn \in Vnets |-> <<>>]]

Send(n) ==
    /\ Len(sent[n]) < Len(Program[n])
    /\ sent' = [sent EXCEPT ![n] = Append(@, Program[n][Len(@) + 1])]
    /\ UNCHANGED got

(* The i-th message of s may be handed to n now.                           *)
Deliverable(s, i, n) ==
    LET vn == MsgVnet[sent[s][i]]
    IN  /\ n \in Members(MsgDests[sent[s][i]])
        /\ sent[s][i] \notin Members(got[n][vn])
        /\ vn \in Ordered =>
              \A j \in 1 .. i - 1 :
                 (MsgVnet[sent[s][j]] = vn /\ n \in Members(MsgDests[sent[s][j]]))
                    => sent[s][j] \in Members(got[n][vn])

Deliver(n) ==
    \E s \in NIs : \E i \in DOMAIN sent[s] :
        /\ Deliverable(s, i, n)
        /\ got' = [got EXCEPT ![n][MsgVnet[sent[s][i]]] = Append(@, sent[s][i])]
        /\ UNCHANGED sent

Next == \E n \in NIs : Send(n) \/ Deliver(n)

Spec == Init /\ [][Next]_<<sent, got>>
=============================================================================

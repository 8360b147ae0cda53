---------------------------- MODULE P2PmsgDelivery ----------------------------
(***************************************************************************)
(* What a P2PmsgPump promises to the threads that post to it, with none of *)
(* its machinery: an unbounded mailbox.  A posted message is taken by the  *)
(* pump, once, in the order of posting, and without anybody's help - no    *)
(* wake, no lock, no time-out is visible here.                             *)
(***************************************************************************)
EXTENDS Integers, Sequences

CONSTANTS Posters,  \* the other threads
          Pump      \* the pump's own thread, whose handlers post too

VARIABLES box,      \* what is posted and not yet taken
          sent,     \* sent[t]: messages t has posted
          taken     \* taken[t]: the latest message of t that was taken

vars == <<box, sent, taken>>

Init ==
    /\ box = <<>>
    /\ sent = [t \in Posters |-> 0] /\ taken = [t \in Posters |-> 0]

\* Poster t posts its next message, a connection notification or another.
Put(t, con) ==
    /\ box' = Append(box, [from |-> t, n |-> sent[t] + 1, con |-> con])
    /\ sent' = [sent EXCEPT ![t] = @ + 1]
    /\ UNCHANGED taken

\* A handler posts to its own pump.
PutOwn ==
    /\ box' = Append(box, [from |-> Pump, n |-> 0, con |-> FALSE])
    /\ UNCHANGED <<sent, taken>>

Take ==
    /\ box # <<>>
    /\ box' = Tail(box)
    /\ taken' = IF Head(box).from = Pump THEN taken
                ELSE [taken EXCEPT ![Head(box).from] = Head(box).n]
    /\ UNCHANGED sent

Next == PutOwn \/ Take \/ \E t \in Posters, con \in BOOLEAN : Put(t, con)

\* Taking is the pump's own doing: it never leaves a posted message lying.
Spec == Init /\ [][Next]_vars /\ WF_vars(Take)
=============================================================================

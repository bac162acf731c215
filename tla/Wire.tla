-------------------------------- MODULE Wire --------------------------------
(***************************************************************************)
(* What the sender (Sender) keeps to, and what the environment of the      *)
(* receiver (Server) is written from: the connection of the file header is *)
(* closed before any slice is connected, a connection is closed by its     *)
(* sender only after all of its units are sent, and connections that are   *)
(* open may break.  Only a faulty write() lets the header's connection be  *)
(* closed with the header unsent.                                          *)
(***************************************************************************)
EXTENDS Naturals

CONSTANTS Conn,   \* the connections of one transfer
          Header, \* the one that carries the file header
          Units,  \* Units[c]: how much connection c is to carry
          Faults  \* may system calls fail and connections break?

VARIABLES peer, \* "none", "open", "closed" or "broken"
          sent  \* units sent on each connection

vars == <<peer, sent>>

Init == /\ peer = [c \in Conn |-> "none"]
        /\ sent = [c \in Conn |-> 0]

Connect(c) == /\ peer[c] = "none"
              /\ c # Header => peer[Header] = "closed"
              /\ peer' = [peer EXCEPT ![c] = "open"]
              /\ UNCHANGED sent

Send(c) == /\ peer[c] = "open"
           /\ sent[c] < Units[c]
           /\ sent' = [sent EXCEPT ![c] = @ + 1]
           /\ UNCHANGED peer

Close(c) == /\ peer[c] = "open"
            /\ sent[c] = Units[c] \/ (Faults /\ c = Header)
            /\ peer' = [peer EXCEPT ![c] = "closed"]
            /\ UNCHANGED sent

(* When the sender dies, all its connections end at once. *)
Break(ended) == /\ \A c \in ended : peer[c] = "open"
                /\ peer' = [c \in Conn |-> IF c \notin ended THEN peer[c]
                                          ELSE IF sent[c] = Units[c] THEN "closed"
                                                                     ELSE "broken"]
                /\ UNCHANGED sent

Next == \/ \E c \in Conn : Connect(c) \/ Send(c) \/ Close(c)
        \/ \E ended \in SUBSET Conn : Break(ended)

Spec == Init /\ [][Next]_vars
=============================================================================

------------------------------- MODULE Broker -------------------------------
(* The MQTT broker and the network before it, as far as the program relies  *)
(* on them.  A client has at most one session: a second connection with its *)
(* id takes the first one's place.  A session that ends without a           *)
(* DISCONNECT has its last will published; a clean session begins without   *)
(* subscriptions.                                                           *)
EXTENDS Integers, Sequences

Lists == INSTANCE SequencesExt

CONSTANTS
    Clients,  \* client ids
    Wills,    \* the last will of each client
    Topics,   \* the retained topics of the story, each <<kind, slug>>
    Nobody    \* nothing is retained on a topic

VARIABLES
    net,      \* "up", "down", or "refusing": the broker answers with a no
    sessions, \* for each client whether its session is open, and for what
              \* kinds of topics it is subscribed
    retained  \* what is retained, by topic

Closed == [open |-> FALSE, kinds |-> {}]

BrokerTypeOK ==
    /\ net \in {"up", "down", "refusing"}
    /\ \A c \in Clients : sessions[c].open \in BOOLEAN
    /\ \A c \in Clients : sessions[c].kinds \subseteq {t[1] : t \in Topics}
    /\ DOMAIN retained = Topics

TopicOf(msg) == <<msg.topic, msg.slug>>

Retain(held, msg) ==
    IF TopicOf(msg) \in Topics THEN [held EXCEPT ![TopicOf(msg)] = msg.body] ELSE held

Accept(c) ==
    /\ net = "up"
    /\ sessions' = [sessions EXCEPT ![c] = [open |-> TRUE, kinds |-> {}]]
    /\ retained' = IF sessions[c].open THEN Retain(retained, Wills[c]) ELSE retained

(* The connection behind a session is gone, and the broker finds out.       *)
Expire(c) ==
    /\ sessions[c].open
    /\ sessions' = [sessions EXCEPT ![c] = Closed]
    /\ retained' = Retain(retained, Wills[c])

(* A DISCONNECT: no will.                                                   *)
Close(c) ==
    /\ sessions' = [sessions EXCEPT ![c] = Closed]
    /\ UNCHANGED retained

Subscribe(c, kind) ==
    /\ sessions' = [sessions EXCEPT ![c].kinds = @ \cup {kind}]
    /\ UNCHANGED retained

(* A new subscription is sent what is retained, in any order.               *)
Replay(kind) ==
    LET held == {t \in Topics : t[1] = kind /\ retained[t] # Nobody} IN
    { [k \in DOMAIN order |->
        [topic |-> kind, slug |-> order[k][2], body |-> retained[order[k]]]]
        : order \in Lists!SetToSeqs(held) }

(* What a publish brings to a client that is subscribed for its kind.       *)
Delivered(c, msg) ==
    IF sessions[c].open /\ msg.topic \in sessions[c].kinds THEN <<msg>> ELSE <<>>
=============================================================================

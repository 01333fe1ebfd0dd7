-------------------------- MODULE ConversationLog --------------------------
(***************************************************************************)
(* What an agent promises about a conversation that only handle_message    *)
(* touches: a log of turns, and two copies of it.  A turn joins the log    *)
(* once and stays; a copy, when it is written, receives the whole log; a   *)
(* restart leaves nothing but what Redis held for the default key.         *)
(***************************************************************************)
CONSTANTS
    Key,            \* the conversations under this promise
    DefaultKey,     \* the one that a restart reads back
    Turn

VARIABLES
    log,            \* log[k]: turns the agent remembers in conversation k
    cached,         \* the copy in Redis
    stored          \* the copy in PostgreSQL

Init ==
    /\ log = [k \in Key |-> {}]
    /\ cached = [k \in Key |-> {}]
    /\ stored = [k \in Key |-> {}]

Record(k) ==
    /\ \E n \in Turn \ log[k] : log' = [log EXCEPT ![k] = @ \cup {n}]
    /\ UNCHANGED <<cached, stored>>

Cache(k) ==
    /\ cached' = [cached EXCEPT ![k] = log[k]]
    /\ UNCHANGED <<log, stored>>

Store(k) ==
    /\ stored' = [stored EXCEPT ![k] = log[k]]
    /\ UNCHANGED <<log, cached>>

Expire(k) ==
    /\ cached' = [cached EXCEPT ![k] = {}]
    /\ UNCHANGED <<log, stored>>

Restart ==
    /\ \E answers \in BOOLEAN :
          log' = [k \in Key |-> IF k = DefaultKey /\ answers
                                THEN cached[k] ELSE {}]
    /\ UNCHANGED <<cached, stored>>

Next ==
    \/ \E k \in Key : Record(k) \/ Cache(k) \/ Store(k) \/ Expire(k)
    \/ Restart

Spec == Init /\ [][Next]_<<log, cached, stored>>
=============================================================================

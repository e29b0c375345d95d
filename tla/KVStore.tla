------------------------------ MODULE KVStore ------------------------------
(***************************************************************************)
(* What the indexes promise: an atomic map from keys to values.  A call     *)
(* takes effect in one step between its invocation and its return.         *)
(***************************************************************************)
CONSTANTS Clients, Keys, Values, NoValue

VARIABLES
    kv,    \* the value of each key, NoValue if it is absent
    call   \* call[c]: the call that client c has made

Calls ==
    [st : {"idle", "called", "applied"}, op : {"none", "insert", "update", "search", "del"},
     key : Keys \cup {NoValue}, val : Values \cup {NoValue}]

Idle == [st |-> "idle", op |-> "none", key |-> NoValue, val |-> NoValue]

Init ==
    /\ kv \in [Keys -> Values \cup {NoValue}]
    /\ call = [c \in Clients |-> Idle]

Invoke(c) ==
    /\ call[c].st = "idle"
    /\ \E op \in {"insert", "update", "search", "del"}, k \in Keys, v \in Values \cup {NoValue} :
         /\ v = NoValue <=> op \in {"search", "del"}
         /\ call' = [call EXCEPT ![c] = [st |-> "called", op |-> op, key |-> k, val |-> v]]
    /\ UNCHANGED kv

\* The insertion replaces a value that is already there.
Insert(c) ==
    /\ call[c].st = "called" /\ call[c].op = "insert"
    /\ kv' = [kv EXCEPT ![call[c].key] = call[c].val]
    /\ call' = [call EXCEPT ![c].st = "applied"]

\* The update changes only a key that is there.
Update(c) ==
    /\ call[c].st = "called" /\ call[c].op = "update"
    /\ kv' = [kv EXCEPT ![call[c].key] = IF @ = NoValue THEN @ ELSE call[c].val]
    /\ call' = [call EXCEPT ![c].st = "applied"]

\* The search returns the value of the moment.
Search(c) ==
    /\ call[c].st = "called" /\ call[c].op = "search"
    /\ call' = [call EXCEPT ![c].st = "applied", ![c].val = kv[call[c].key]]
    /\ UNCHANGED kv

Delete(c) ==
    /\ call[c].st = "called" /\ call[c].op = "del"
    /\ kv' = [kv EXCEPT ![call[c].key] = NoValue]
    /\ call' = [call EXCEPT ![c].st = "applied"]

Return(c) ==
    /\ call[c].st = "applied"
    /\ call' = [call EXCEPT ![c] = Idle]
    /\ UNCHANGED kv

Next == \E c \in Clients : Invoke(c) \/ Insert(c) \/ Update(c) \/ Search(c) \/ Delete(c) \/ Return(c)

Spec == Init /\ [][Next]_<<kv, call>>
=============================================================================

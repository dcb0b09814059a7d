-------------------------- MODULE SerializableStore --------------------------
(***************************************************************************)
(* What transactions and batches of a KVDK instance promise to each other: *)
(* a call reads and collects its writes, then takes effect in one step, at *)
(* which everything it has read is still current; or it has no effect.     *)
(***************************************************************************)
EXTENDS Naturals

CONSTANTS
  Caller,       \* the threads
  UserKey,      \* the keys callers name
  Place,        \* where values are: a number and a user key
  StoreValue    \* the values; 0 is none of them

VARIABLES
  db,    \* the value of each place
  txn    \* of each caller: its state, what it read, what it will write

storeVars == <<db, txn>>

IsWrites(w) ==
  DOMAIN w \subseteq UserKey /\ \A k \in DOMAIN w : w[k] \in StoreValue \union {0}
NoTxn == [state |-> "none", reads |-> {}, writes |-> [k \in {} |-> 0]]

StoreInit ==
  /\ db \in [Place -> StoreValue \union {0}]
  /\ txn = [c \in Caller |-> NoTxn]

Begin(c) ==
  /\ txn[c].state = "none"
  /\ IsWrites(txn'[c].writes)
  /\ txn' = [txn EXCEPT ![c] = [NoTxn EXCEPT !.state = "open",
                                            !.writes = txn'[c].writes]]
  /\ UNCHANGED db

\* Everything that a caller reads from the store is there at this moment.
Read(c) ==
  /\ txn[c].state = "open"
  /\ \E p \in Place : txn'[c].reads = txn[c].reads \union {<<p, db[p]>>}
  /\ txn' = [txn EXCEPT ![c].reads = txn'[c].reads]
  /\ UNCHANGED db

Write(c) ==
  /\ txn[c].state = "open"
  /\ IsWrites(txn'[c].writes)
  /\ txn' = [txn EXCEPT ![c].writes = txn'[c].writes]
  /\ UNCHANGED db

\* n is the collection that the elements belong to.
TakeEffect(c) ==
  /\ txn[c].state = "open"
  /\ \A r \in txn[c].reads : db[r[1]] = r[2]
  /\ \E n \in {0} \union {p[1] : p \in Place} :
       db' = [p \in Place |->
                IF p[1] \in {0, n} /\ p[2] \in DOMAIN txn[c].writes
                THEN txn[c].writes[p[2]] ELSE db[p]]
  /\ txn' = [txn EXCEPT ![c].state = "done"]

Fail(c) ==
  /\ txn[c].state = "open"
  /\ txn' = [txn EXCEPT ![c].state = "failed"]
  /\ UNCHANGED db

End(c) ==
  /\ txn' = [txn EXCEPT ![c] = NoTxn]
  /\ UNCHANGED db

StoreNext ==
  \E c \in Caller :
    Begin(c) \/ Read(c) \/ Write(c) \/ TakeEffect(c) \/ Fail(c) \/ End(c)

SerializableSpec == StoreInit /\ [][StoreNext]_storeVars
=============================================================================

----------------------------- MODULE AtomicStore -----------------------------
(***************************************************************************)
(* What the string writes of a KVDK instance promise, crashes included: a  *)
(* call, be it one key or a batch, takes effect in one step between its    *)
(* start and its return, or it fails and takes no effect at all.  A crash  *)
(* ends every call and leaves the store as it is.                          *)
(***************************************************************************)
EXTENDS Naturals

CONSTANTS
  Caller,   \* the threads that call
  StoreKey, \* the keys
  StoreValue \* the values; 0 is none of them

VARIABLES
  db,   \* the value of each key; 0: it has none
  call  \* what each caller asked for, and how far the call is

storeVars == <<db, call>>

NoCall == [state |-> "none", ops |-> <<>>]
Ops == UNION {[K -> {"Put", "Delete"}] : K \in SUBSET StoreKey \ {{}}}

StoreInit ==
  /\ db \in [StoreKey -> StoreValue \union {0}]
  /\ call = [c \in Caller |-> NoCall]

Invoke(c) ==
  /\ call[c].state = "none"
  /\ UNCHANGED db
  /\ \E o \in Ops : call' = [call EXCEPT ![c] = [state |-> "pending", ops |-> o]]

\* All keys change in one step, and to one new value.
TakeEffect(c) ==
  /\ call[c].state = "pending"
  /\ \E v \in StoreValue :
       db' = [k \in StoreKey |->
                IF k \notin DOMAIN call[c].ops THEN db[k]
                ELSE IF call[c].ops[k] = "Put" THEN v ELSE 0]
  /\ call' = [call EXCEPT ![c].state = "done"]

Fail(c) ==
  /\ call[c].state = "pending"
  /\ call' = [call EXCEPT ![c].state = "failed"]
  /\ UNCHANGED db

Return(c) ==
  /\ call[c].state \in {"done", "failed"}
  /\ call' = [call EXCEPT ![c] = NoCall]
  /\ UNCHANGED db

StoreCrash ==
  /\ call' = [c \in Caller |-> NoCall]
  /\ UNCHANGED db

StoreNext ==
  \/ UNCHANGED storeVars
  \/ \E c \in Caller : Invoke(c) \/ TakeEffect(c) \/ Fail(c) \/ Return(c)
  \/ StoreCrash

AtomicStoreSpec == StoreInit /\ [][StoreNext]_storeVars
=============================================================================

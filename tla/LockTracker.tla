---------------------------- MODULE LockTracker ----------------------------
(***************************************************************************)
(* What the confirmation tracker of a chain adapter promises (spec 4.2),   *)
(* with no goroutines, channels or RPCs: lock-ups of mined blocks become   *)
(* pending; a pending lock is promoted, that is sent downstream once and   *)
(* removed, when its block is MinConf deep below the tip; it is abandoned  *)
(* (removed, never sent) only once it is 4 * MinConf deep.  A transaction  *)
(* is taken in only while it is neither pending nor already sent.          *)
(***************************************************************************)
EXTENDS Integers, Sequences

CONSTANTS
    Tx,             \* lock-up transactions
    MinConf,        \* confirmations before promotion
    MaxHeight       \* bound: highest block the chain reaches

None == -1
Heights == 0..MaxHeight

VARIABLES
    tip,            \* height of the best block
    pending,        \* height of each pending lock, or None
    emitted         \* locks sent downstream, in order: [tx, h]

vars == <<tip, pending, emitted>>

\* Transactions already sent downstream.
Sent == {emitted[i].tx : i \in 1..Len(emitted)}

\* The chain grows.
Grow ==
    /\ tip < MaxHeight
    /\ tip' = tip + 1
    /\ UNCHANGED <<pending, emitted>>

\* A lock-up of a block at height h, at most the tip, is taken in.
Ingest(t, h) ==
    /\ pending[t] = None
    /\ t \notin Sent
    /\ h \in 0..tip
    /\ pending' = [pending EXCEPT ![t] = h]
    /\ UNCHANGED <<tip, emitted>>

\* A pending lock MinConf deep is sent once and removed.
Promote(t) ==
    /\ pending[t] # None
    /\ pending[t] + MinConf <= tip
    /\ emitted' = Append(emitted, [tx |-> t, h |-> pending[t]])
    /\ pending' = [pending EXCEPT ![t] = None]
    /\ UNCHANGED tip

\* A pending lock 4 * MinConf deep is dropped.
Abandon(t) ==
    /\ pending[t] # None
    /\ pending[t] + 4 * MinConf <= tip
    /\ pending' = [pending EXCEPT ![t] = None]
    /\ UNCHANGED <<tip, emitted>>

Init ==
    /\ tip = 0
    /\ pending = [t \in Tx |-> None]
    /\ emitted = << >>

Next ==
    \/ Grow
    \/ \E t \in Tx, h \in Heights : Ingest(t, h)
    \/ \E t \in Tx : Promote(t) \/ Abandon(t)

Spec == Init /\ [][Next]_vars

=============================================================================

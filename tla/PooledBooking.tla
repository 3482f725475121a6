--------------------------- MODULE PooledBooking ---------------------------
(***************************************************************************)
(* Booking as deployed: its requests run in replicas of the server, each    *)
(* with a bounded pool of connections of its own, and a replica may stop    *)
(* with requests in any stage and be restarted.  A statement outside a      *)
(* transaction borrows a connection for its duration; a transaction keeps   *)
(* one from its begin to its end, also while its insert waits for a row of  *)
(* another replica.                                                         *)
(***************************************************************************)
EXTENDS Booking, Integers, FiniteSets

CONSTANTS
  Replica,
  ReplicaOf,      \* the replica each request is sent to
  Unstable,       \* replicas that may stop
  MaxOpenConns    \* maxOpenConns

ASSUME ReplicaAssumption ==
  /\ ReplicaOf \in [Req -> Replica]
  /\ Unstable \subseteq Replica
  /\ \A r \in Req : ReplicaOf[r] \in Unstable => r \in FaultyReq
ASSUME MaxOpenConnsAssumption == MaxOpenConns \in Nat \ {0}

VARIABLES
  conns,   \* requests that keep a connection of their replica's pool
  up,      \* replicas that run
  lost     \* requests whose replica stopped under them

poolVars == <<conns, up, lost>>
pooledVars == <<vars, poolVars>>

PooledInit == Init /\ conns = {} /\ up = Replica /\ lost = {}

InFlightOn(n) == {r \in Req : ReplicaOf[r] = n /\ pc[r] \notin {"idle", "done"}}
InUse(n) == {r \in conns : ReplicaOf[r] = n}
Free(n) == Cardinality(InUse(n)) < MaxOpenConns
Runs(r) == ReplicaOf[r] \in up /\ r \notin lost

ArriveAt(r, c) ==
  /\ ReplicaOf[r] \in up
  /\ Arrive(r, c)
  /\ UNCHANGED poolVars

(* A statement of its own waits for a connection and gives it back.         *)
Statement(r) ==
  /\ Runs(r) /\ Free(ReplicaOf[r])
  /\ AuthorizeSession(r) \/ GetBusinessUser(r) \/ UpdateCanceledAt(r) \/ DeleteAccount(r)
  /\ UNCHANGED poolVars

(* Mutant: the connection is kept when nobody is available.                 *)
BeginTxLeaking(r) ==
  /\ Runs(r) /\ Free(ReplicaOf[r])
  /\ SelectInspectors(r)
  /\ conns' = conns \cup {r}
  /\ UNCHANGED <<up, lost>>

(* RunInTx takes a connection for the transaction and its first statement;  *)
(* without an available inspector it is rolled back and given back.         *)
BeginTx(r) ==
  /\ Runs(r) /\ Free(ReplicaOf[r])
  /\ SelectInspectors(r)
  /\ conns' = IF pc'[r] = "done" THEN conns ELSE conns \cup {r}
  /\ UNCHANGED <<up, lost>>

(* Mutant: the insert is issued on the database, not on the transaction.    *)
ContinueTxOutside(r) ==
  /\ Runs(r) /\ r \in conns
  /\ (InsertAppointment(r) /\ Free(ReplicaOf[r])) \/ Commit(r)
  /\ conns' = IF pc'[r] = "done" THEN conns \ {r} ELSE conns
  /\ UNCHANGED <<up, lost>>

(* The other statements run on that connection, until commit or rollback.   *)
ContinueTx(r) ==
  /\ Runs(r) /\ r \in conns
  /\ InsertAppointment(r) \/ Commit(r)
  /\ conns' = IF pc'[r] = "done" THEN conns \ {r} ELSE conns
  /\ UNCHANGED <<up, lost>>

(* A statement, or the wait for a connection, ends with an error.           *)
FailAt(r) ==
  /\ Runs(r)
  /\ Fail(r)
  /\ conns' = conns \ {r}
  /\ UNCHANGED <<up, lost>>

(* A replica stops: its requests go no further and its pool is gone, but    *)
(* the database still has their transactions open.                          *)
StopReplica(n) ==
  /\ n \in Unstable \cap up
  /\ up' = up \ {n}
  /\ lost' = lost \cup InFlightOn(n)
  /\ conns' = conns \ InUse(n)
  /\ UNCHANGED vars

StartReplica(n) ==
  /\ n \notin up
  /\ up' = up \cup {n}
  /\ UNCHANGED <<vars, conns, lost>>

(* The database notices that the client is gone and rolls back; a commit or *)
(* a statement of its own that was under way may have been carried out. The *)
(* client has an error either way.                                          *)
Resolve(r) ==
  /\ r \in lost
  /\ \/ Fail(r)
     \/ /\ Commit(r) \/ UpdateCanceledAt(r) \/ DeleteAccount(r)
        /\ reply'[r] = "internal"
  /\ UNCHANGED poolVars

PooledHandle(r) == Statement(r) \/ BeginTx(r) \/ ContinueTx(r)

PooledNext ==
  \/ \E i \in Inspector : CreateInspectorUser(i) /\ UNCHANGED poolVars
  \/ \E r \in Req :
       \/ \E c \in Call : ArriveAt(r, c)
       \/ PooledHandle(r)
       \/ FailAt(r)
       \/ Resolve(r)
  \/ \E n \in Replica : StopReplica(n) \/ StartReplica(n)

PooledSpec == PooledInit /\ [][PooledNext]_pooledVars

(* The Go scheduler runs every handler that has or can get a connection,    *)
(* the database answers every statement that nothing blocks and gets rid of *)
(* transactions without a client. Clients, the administrator and failures   *)
(* owe nothing; nothing makes a replica stop, or come back.                 *)
PooledFairSpec ==
  /\ PooledSpec
  /\ \A r \in Req : WF_pooledVars(PooledHandle(r)) /\ WF_pooledVars(Resolve(r))
-----------------------------------------------------------------------------
(* The pool and the database agree: connections are kept by exactly the     *)
(* requests that have a transaction open and still run, never more than the *)
(* limit of a replica, so an early return, an error or a rollback loses no  *)
(* connection; an open row has a request behind it that will end it.        *)
OpenTx(r) == pc[r] \in {"InsertAppointment", "Commit"}

PoolKept ==
  /\ conns = {r \in Req : OpenTx(r) /\ r \notin lost}
  /\ \A n \in Replica : Cardinality(InUse(n)) <= MaxOpenConns
  /\ \A a \in uncommitted : a.id \in conns \cup lost
  /\ \A r \in lost : pc[r] # "idle"

(* A request waits within a group when it needs a connection of a full pool *)
(* that the group keeps, or a key that is in an open row of the group.      *)
WaitsForConn(r) ==
  /\ pc[r] \notin {"idle", "done"} /\ ~OpenTx(r)
  /\ Runs(r) /\ ~Free(ReplicaOf[r])

WaitsWithin(r, G) ==
  \/ WaitsForConn(r) /\ InUse(ReplicaOf[r]) \subseteq G
  \/ pc[r] = "InsertAppointment" /\ \E q \in G : Occupied(OwnRows(q), call[r].slot, chosen[r])

(* Pools and rows are locked in one order: no requests wait only for each   *)
(* other, or for what a request that is over has left behind.               *)
NoCircularWait ==
  \A G \in SUBSET Req :
    (\A r \in G : pc[r] = "done" \/ WaitsWithin(r, G)) => \A r \in G : pc[r] = "done"

(* A full pool is full for a while only: a replica that runs has a free     *)
(* connection again, for the next request and for the ping of the health    *)
(* check, also when its transactions wait for rows that a stopped replica   *)
(* has left behind.                                                         *)
PoolRecovers == \A n \in Replica : []<>(n \in up => Free(n))
=============================================================================

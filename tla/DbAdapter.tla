----------------------------- MODULE DbAdapter -----------------------------
(***************************************************************************)
(* The PostgreSQL adapter under the repository (shared/db/pg-adapter.ts):  *)
(* a pool of connections shared by every request of the server, a context  *)
(* per request that carries the tenant's schema and the transaction, and   *)
(* the notifications the repository sends once a write is committed.       *)
(*                                                                         *)
(* A request is a stack of scopes: the context entered by withSearchPath,  *)
(* a transaction, or a savepoint for a transaction inside a transaction.   *)
(* Its body is any sequence of calls of the adapter (at most MaxOps in all)  *)
(* may throw at any point; a caller may go on after a nested transaction   *)
(* failed.  A write stands for any statement and carries the schema its    *)
(* author means, so that the schema it really ran in can be compared.      *)
(***************************************************************************)
EXTENDS Naturals, Sequences, FiniteSets, SequencesExt

CONSTANTS
    Requests,       \* handlers running in the server
    Conns,          \* the pool's connections: its size is pgPoolMax
    Schemas,        \* tenants' schemas, without "public"
    MaxOps,         \* calls of the adapter in a behaviour
    MaxLost         \* connections lost in a behaviour

Paths == Schemas \cup {"public"}
NoConn == "none"
NoPath == "unset"

ASSUME DbAssumption ==
    /\ Conns # {}
    /\ "public" \notin Schemas
    /\ NoConn \notin Conns \cup Requests
    /\ NoPath \notin Paths
    /\ MaxOps \in Nat
    /\ MaxLost \in Nat

VARIABLES
    scopes,      \* request -> its stack of contexts, innermost last
    call,        \* request -> what it awaits: "idle", "pool", "sql", or "threw"
    want,        \* request -> why it awaits a connection: "run" or "begin"
    ops,         \* calls made so far
    conn,        \* request -> the connection it holds outside a transaction
    queue,       \* requests waiting in pool.connect(), first come first served
    session,     \* connection -> search_path of the session
    local,       \* connection -> SET LOCAL search_path, or NoPath
    pending,     \* connection -> writes of its open transaction, oldest first
    holder,      \* connection -> the request it is handed to, or NoConn
    open,        \* connections with a live socket
    stored,      \* writes committed: <<request, op, schema meant, schema used>>
    told,        \* writes whose notification was delivered
    lost,        \* connections lost so far
    closing      \* "no", "pool" (pool.end), "sockets", "closed"

dbVars == <<scopes, call, want, ops, conn, queue, session, local, pending, holder,
            open, stored, told, lost, closing>>

(***************************************************************************)
(* The context of a request: AsyncLocalStorage's store.                    *)
(***************************************************************************)
Scope(kind, path) == [kind |-> kind, path |-> path, client |-> NoConn,
                      mark |-> 0, saved |-> 0, from |-> NoPath, callbacks |-> << >>]

Top(r) == Last(scopes[r])
Path(r) == Top(r).path

\* Positions of the scopes that hold the transaction and its savepoints.
TxAt(r) == {i \in DOMAIN scopes[r] : scopes[r][i].kind = "tx"}
InTx(r) == TxAt(r) # {}
TheTx(r) == CHOOSE i \in TxAt(r) : TRUE
Client(r) == IF InTx(r) THEN scopes[r][TheTx(r)].client ELSE conn[r]
Callbacks(r) == scopes[r][TheTx(r)].callbacks

SetPath(r, p) == [scopes EXCEPT ![r][Len(scopes[r])].path = p]
Push(r, s) == [scopes EXCEPT ![r] = Append(@, s)]
Drop(r) == [scopes EXCEPT ![r] = Front(@)]

NoRequest(r) == call[r] = "idle"
MayCall(r) == NoRequest(r) /\ ops < MaxOps
Counted == ops' = ops + 1
Await(r, what) == call' = [call EXCEPT ![r] = what]

\* Where a connection looks for an unqualified table: SET LOCAL hides the session's.
Resolved(mine, sessions) == IF mine # NoPath THEN mine ELSE sessions

DbInit ==
    /\ scopes = [r \in Requests |-> <<Scope("path", "public")>>]
    /\ call = [r \in Requests |-> "idle"]
    /\ want = [r \in Requests |-> "run"]
    /\ ops = 0
    /\ conn = [r \in Requests |-> NoConn]
    /\ queue = << >>
    /\ session = [c \in Conns |-> "public"]
    /\ local = [c \in Conns |-> NoPath]
    /\ pending = [c \in Conns |-> << >>]
    /\ holder = [c \in Conns |-> NoConn]
    /\ open = Conns
    /\ stored = {}
    /\ told = {}
    /\ lost = 0
    /\ closing = "no"

----------------------------------------------------------------------------
(* setSearchPath: the schema of the context the request runs in. *)
setSearchPath(r, p) ==
    /\ MayCall(r)
    /\ scopes' = SetPath(r, p)
    /\ Counted
    /\ UNCHANGED <<call, want, conn, queue, session, local, pending, holder, open,
                   stored, told, lost, closing>>

(* withSearchPath: a new context, the open transaction kept. *)
withSearchPath(r, p) ==
    /\ MayCall(r)
    /\ scopes' = Push(r, Scope("path", p))
    /\ Counted
    /\ UNCHANGED <<call, want, conn, queue, session, local, pending, holder, open,
                   stored, told, lost, closing>>

\* A callback of withSearchPath ends, with a result or an error.
LeavePath(r) ==
    /\ NoRequest(r)
    /\ Len(scopes[r]) > 1
    /\ Top(r).kind = "path"
    /\ scopes' = Drop(r)
    /\ UNCHANGED <<call, want, ops, conn, queue, session, local, pending, holder, open,
                   stored, told, lost, closing>>

(* runner: a statement goes to the transaction's client, or to one of the pool. *)
UsesTransaction(r) == InTx(r)

runner(r) ==
    /\ MayCall(r)
    /\ Counted
    /\ want' = [want EXCEPT ![r] = "run"]
    /\ IF UsesTransaction(r)
       THEN Await(r, "sql") /\ queue' = queue
       ELSE Await(r, "pool") /\ queue' = Append(queue, r)
    /\ UNCHANGED <<scopes, conn, session, local, pending, holder, open, stored, told,
                   lost, closing>>

(* transaction, outermost: it too waits for a client of the pool. *)
transaction(r) ==
    /\ MayCall(r)
    /\ ~InTx(r)
    /\ Counted
    /\ want' = [want EXCEPT ![r] = "begin"]
    /\ Await(r, "pool")
    /\ queue' = Append(queue, r)
    /\ UNCHANGED <<scopes, conn, session, local, pending, holder, open, stored, told,
                   lost, closing>>

(* The pool (external, pg-pool): an idle connection goes to the longest waiter; *)
(* one that was lost is replaced, with a fresh session.                         *)
PoolGives(c) ==
    /\ closing = "no"
    /\ queue # << >>
    /\ holder[c] = NoConn
    /\ LET r == Head(queue) IN
       /\ queue' = Tail(queue)
       /\ holder' = [holder EXCEPT ![c] = r]
       /\ conn' = [conn EXCEPT ![r] = c]
       /\ Await(r, "sql")
    /\ open' = open \cup {c}
    /\ session' = IF c \in open THEN session ELSE [session EXCEPT ![c] = "public"]
    /\ UNCHANGED <<scopes, want, ops, local, pending, stored, told, lost, closing>>

(* After pool.end() a waiting or new pool.connect() is refused: the call throws. *)
PoolRefuses ==
    /\ closing # "no"
    /\ queue # << >>
    /\ Await(Head(queue), "idle")
    /\ queue' = Tail(queue)
    /\ UNCHANGED <<scopes, want, ops, conn, session, local, pending, holder, open,
                   stored, told, lost, closing>>

(* BEGIN; SET LOCAL search_path, then the body runs with the client. *)
Begin(r) ==
    /\ call[r] = "sql"
    /\ want[r] = "begin"
    /\ conn[r] \in open
    /\ scopes' = Push(r, [Scope("tx", Path(r)) EXCEPT !.client = conn[r]])
    /\ local' = [local EXCEPT ![conn[r]] = Path(r)]
    /\ pending' = [pending EXCEPT ![conn[r]] = << >>]
    /\ Await(r, "idle")
    /\ UNCHANGED <<want, ops, conn, queue, session, holder, open, stored, told, lost,
                   closing>>

(* The search_path is set before every statement: LOCAL in a transaction. *)
SetsLocal(r) == InTx(r)

setPath(r) ==
    IF SetsLocal(r)
    THEN local' = [local EXCEPT ![Client(r)] = Path(r)] /\ session' = session
    ELSE session' = [session EXCEPT ![Client(r)] = Path(r)] /\ local' = local

afterCommitAtOnce(r, w) == told' = told \cup {w} /\ scopes' = scopes

(* Repository.notify through afterCommit: kept by the open transaction, or sent. *)
afterCommit(r, w) ==
    IF InTx(r)
    THEN /\ scopes' = [scopes EXCEPT ![r][TheTx(r)].callbacks = Append(@, w)]
         /\ told' = told
    ELSE /\ told' = told \cup {w}
         /\ scopes' = scopes

(* The statement of run, exec, get or all answers and its caller notifies.  *)
(* Outside a transaction it is committed and the client goes back.          *)
Statement(r) ==
    LET c == Client(r)
        w == <<r, ops, Path(r), Resolved(local'[c], session'[c])>> IN
    /\ call[r] = "sql"
    /\ want[r] = "run"
    /\ setPath(r)
    /\ c \in open
    /\ IF InTx(r)
       THEN /\ pending' = [pending EXCEPT ![c] = Append(@, w)]
            /\ UNCHANGED <<stored, holder, conn>>
       ELSE /\ stored' = stored \cup {w}
            /\ holder' = [holder EXCEPT ![c] = NoConn]
            /\ conn' = [conn EXCEPT ![r] = NoConn]
            /\ pending' = pending
    /\ afterCommit(r, w)
    /\ Await(r, "idle")
    /\ UNCHANGED <<want, ops, queue, open, lost, closing>>

\* The statement fails: a transaction's scope is left by FailTx or FailSavepoint.
StatementFails(r) ==
    LET c == Client(r) IN
    /\ call[r] = "sql"
    /\ IF InTx(r)
       THEN UNCHANGED <<holder, conn>>
       ELSE /\ holder' = [holder EXCEPT ![c] = NoConn]
            /\ conn' = [conn EXCEPT ![r] = NoConn]
    /\ Await(r, IF InTx(r) THEN "threw" ELSE "idle")
    /\ UNCHANGED <<scopes, want, ops, queue, session, local, pending, open, stored,
                   told, lost, closing>>

----------------------------------------------------------------------------
(* A transaction inside one: SAVEPOINT, remembering how many callbacks wait. *)
Savepoint(r) ==
    LET c == Client(r) IN
    /\ MayCall(r)
    /\ InTx(r)
    /\ c \in open
    /\ scopes' = Push(r, [Scope("sp", Path(r)) EXCEPT !.mark = Len(Callbacks(r)),
                                                     !.saved = Len(pending[c]),
                                                     !.from = local[c]])
    /\ Counted
    /\ UNCHANGED <<call, want, conn, queue, session, local, pending, holder, open,
                   stored, told, lost, closing>>

\* RELEASE SAVEPOINT: the nested writes belong to the transaction.
Release(r) ==
    /\ NoRequest(r)
    /\ Top(r).kind = "sp"
    /\ Client(r) \in open
    /\ scopes' = Drop(r)
    /\ UNCHANGED <<call, want, ops, conn, queue, session, local, pending, holder, open,
                   stored, told, lost, closing>>

(* callbacks.length = callbackCount *)
CallbacksKept(r, mark) == SubSeq(Callbacks(r), 1, mark)

(* The nested body or a statement of it threw: ROLLBACK TO SAVEPOINT, with the   *)
(* SET LOCAL made since undone, and the error goes on; its caller may catch it.  *)
(* On a lost connection the ROLLBACK TO fails and is ignored.                    *)
FailSavepoint(r, caught) ==
    LET c == Client(r)
        s == Top(r) IN
    /\ call[r] \in {"idle", "threw"}
    /\ s.kind = "sp"
    /\ scopes' = [Drop(r) EXCEPT ![r][TheTx(r)].callbacks = CallbacksKept(r, s.mark)]
    /\ pending' = [pending EXCEPT ![c] = IF c \in open THEN SubSeq(@, 1, s.saved) ELSE << >>]
    /\ local' = IF c \in open THEN [local EXCEPT ![c] = s.from] ELSE local
    /\ Await(r, IF caught THEN "idle" ELSE "threw")
    /\ UNCHANGED <<want, ops, conn, queue, session, holder, open, stored, told, lost,
                   closing>>

\* An error passes through withSearchPath's scope.
PassPath(r) ==
    /\ call[r] = "threw"
    /\ Top(r).kind = "path"
    /\ scopes' = Drop(r)
    /\ UNCHANGED <<call, want, ops, conn, queue, session, local, pending, holder, open,
                   stored, told, lost, closing>>

(* Set free by `finally { client.release() }`. *)
FreeClient(r, c) ==
    /\ scopes' = Drop(r)
    /\ holder' = [holder EXCEPT ![c] = NoConn]
    /\ conn' = [conn EXCEPT ![r] = NoConn]
    /\ pending' = [pending EXCEPT ![c] = << >>]
    /\ local' = [local EXCEPT ![c] = NoPath]
    /\ Await(r, "idle")

(* COMMIT succeeds and the callbacks run, one failing callback not stopping the rest. *)
Commit(r) ==
    LET c == Client(r) IN
    /\ NoRequest(r)
    /\ Top(r).kind = "tx"
    /\ c \in open
    /\ stored' = stored \cup Range(pending[c])
    /\ told' = told \cup Range(Callbacks(r))
    /\ FreeClient(r, c)
    /\ UNCHANGED <<want, ops, queue, session, open, lost, closing>>

(* The body, a statement or COMMIT throws: ROLLBACK, and the client goes back. *)
FailTx(r) ==
    /\ call[r] \in {"idle", "threw"}
    /\ Top(r).kind = "tx"
    /\ FreeClient(r, Client(r))
    /\ UNCHANGED <<want, ops, queue, session, open, stored, told, lost, closing>>

(* COMMIT takes effect and its answer is lost with the connection: an error. *)
CommitAnswerLost(r) ==
    LET c == Client(r) IN
    /\ lost < MaxLost
    /\ NoRequest(r)
    /\ Top(r).kind = "tx"
    /\ c \in open
    /\ stored' = stored \cup Range(pending[c])
    /\ open' = open \ {c}
    /\ lost' = lost + 1
    /\ FreeClient(r, c)
    /\ UNCHANGED <<want, ops, queue, session, told, closing>>

\* A connection breaks.
ConnLost(c) ==
    /\ lost < MaxLost
    /\ c \in open
    /\ closing = "no"
    /\ holder[c] # NoConn
    /\ open' = open \ {c}
    /\ lost' = lost + 1
    /\ UNCHANGED <<scopes, call, want, ops, conn, queue, session, local, pending,
                   holder, stored, told, closing>>

----------------------------------------------------------------------------
(* close: pool.end() waits for the clients in use, then for every socket's end. *)
Close ==
    /\ closing = "no"
    /\ closing' = "pool"
    /\ UNCHANGED <<scopes, call, want, ops, conn, queue, session, local, pending,
                   holder, open, stored, told, lost>>

PoolEnded ==
    /\ closing = "pool"
    /\ \A c \in Conns : holder[c] = NoConn
    /\ closing' = "sockets"
    /\ UNCHANGED <<scopes, call, want, ops, conn, queue, session, local, pending,
                   holder, open, stored, told, lost>>

\* The socket of a client the ending pool has dropped closes, later.
SocketEnds(c) ==
    /\ closing \in {"pool", "sockets"}
    /\ c \in open
    /\ holder[c] = NoConn
    /\ open' = open \ {c}
    /\ UNCHANGED <<scopes, call, want, ops, conn, queue, session, local, pending,
                   holder, stored, told, lost, closing>>

(* await Promise.all(connectedClients ... once("end")) *)
SocketsGone == open = {}

Closed ==
    /\ closing = "sockets"
    /\ SocketsGone
    /\ closing' = "closed"
    /\ UNCHANGED <<scopes, call, want, ops, conn, queue, session, local, pending,
                   holder, open, stored, told, lost>>

----------------------------------------------------------------------------
\* What a request does by itself once its awaited call is answered.
RequestStep(r) ==
    \/ \E p \in Paths : setSearchPath(r, p) \/ withSearchPath(r, p)
    \/ LeavePath(r) \/ runner(r) \/ transaction(r)
    \/ Begin(r) \/ Statement(r) \/ StatementFails(r)
    \/ Savepoint(r) \/ Release(r) \/ PassPath(r)
    \/ \E caught \in BOOLEAN : FailSavepoint(r, caught)
    \/ Commit(r) \/ FailTx(r) \/ CommitAnswerLost(r)

PoolStep == (\E c \in Conns : PoolGives(c)) \/ PoolRefuses

DbNext ==
    \/ \E r \in Requests : RequestStep(r)
    \/ PoolStep
    \/ \E c \in Conns : ConnLost(c) \/ SocketEnds(c)
    \/ Close \/ PoolEnded \/ Closed

DbSpec == DbInit /\ [][DbNext]_dbVars

----------------------------------------------------------------------------
(***************************************************************************)
(* Properties.                                                             *)
(***************************************************************************)

(* Tenant isolation (runner, pg-adapter.ts:77-91): a statement runs in the  *)
(* schema of the context its author called it in, whatever schema the same  *)
(* pooled connection, the enclosing transaction or a rolled-back savepoint  *)
(* used before.                                                             *)
StatementsInOwnSchema ==
    /\ \A w \in stored : w[3] = w[4]
    /\ \A c \in Conns : \A w \in Range(pending[c]) : w[3] = w[4]

(* A notification is delivered only for a write that is committed: never    *)
(* for one whose transaction, or whose savepoint, was rolled back           *)
(* (pg-adapter.ts:134,144,162).                                             *)
ToldIsCommitted == told \subseteq stored

(* ... and every committed write is notified once its request is out of its *)
(* transaction, unless a connection broke.                                  *)
CommittedIsTold ==
    lost = 0 => \A w \in stored : w \in told

(* No circular wait (pg-adapter.ts:79,83,132): whenever a request waits for *)
(* the pool, some connection is free or held by a request that is not itself *)
(* waiting, so transactions that hold the whole pool can still finish.       *)
SomeoneCanRelease ==
    queue # << >> => \E c \in Conns : holder[c] = NoConn \/ call[holder[c]] # "pool"

(* close reports closed only when every socket is gone and no handler still *)
(* holds a client (pg-adapter.ts:196-203).                                  *)
ClosedIsQuiet ==
    closing = "closed" => open = {} /\ \A r \in Requests : Client(r) = NoConn

\* The adapter as a whole: the claims above.
DbSafe ==
  /\ StatementsInOwnSchema
  /\ ToldIsCommitted
  /\ CommittedIsTold
  /\ ClosedIsQuiet
  /\ SomeoneCanRelease
============================================================================

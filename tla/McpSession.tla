----------------------------- MODULE McpSession -----------------------------
(***************************************************************************)
(* The session of frontend/src/services/mcpApi.ts: all tool calls of the   *)
(* page share one client, which the first of them connects and which a     *)
(* call that fails on its session or on its time limit throws away.        *)
(*                                                                         *)
(* One connection is one Client with its transport and, once open, one     *)
(* session of the server.  A connection that is thrown away while it is    *)
(* being opened stays in the hands of the calls that wait for it.          *)
(***************************************************************************)
EXTENDS Integers, Sequences, FiniteSets

CONSTANTS
    Callers,          \* what calls callMCPTool: a click or withRetry, again and again
    MaxConnections,   \* bound: connections made
    NoConnection      \* null

ASSUME NoConnectionAssumption == NoConnection \notin Nat

VARIABLES
    client,       \* the connection in client and transport, or null
    connecting,   \* the connection the promise connecting stands for, or null
    connection,   \* [1..made -> {"opening", "open", "failed", "closed"}]
    call,         \* [Callers -> [at, on]]: the stage and connection of each one's call
    orphaned      \* connections thrown away while they were being opened

svars == <<client, connecting, connection, call, orphaned>>

SessionInit ==
    /\ client = NoConnection /\ connecting = NoConnection
    /\ connection = <<>>
    /\ call = [k \in Callers |-> [at |-> "idle", on |-> NoConnection]]
    /\ orphaned = 0

Made == DOMAIN connection
Open == {n \in Made : connection[n] = "open"}

Move(k, stage, n) == call' = [call EXCEPT ![k] = [at |-> stage, on |-> n]]

Connect ==
    /\ Len(connection) < MaxConnections
    /\ connection' = Append(connection, "opening")
    /\ connecting' = Len(connection) + 1

\* Mutation: a connection that is being opened is not waited for.
GetClientAlone(k) ==
    /\ call[k].at = "idle"
    /\ IF client # NoConnection
       THEN Move(k, "ready", client) /\ UNCHANGED <<client, connecting, connection, orphaned>>
       ELSE Connect /\ Move(k, "waiting", connecting') /\ UNCHANGED <<client, orphaned>>

\* The client, or the promise of the connection being opened, or a new one.
GetClient(k) ==
    /\ call[k].at = "idle"
    /\ \/ /\ client # NoConnection
          /\ Move(k, "ready", client) /\ UNCHANGED <<connecting, connection>>
       \/ /\ client = NoConnection /\ connecting # NoConnection
          /\ Move(k, "waiting", connecting) /\ UNCHANGED <<connecting, connection>>
       \/ /\ client = NoConnection /\ connecting = NoConnection
          /\ Connect /\ Move(k, "waiting", connecting')
    /\ UNCHANGED <<client, orphaned>>

\* The handler of the promise: it takes the place of whatever client and
\* connecting hold by then.
Connected(n) ==
    /\ connection[n] = "opening"
    /\ connection' = [connection EXCEPT ![n] = "open"]
    /\ client' = n /\ connecting' = NoConnection
    /\ call' = [k \in Callers |-> IF call[k] = [at |-> "waiting", on |-> n]
                                    THEN [at |-> "ready", on |-> n] ELSE call[k]]
    /\ UNCHANGED orphaned

\* resetClient: the client is closed, whichever connection failed; one that is
\* being opened is forgotten and goes on.
ResetClient ==
    /\ client' = NoConnection /\ connecting' = NoConnection
    /\ connection' = [n \in Made |-> IF n = client THEN "closed" ELSE connection[n]]
    /\ orphaned' = orphaned + (IF connecting = NoConnection THEN 0 ELSE 1)

\* disconnectMCP, when App is unmounted: the calls under way go on, and those
\* of withRetry come again.
Disconnect == ResetClient /\ UNCHANGED call

\* The calls that wait for it are rejected one by one, see Rejected.
ConnectFails(n) ==
    /\ connection[n] = "opening"
    /\ connection' = [connection EXCEPT ![n] = "failed"]
    /\ connecting' = NoConnection
    /\ UNCHANGED <<client, call, orphaned>>

\* Of its message depends whether the failure counts as one of the session.
Rejected(k) ==
    /\ call[k].at = "waiting" /\ connection[call[k].on] = "failed"
    /\ Move(k, "idle", NoConnection)
    /\ ResetClient \/ UNCHANGED <<client, connecting, connection, orphaned>>

\* callTool on a connection closed meanwhile throws "Not connected".
Send(k) ==
    /\ call[k].at = "ready"
    /\ IF connection[call[k].on] = "open"
       THEN /\ Move(k, "sent", call[k].on)
            /\ UNCHANGED <<client, connecting, connection, orphaned>>
       ELSE Move(k, "idle", NoConnection) /\ ResetClient

\* An answer, or an error of the tool: neither touches the session.
Answer(k) ==
    /\ call[k].at = "sent" /\ connection[call[k].on] = "open"
    /\ Move(k, "idle", NoConnection)
    /\ UNCHANGED <<client, connecting, connection, orphaned>>

\* The server has forgotten the session, or the transport broke.
SessionError(k) ==
    /\ call[k].at = "sent" /\ connection[call[k].on] = "open"
    /\ Move(k, "idle", NoConnection)
    /\ ResetClient

\* "Connection closed": its connection was closed for another call.
ClosedUnder(k) ==
    /\ call[k].at = "sent" /\ connection[call[k].on] = "closed"
    /\ Move(k, "idle", NoConnection)
    /\ UNCHANGED <<client, connecting, connection, orphaned>>

\* Mutation: the time limit is set when the client is there.
TimeoutOfCallTool(k) ==
    /\ call[k].at = "sent"
    /\ Move(k, "idle", NoConnection)
    /\ ResetClient

\* 30 s after the call began, wherever it is.
Timeout(k) ==
    /\ call[k].at \in {"waiting", "sent"}
    /\ Move(k, "idle", NoConnection)
    /\ ResetClient

SessionNext ==
    \/ \E k \in Callers : \/ GetClient(k) \/ Rejected(k) \/ Send(k) \/ Answer(k)
                            \/ SessionError(k) \/ ClosedUnder(k) \/ Timeout(k)
    \/ \E n \in Made : Connected(n) \/ ConnectFails(n)
    \/ Disconnect

SessionSpec == SessionInit /\ [][SessionNext]_svars

\* Timers fire and code that can run does; the network may do nothing.
SessionFairness ==
    \A k \in Callers : WF_svars(Send(k)) /\ WF_svars(Timeout(k))

----------------------------------------------------------------------------
\* The comment "MUST reuse to avoid session leak", as far as it holds: clicks
\* however rapid, failures, time limits and an unmount share one session.  Only
\* a connection that is thrown away while it is being opened, and opens after
\* that, is one more: nobody closes it, or the client it then overwrites.
SessionsAreAccounted == Cardinality(Open) <= 1 + orphaned

\* A call that was made ends, well or not, whatever the network does.
EveryCallEnds ==
    \A k \in Callers : call[k].at # "idle" ~> call[k].at = "idle"
=============================================================================

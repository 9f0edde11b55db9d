---------------------------- MODULE TunnelServer ----------------------------
(***************************************************************************)
(* The tunnel server of a DockerService and the client that dials it.      *)
(*                                                                         *)
(* The server relays TCP connections through the yamux session of a client *)
(* to one of its targets.  The operator tells it the targets twice: in a   *)
(* file, which is a mounted ConfigMap and lags behind it, and in a push    *)
(* over HTTP, which wins over the file for Window ticks.                   *)
(*                                                                         *)
(* Every handler is a goroutine.  What it does while it holds the mutex is *)
(* one step; reading the file is a step of its own, before it.             *)
(***************************************************************************)
EXTENDS Integers, Sequences, SequencesExt

CONSTANTS
  None,
  Targets,       \* host:port addresses
  Lists,         \* the target lists the operator may send; nothing keeps an
                 \* address from occurring twice in one
  Conns,         \* TCP connections, each accepted once
  Sessions,      \* yamux sessions, each dialled once
  Loaders,       \* goroutines that load the file: the watcher and requests
  Watcher,       \* the loader that runs every 5 seconds
  TokenAccepted, \* the client was started with the server's token
  Window,        \* how long a push wins: 2 minutes
  MaxEvents      \* pushes, changes of the file, cuts and restarts, together

ASSUME ServerAssumption ==
  /\ Lists \subseteq Seq(Targets) /\ <<>> \in Lists
  /\ None \notin Lists /\ None \notin Sessions /\ None \notin Nat
  /\ Watcher \in Loaders
  /\ TokenAccepted \in BOOLEAN
  /\ Window \in Nat \ {0}
  /\ MaxEvents \in Nat

VARIABLES
  \* the Server struct
  targets, pushTargets,
  lastPush,    \* how long ago the last push was, up to Window; None: never
  rrIndex,
  sessions,    \* a sequence
  \* its goroutines
  loaded,      \* loader -> the list it has read and not applied, or None
  ws,          \* session -> where its handleWS is
  conns,       \* connection -> where its handleTCP is, with its session
  \* their surroundings
  file,        \* the mounted targets file
  client,      \* the session the tunnel client serves, or None
  up, closed,  \* sessions whose link works, and that yamux has given up
  served,      \* entry of targets -> connections sent to it since they changed
  events

targetVars == <<targets, pushTargets, lastPush, served>>
sessionVars == <<sessions, ws, client, up, closed>>
vars == <<targetVars, rrIndex, loaded, conns, file, sessionVars, events>>

NotServed(l) == [i \in 1..Len(l) |-> 0]
NewConn == [pc |-> "new", sess |-> None]

Init ==
  /\ targets = <<>> /\ pushTargets = <<>> /\ lastPush = None /\ served = <<>>
  /\ rrIndex = 0
  /\ sessions = <<>>
  /\ loaded = [l \in Loaders |-> None]
  /\ ws = [s \in Sessions |-> "undialled"]
  /\ conns = [c \in Conns |-> NewConn]
  /\ file \in Lists
  /\ client = None /\ up = {} /\ closed = {}
  /\ events = 0

\* Something happens that is not the server's or the client's doing.
Event == events < MaxEvents /\ events' = events + 1

-----------------------------------------------------------------------------
(* The targets: handleReload, watchTargetsFile, loadTargetsFromFile.       *)

\* Mutant: the new list is added to the old one.
SetTargetsAppend(l) ==
  /\ targets' = targets \o l
  /\ served' = NotServed(targets')

SetTargets(l) ==
  /\ targets' = l
  /\ served' = IF l = targets THEN served ELSE NotServed(l)

\* POST /reload with targets.
AcceptPush(l) ==
  /\ l # <<>>
  /\ SetTargets(l)
  /\ pushTargets' = l /\ lastPush' = 0
  /\ UNCHANGED <<rrIndex, loaded, conns, file, sessionVars>>

Push(l) == Event /\ AcceptPush(l)

\* loadTargetsFromFile up to the lock.  Any loader but the watcher is a POST
\* /reload without targets: what the operator sends when it has none.
StartLoad(l) ==
  /\ loaded[l] = None
  /\ loaded' = [loaded EXCEPT ![l] = file]
  /\ UNCHANGED <<targetVars, rrIndex, conns, file, sessionVars>>

ReadFile(l) ==
  /\ StartLoad(l)
  /\ IF l = Watcher THEN UNCHANGED events ELSE Event

\* Mutant: a push wins for ever.
PushWinsForever(new) == lastPush # None /\ new # pushTargets

\* Mutant: the file wins over a push.
PushNeverWins(new) == FALSE

\* A push of something else than the file says is too recent to give way.
PushWins(new) == lastPush # None /\ lastPush < Window /\ new # pushTargets

\* loadTargetsFromFile from the lock on.
LoadTargets(l) ==
  /\ loaded[l] # None
  /\ IF PushWins(loaded[l]) THEN UNCHANGED targetVars
     ELSE SetTargets(loaded[l]) /\ UNCHANGED <<pushTargets, lastPush>>
  /\ loaded' = [loaded EXCEPT ![l] = None]
  /\ UNCHANGED <<rrIndex, conns, file, sessionVars, events>>

\* The kubelet brings the mounted file up to date with the ConfigMap.
RefreshFile(l) ==
  /\ l # file /\ file' = l
  /\ UNCHANGED <<targetVars, rrIndex, loaded, conns, sessionVars>>

WriteFile(l) == Event /\ RefreshFile(l)

Tick ==
  /\ lastPush # None /\ lastPush < Window
  /\ lastPush' = lastPush + 1
  /\ UNCHANGED <<targets, pushTargets, served, rrIndex, loaded, conns, file,
                 sessionVars, events>>

-----------------------------------------------------------------------------
(* The sessions: handleWS, and the client's Start and connectAndServe.     *)

\* The client dials: token, upgrade, yamux on both sides.  A refused token is
\* an error, after which it sleeps and dials again.
Dial(s) ==
  /\ client = None /\ ws[s] = "undialled" /\ TokenAccepted
  /\ ws' = [ws EXCEPT ![s] = "accepted"]
  /\ client' = s /\ up' = up \cup {s}
  /\ UNCHANGED <<targetVars, rrIndex, loaded, conns, file, sessions, closed, events>>

Register(s) ==
  /\ ws[s] = "accepted"
  /\ sessions' = Append(sessions, s)
  /\ ws' = [ws EXCEPT ![s] = "serving"]
  /\ UNCHANGED <<targetVars, rrIndex, loaded, conns, file, client, up, closed, events>>

\* Mutant: the session at the front is taken for the handler's own.
UnregisterFirst(s) ==
  /\ ws[s] = "serving" /\ s \in closed
  /\ sessions' = Tail(sessions)
  /\ ws' = [ws EXCEPT ![s] = "left"]
  /\ UNCHANGED <<targetVars, rrIndex, loaded, conns, file, client, up, closed, events>>

\* handleWS looks every second whether its session is closed, and then takes
\* the first entry that is its own out of the registry.
Unregister(s) ==
  /\ ws[s] = "serving" /\ s \in closed
  /\ IF \E i \in 1..Len(sessions) : sessions[i] = s
       THEN \E i \in 1..Len(sessions) :
              /\ sessions[i] = s /\ \A j \in 1..(i - 1) : sessions[j] # s
              /\ sessions' = RemoveAt(sessions, i)
       ELSE UNCHANGED sessions
  /\ ws' = [ws EXCEPT ![s] = "left"]
  /\ UNCHANGED <<targetVars, rrIndex, loaded, conns, file, client, up, closed, events>>

\* The network breaks a link; neither side knows yet.
Cut(s) ==
  /\ s \in up /\ Event
  /\ up' = up \ {s}
  /\ UNCHANGED <<targetVars, rrIndex, loaded, conns, file, sessions, ws, client, closed>>

\* Mutant: the keep-alive is off, and a handler sees its session end only
\* when the client says so.
ExpireNever(s) ==
  /\ FALSE /\ s \in up
  /\ UNCHANGED vars

\* yamux's keep-alive on the server misses its answer.
Expire(s) ==
  /\ ws[s] \in {"accepted", "serving"} /\ s \notin up /\ s \notin closed
  /\ closed' = closed \cup {s}
  /\ UNCHANGED <<targetVars, rrIndex, loaded, conns, file, sessions, ws, client, up, events>>

\* Mutant: the client ends with its first session.
HangUpForGood ==
  /\ FALSE
  /\ UNCHANGED vars

\* session.Accept fails, connectAndServe returns, Start dials again.
HangUp ==
  /\ client # None /\ client \notin up
  /\ client' = None
  /\ UNCHANGED <<targetVars, rrIndex, loaded, conns, file, sessions, ws, up, closed, events>>

-----------------------------------------------------------------------------
(* The connections: handleTCP and, at the client, handleStream.            *)

\* Mutant: the index is not advanced.
SelectFirst(c) ==
  /\ conns[c].pc = "new"
  /\ IF sessions = <<>> \/ targets = <<>>
       THEN /\ conns' = [conns EXCEPT ![c].pc = "dropped"]
            /\ UNCHANGED <<rrIndex, served>>
       ELSE LET entry == (rrIndex % Len(targets)) + 1
                sess  == sessions[(rrIndex % Len(sessions)) + 1]
            IN  /\ conns' = [conns EXCEPT ![c] = [pc |-> "open", sess |-> sess]]
                /\ served' = [served EXCEPT ![entry] = @ + 1]
                /\ UNCHANGED rrIndex
  /\ UNCHANGED <<targets, pushTargets, lastPush, loaded, file, sessionVars, events>>

\* Target and session are chosen under the lock, by the same index.
Select(c) ==
  /\ conns[c].pc = "new"
  /\ IF sessions = <<>> \/ targets = <<>>
       THEN /\ conns' = [conns EXCEPT ![c].pc = "dropped"]
            /\ UNCHANGED <<rrIndex, served>>
       ELSE LET entry == (rrIndex % Len(targets)) + 1
                sess  == sessions[(rrIndex % Len(sessions)) + 1]
            IN  /\ conns' = [conns EXCEPT ![c] = [pc |-> "open", sess |-> sess]]
                /\ served' = [served EXCEPT ![entry] = @ + 1]
                /\ rrIndex' = rrIndex + 1
  /\ UNCHANGED <<targets, pushTargets, lastPush, loaded, file, sessionVars, events>>

MoveConn(c, pc) ==
  /\ conns' = [conns EXCEPT ![c].pc = pc]
  /\ UNCHANGED <<targetVars, rrIndex, loaded, file, sessionVars, events>>

\* sess.Open and the header line, which a session that is closed refuses; one
\* whose link is cut takes them.
OpenStream(c) ==
  /\ conns[c].pc = "open"
  /\ MoveConn(c, IF conns[c].sess \in closed THEN "dropped" ELSE "relay")

\* One of the two copies ends: a side hangs up or the client cannot dial the
\* target.
EndRelay(c) == conns[c].pc = "relay" /\ MoveConn(c, "done")

\* The session is closed, and with it the streams the copies read and write.
AbortRelay(c) ==
  /\ conns[c].pc = "relay" /\ conns[c].sess \in closed
  /\ MoveConn(c, "dropped")

-----------------------------------------------------------------------------

\* The pod is replaced: nothing of the server survives, the client's link is
\* cut, and no list is known until the file is read.
StartServer ==
  /\ targets' = <<>> /\ pushTargets' = <<>> /\ lastPush' = None /\ served' = <<>>
  /\ rrIndex' = 0 /\ sessions' = <<>>
  /\ loaded' = [l \in Loaders |-> None]
  /\ ws' = [s \in Sessions |-> IF ws[s] = "undialled" THEN "undialled" ELSE "left"]
  /\ conns' = [c \in Conns |-> IF conns[c].pc \notin {"open", "relay"} THEN conns[c]
                               ELSE [conns[c] EXCEPT !.pc = "dropped"]]
  /\ up' = {}
  /\ UNCHANGED <<file, client, closed>>

Restart == Event /\ StartServer

Serve ==
  \/ ReadFile(Watcher) \/ HangUp
  \/ \E l \in Loaders : LoadTargets(l)
  \/ \E s \in Sessions : Register(s) \/ Unregister(s)
  \/ \E c \in Conns : OpenStream(c) \/ AbortRelay(c)

Environment ==
  \/ Restart
  \/ \E l \in Lists : Push(l) \/ WriteFile(l)
  \/ \E l \in Loaders \ {Watcher} : ReadFile(l)
  \/ \E s \in Sessions : Cut(s)
  \/ \E c \in Conns : Select(c) \/ EndRelay(c)

Next ==
  \/ Serve \/ Tick \/ Environment
  \/ \E s \in Sessions : Dial(s) \/ Expire(s)

\* Goroutines run on, the watcher's ticker ticks, the client keeps dialling
\* and the keep-alive notices a broken link.  Nothing is asked of users.
Spec ==
  /\ Init /\ [][Next]_vars
  /\ WF_vars(Tick) /\ WF_vars(ReadFile(Watcher)) /\ WF_vars(HangUp)
  /\ \A l \in Loaders : WF_vars(LoadTargets(l))
  /\ \A s \in Sessions : WF_vars(Register(s)) /\ WF_vars(Unregister(s)) /\ WF_vars(Expire(s))
  /\ \A c \in Conns : WF_vars(OpenStream(c)) /\ WF_vars(AbortRelay(c))
  /\ WF_vars(\E s \in Sessions : Dial(s))

-----------------------------------------------------------------------------
(* Properties.                                                             *)

\* Every variable holds what the code's types allow; what is registered was
\* dialled.
TypeOK ==
  /\ targets \in Lists /\ pushTargets \in Lists /\ file \in Lists
  /\ lastPush \in 0..Window \cup {None}
  /\ rrIndex \in Nat
  /\ served \in [1..Len(targets) -> Nat]
  /\ loaded \in [Loaders -> Lists \cup {None}]
  /\ sessions \in Seq(Sessions)
  /\ ws \in [Sessions -> {"undialled", "accepted", "serving", "left"}]
  /\ conns \in [Conns -> [pc : {"new", "open", "relay", "done", "dropped"},
                          sess : Sessions \cup {None}]]
  /\ client \in Sessions \cup {None}
  /\ up \subseteq Sessions /\ closed \subseteq Sessions
  /\ events \in 0..MaxEvents

\* For two minutes the server's targets are the ones of its last push, however
\* old the file was that a loader read before or after the push.
PushHolds ==
  (lastPush # None /\ lastPush < Window) => targets = pushTargets

\* The registry holds the sessions whose handler is in its loop, each once:
\* no handler takes away another one's.
RegistryExact ==
  /\ \A s \in Sessions :
       ws[s] = "serving" <=> \E i \in 1..Len(sessions) : sessions[i] = s
  /\ \A i, j \in 1..Len(sessions) : sessions[i] = sessions[j] => i = j

\* Connections are spread evenly over the entries of the list as long as it
\* stays the same, whatever sessions come and go and however handlers
\* interleave: an address that occurs twice, in containers of two hosts, gets
\* two shares.
SpreadEven ==
  \A i, j \in 1..Len(targets) : served[i] <= served[j] + 1

\* A client with the right token is the one registered at last, over a link
\* that works, and broken sessions are gone.
ClientReconnects ==
  TokenAccepted => <>[](client # None /\ client \in up /\ sessions = <<client>>)

\* A connection given to a session is let go when the session's link breaks:
\* nobody hangs for ever on a client that is gone.
NoConnStuck ==
  \A c \in Conns :
    (conns[c].pc \in {"open", "relay"} /\ conns[c].sess \notin up)
      ~> conns[c].pc \in {"done", "dropped"}
=============================================================================

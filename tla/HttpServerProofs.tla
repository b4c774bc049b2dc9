-------------------------- MODULE HttpServerProofs ---------------------------
(***************************************************************************)
(* Proofs about HttpServer, for any clients and any table of descriptors.  *)
(***************************************************************************)
EXTENDS HttpServer, LeastElements

-----------------------------------------------------------------------------
(***************************************************************************)
(* The inductive invariant.  A task's number may come to refer to another  *)
(* client's connection, so what is said of a task is said of the number it *)
(* will close, never of the connection behind it.                          *)
(***************************************************************************)

\* A client connects once, and its connection is in the backlog, or with the
\* server, or with its task, one after the other.
OnceInv ==
  /\ \A c \in Clients :
       /\ c \in backlog => peer[c] # "out" /\ tasks[c].pc = "none"
       /\ tasks[c].pc # "none" => peer[c] # "out"
  /\ server.pc = "spawn" =>
       /\ server.client \in Clients /\ server.client \notin backlog
       /\ peer[server.client] # "out" /\ tasks[server.client].pc = "none"

\* The listening socket has a number that no task and no connection has got.
ListenerInv ==
  /\ server.pc = "socket" => \A c \in Clients : tasks[c].pc = "none"
  /\ server.pc \in {"bind", "accept", "spawn"} =>
       /\ server.s \in Fds /\ fds[server.s] = Listening
       /\ \A c \in Clients : tasks[c].pc # "none" => tasks[c].fd # server.s
  /\ server.pc = "spawn" => server.fd \in Fds \ {server.s}

HttpInv == TypeOK /\ OnceInv /\ ListenerInv /\ NoConnectionLeaks

-----------------------------------------------------------------------------
(***************************************************************************)
(* Every action of the specification, for proofs by cases.                 *)
(***************************************************************************)
LEMMA NextCases ==
  ASSUME [Next]_vars
  PROVE  \/ \E c \in Clients :
              \/ Connect(c) \/ Leave(c) \/ Accept(c)
              \/ RecvFails(c) \/ RecvOther(c) \/ RecvGet(c)
              \/ WritePage(c) \/ FClose(c) \/ CloseClient(c)
         \/ SocketFails \/ OpenSocket \/ BindFails \/ BindAndListen
         \/ ListenFails \/ AcceptFails \/ Spawn \/ SpawnFails
         \/ UNCHANGED vars
BY DEF Next, Client, Server, ServerFails, OneClient

\* The kernel hands out a free descriptor as long as there is one.
LEMMA LowestIsFree ==
  ASSUME FreeFds # {}
  PROVE  Min(FreeFds) \in Fds /\ fds[Min(FreeFds)] = Free
<1>1. FreeFds \subseteq Nat
  BY HttpAssumption DEF FreeFds
<1>2. \E x \in FreeFds : \A y \in FreeFds : x <= y
  BY <1>1, LeastElement
<1>3. Min(FreeFds) \in FreeFds
  BY <1>2 DEF Min
<1> QED  BY <1>3 DEF FreeFds

-----------------------------------------------------------------------------
(* Types                                                                   *)

LEMMA TypeInit == Init => TypeOK
BY DEF Init, TypeOK, NoFd

LEMMA TypeNext == TypeOK /\ [Next]_vars => TypeOK'
<1> SUFFICES ASSUME TypeOK, [Next]_vars PROVE TypeOK'
  OBVIOUS
<1> USE DEF TypeOK
<1>1. ASSUME NEW c \in Clients, Connect(c) PROVE TypeOK'
  BY <1>1 DEF Connect
<1>2. ASSUME NEW c \in Clients, Leave(c) PROVE TypeOK'
  BY <1>2 DEF Leave
<1>3. ASSUME NEW c \in Clients, Accept(c) PROVE TypeOK'
  BY <1>3, LowestIsFree DEF Accept
<1>4. ASSUME NEW c \in Clients, RecvFails(c) PROVE TypeOK'
  BY <1>4 DEF RecvFails, Close, Drop, Goto
<1>5. ASSUME NEW c \in Clients, RecvOther(c) PROVE TypeOK'
  BY <1>5 DEF RecvOther, Goto
<1>6. ASSUME NEW c \in Clients, RecvGet(c) PROVE TypeOK'
  BY <1>6 DEF RecvGet, Goto
<1>7. ASSUME NEW c \in Clients, WritePage(c) PROVE TypeOK'
  BY <1>7 DEF WritePage, Goto
<1>8. ASSUME NEW c \in Clients, FClose(c) PROVE TypeOK'
  BY <1>8 DEF FClose, Close, Drop, Goto
<1>9. ASSUME NEW c \in Clients, CloseClient(c) PROVE TypeOK'
  BY <1>9 DEF CloseClient, Close, Drop, Goto
<1>10. CASE SocketFails
  BY <1>10 DEF SocketFails
<1>11. CASE OpenSocket
  BY <1>11, LowestIsFree DEF OpenSocket
<1>12. CASE BindFails
  BY <1>12 DEF BindFails
<1>13. CASE BindAndListen
  BY <1>13 DEF BindAndListen
<1>14. CASE ListenFails
  BY <1>14 DEF ListenFails, EndServer, Close, Drop
<1>15. CASE AcceptFails
  BY <1>15 DEF AcceptFails, EndServer, Close, Drop
<1>16. CASE Spawn
  BY <1>16 DEF Spawn
<1>17. CASE SpawnFails
  BY <1>17 DEF SpawnFails, EndServer, Close, Drop
<1>18. CASE UNCHANGED vars
  BY <1>18 DEF vars
<1> QED
  BY <1>1, <1>2, <1>3, <1>4, <1>5, <1>6, <1>7, <1>8, <1>9, <1>10, <1>11, <1>12,
     <1>13, <1>14, <1>15, <1>16, <1>17, <1>18, NextCases

-----------------------------------------------------------------------------
(* A client connects once                                                  *)

LEMMA OnceInit == Init => OnceInv
BY DEF Init, OnceInv

LEMMA OnceNext == TypeOK /\ OnceInv /\ [Next]_vars => OnceInv'
<1> SUFFICES ASSUME TypeOK, OnceInv, [Next]_vars PROVE OnceInv'
  OBVIOUS
<1> USE DEF TypeOK, OnceInv
<1>1. ASSUME NEW c \in Clients, Connect(c) PROVE OnceInv'
  BY <1>1 DEF Connect
<1>2. ASSUME NEW c \in Clients, Leave(c) PROVE OnceInv'
  BY <1>2 DEF Leave
<1>3. ASSUME NEW c \in Clients, Accept(c) PROVE OnceInv'
  BY <1>3 DEF Accept
<1>4. ASSUME NEW c \in Clients, RecvFails(c) PROVE OnceInv'
  BY <1>4 DEF RecvFails, Close, Drop, Goto
<1>5. ASSUME NEW c \in Clients, RecvOther(c) PROVE OnceInv'
  BY <1>5 DEF RecvOther, Goto
<1>6. ASSUME NEW c \in Clients, RecvGet(c) PROVE OnceInv'
  BY <1>6 DEF RecvGet, Goto
<1>7. ASSUME NEW c \in Clients, WritePage(c) PROVE OnceInv'
  BY <1>7 DEF WritePage, Goto
<1>8. ASSUME NEW c \in Clients, FClose(c) PROVE OnceInv'
  BY <1>8 DEF FClose, Close, Drop, Goto
<1>9. ASSUME NEW c \in Clients, CloseClient(c) PROVE OnceInv'
  BY <1>9 DEF CloseClient, Close, Drop, Goto
<1>10. CASE SocketFails
  BY <1>10 DEF SocketFails
<1>11. CASE OpenSocket
  BY <1>11 DEF OpenSocket
<1>12. CASE BindFails
  BY <1>12 DEF BindFails
<1>13. CASE BindAndListen
  BY <1>13 DEF BindAndListen
<1>14. CASE ListenFails
  BY <1>14 DEF ListenFails, EndServer, Close, Drop
<1>15. CASE AcceptFails
  BY <1>15 DEF AcceptFails, EndServer, Close, Drop
<1>16. CASE Spawn
  BY <1>16 DEF Spawn
<1>17. CASE SpawnFails
  BY <1>17 DEF SpawnFails, EndServer, Close, Drop
<1>18. CASE UNCHANGED vars
  BY <1>18 DEF vars
<1> QED
  BY <1>1, <1>2, <1>3, <1>4, <1>5, <1>6, <1>7, <1>8, <1>9, <1>10, <1>11, <1>12,
     <1>13, <1>14, <1>15, <1>16, <1>17, <1>18, NextCases

-----------------------------------------------------------------------------
(* The listening socket                                                    *)

LEMMA ListenerInit == Init => ListenerInv
BY DEF Init, ListenerInv

LEMMA ListenerNext ==
  TypeOK /\ ListenerInv /\ [Next]_vars => ListenerInv'
<1> SUFFICES ASSUME TypeOK, ListenerInv, [Next]_vars PROVE ListenerInv'
  OBVIOUS
<1> USE DEF TypeOK, ListenerInv
<1>1. ASSUME NEW c \in Clients, Connect(c) PROVE ListenerInv'
  BY <1>1 DEF Connect
<1>2. ASSUME NEW c \in Clients, Leave(c) PROVE ListenerInv'
  BY <1>2 DEF Leave
<1>3. ASSUME NEW c \in Clients, Accept(c) PROVE ListenerInv'
  BY <1>3, LowestIsFree, HttpAssumption DEF Accept
<1>4. ASSUME NEW c \in Clients, RecvFails(c) PROVE ListenerInv'
  BY <1>4 DEF RecvFails, Close, Drop, Goto
<1>5. ASSUME NEW c \in Clients, RecvOther(c) PROVE ListenerInv'
  BY <1>5 DEF RecvOther, Goto
<1>6. ASSUME NEW c \in Clients, RecvGet(c) PROVE ListenerInv'
  BY <1>6 DEF RecvGet, Goto
<1>7. ASSUME NEW c \in Clients, WritePage(c) PROVE ListenerInv'
  BY <1>7 DEF WritePage, Goto
<1>8. ASSUME NEW c \in Clients, FClose(c) PROVE ListenerInv'
  BY <1>8 DEF FClose, Close, Drop, Goto
<1>9. ASSUME NEW c \in Clients, CloseClient(c) PROVE ListenerInv'
  BY <1>9 DEF CloseClient, Close, Drop, Goto
<1>10. CASE SocketFails
  BY <1>10 DEF SocketFails
<1>11. CASE OpenSocket
  BY <1>11, LowestIsFree DEF OpenSocket
<1>12. CASE BindFails
  BY <1>12 DEF BindFails
<1>13. CASE BindAndListen
  BY <1>13 DEF BindAndListen
<1>14. CASE ListenFails
  BY <1>14 DEF ListenFails, EndServer, Close, Drop
<1>15. CASE AcceptFails
  BY <1>15 DEF AcceptFails, EndServer, Close, Drop
<1>16. CASE Spawn
  BY <1>16 DEF Spawn
<1>17. CASE SpawnFails
  BY <1>17 DEF SpawnFails, EndServer, Close, Drop
<1>18. CASE UNCHANGED vars
  BY <1>18 DEF vars
<1> QED
  BY <1>1, <1>2, <1>3, <1>4, <1>5, <1>6, <1>7, <1>8, <1>9, <1>10, <1>11, <1>12,
     <1>13, <1>14, <1>15, <1>16, <1>17, <1>18, NextCases

-----------------------------------------------------------------------------
(* Connections and descriptors                                             *)

LEMMA LeakInit == Init => NoConnectionLeaks
BY HttpAssumption DEF Init, NoConnectionLeaks

\* A task that closes its number leaves no connection at it.
LEMMA TaskCloses ==
  ASSUME TypeOK, NoConnectionLeaks, NEW c \in Clients,
         Close({tasks[c].fd}), Drop(EndOf({tasks[c].fd})),
         server' = server, backlog' = backlog, NEW pc, Goto(c, pc)
  PROVE  NoConnectionLeaks'
<1> DEFINE closed == tasks[c].fd
<1>1. ASSUME NEW fd \in Fds, fds'[fd] \in Clients PROVE Held(fd)'
  <2>1. fd # closed /\ fds[fd] \in Clients
    BY <1>1, HttpAssumption DEF Close
  <2>2. Held(fd)
    BY <2>1 DEF NoConnectionLeaks
  <2> QED  BY <2>1, <2>2 DEF Held, Goto, TypeOK
<1>2. ASSUME NEW d \in Clients, peer'[d] = "open"
      PROVE  d \in backlog' \cup EndOf(Fds)'
  <2>1. peer[d] = "open" /\ d \notin EndOf({closed})
    BY <1>2 DEF Drop, TypeOK
  <2>2. CASE d \in backlog
    BY <2>2
  <2>3. CASE d \in EndOf(Fds)
    <3>1. PICK fd \in Fds : fds[fd] = d
      BY <2>3 DEF EndOf
    <3>2. fd # closed
      BY <2>1, <3>1 DEF EndOf
    <3>3. fds'[fd] = d
      BY <3>1, <3>2 DEF Close
    <3> QED  BY <3>3 DEF EndOf
  <2> QED  BY <2>1, <2>2, <2>3 DEF NoConnectionLeaks
<1> QED  BY <1>1, <1>2 DEF NoConnectionLeaks

\* The server that ends closes the number it holds, and drops the backlog.
LEMMA ServerCloses ==
  ASSUME TypeOK, NoConnectionLeaks, NEW closing, EndServer(closing),
         server.pc = "spawn" => server.fd \in closing
  PROVE  NoConnectionLeaks'
<1>1. ASSUME NEW fd \in Fds, fds'[fd] \in Clients PROVE Held(fd)'
  <2>1. fd \notin closing /\ fds[fd] \in Clients
    BY <1>1, HttpAssumption DEF EndServer, Close
  <2>2. Held(fd)
    BY <2>1 DEF NoConnectionLeaks
  <2> QED  BY <2>1, <2>2 DEF Held, EndServer
<1>2. ASSUME NEW d \in Clients, peer'[d] = "open"
      PROVE  d \in EndOf(Fds)'
  <2>1. peer[d] = "open" /\ d \notin EndOf(closing) \cup backlog
    BY <1>2 DEF EndServer, Drop, TypeOK
  <2>2. PICK fd \in Fds : fds[fd] = d
    BY <2>1 DEF NoConnectionLeaks, EndOf
  <2>3. fd \notin closing
    BY <2>1, <2>2 DEF EndOf
  <2>4. fds'[fd] = d
    BY <2>2, <2>3 DEF EndServer, Close
  <2> QED  BY <2>4 DEF EndOf
<1> QED  BY <1>1, <1>2 DEF NoConnectionLeaks

LEMMA LeakNext == HttpInv /\ [Next]_vars => NoConnectionLeaks'
<1> SUFFICES ASSUME HttpInv, [Next]_vars PROVE NoConnectionLeaks'
  OBVIOUS
<1>0. TypeOK /\ OnceInv /\ ListenerInv /\ NoConnectionLeaks
  BY DEF HttpInv
<1> USE <1>0
<1> USE DEF TypeOK, NoConnectionLeaks, Held, EndOf
<1>1. ASSUME NEW c \in Clients, Connect(c) PROVE NoConnectionLeaks'
  BY <1>1 DEF Connect
<1>2. ASSUME NEW c \in Clients, Leave(c) PROVE NoConnectionLeaks'
  BY <1>2 DEF Leave
<1>3. ASSUME NEW c \in Clients, Accept(c) PROVE NoConnectionLeaks'
  BY <1>3, LowestIsFree, HttpAssumption DEF Accept
<1>4. ASSUME NEW c \in Clients, RecvFails(c) PROVE NoConnectionLeaks'
  BY <1>4, TaskCloses DEF RecvFails
<1>5. ASSUME NEW c \in Clients, RecvOther(c) PROVE NoConnectionLeaks'
  BY <1>5 DEF RecvOther, Goto
<1>6. ASSUME NEW c \in Clients, RecvGet(c) PROVE NoConnectionLeaks'
  BY <1>6 DEF RecvGet, Goto
<1>7. ASSUME NEW c \in Clients, WritePage(c) PROVE NoConnectionLeaks'
  BY <1>7 DEF WritePage, Goto
<1>8. ASSUME NEW c \in Clients, FClose(c) PROVE NoConnectionLeaks'
  BY <1>8, TaskCloses DEF FClose
<1>9. ASSUME NEW c \in Clients, CloseClient(c) PROVE NoConnectionLeaks'
  BY <1>9, TaskCloses DEF CloseClient
<1>10. CASE SocketFails
  BY <1>10 DEF SocketFails
<1>11. CASE OpenSocket
  BY <1>11, LowestIsFree, HttpAssumption DEF OpenSocket
<1>12. CASE BindFails
  BY <1>12 DEF BindFails
<1>13. CASE BindAndListen
  BY <1>13 DEF BindAndListen
<1>14. CASE ListenFails
  BY <1>14, ServerCloses DEF ListenFails
<1>15. CASE AcceptFails
  BY <1>15, ServerCloses DEF AcceptFails
<1>16. CASE Spawn
  BY <1>16 DEF Spawn, OnceInv
<1>17. CASE SpawnFails
  BY <1>17, ServerCloses DEF SpawnFails
<1>18. CASE UNCHANGED vars
  BY <1>18 DEF vars
<1> QED
  BY <1>1, <1>2, <1>3, <1>4, <1>5, <1>6, <1>7, <1>8, <1>9, <1>10, <1>11, <1>12,
     <1>13, <1>14, <1>15, <1>16, <1>17, <1>18, NextCases

-----------------------------------------------------------------------------
(* The theorems                                                            *)

LEMMA HttpInvariant == Spec => []HttpInv
<1>1. Init => HttpInv
  BY TypeInit, OnceInit, ListenerInit, LeakInit DEF HttpInv
<1>2. HttpInv /\ [Next]_vars => HttpInv'
  BY TypeNext, OnceNext, ListenerNext, LeakNext DEF HttpInv
<1> QED  BY <1>1, <1>2, PTL DEF Spec

(***************************************************************************)
(* The table of descriptors, the server and its tasks keep their types: no *)
(* descriptor is used that the kernel did not hand out.                    *)
(***************************************************************************)
THEOREM HttpTypeCorrect == Spec => []TypeOK
<1>1. HttpInv => TypeOK
  BY DEF HttpInv
<1> QED  BY <1>1, HttpInvariant, PTL

(***************************************************************************)
(* Although tasks close their numbers twice (server_http.c:51, :59) and    *)
(* the kernel hands these out again in between, they never close the       *)
(* listening socket, for any number of clients and descriptors.            *)
(***************************************************************************)
THEOREM ListenerAlwaysSurvives == Spec => []ListenerSurvives
<1>1. HttpInv => ListenerSurvives
  BY DEF HttpInv, ListenerInv, ListenerSurvives
<1> QED  BY <1>1, HttpInvariant, PTL

(***************************************************************************)
(* And no accepted connection is left without a task, or the server, that  *)
(* will close its number.                                                  *)
(***************************************************************************)
THEOREM NoConnectionEverLeaks == Spec => []NoConnectionLeaks
<1>1. HttpInv => NoConnectionLeaks
  BY DEF HttpInv
<1> QED  BY <1>1, HttpInvariant, PTL
=============================================================================

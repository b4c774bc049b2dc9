----------------------------- MODULE HttpServer -----------------------------
(***************************************************************************)
(* The HTTP server of the receiver board (semestral_project/src/           *)
(* server_http.c): run_http_srv accepts connections and spawns a task for  *)
(* each, one_client_server, which serves one request and closes its file   *)
(* descriptor.  The table of descriptors is shared by all the tasks, and   *)
(* the kernel hands out its lowest free entry.                             *)
(*                                                                         *)
(* A connection is known by its client, who connects once.                 *)
(***************************************************************************)
EXTENDS Integers, FiniteSetsExt

CONSTANTS
  Clients,   \* the clients
  Fds,       \* bound: the descriptors there are, numbers
  Listening, \* what the listening socket's descriptor refers to
  Free       \* what an unused descriptor refers to

ASSUME HttpAssumption ==
  /\ Fds \subseteq Nat
  /\ Listening \notin Clients /\ Free \notin Clients \cup {Listening}

VARIABLES
  fds,     \* kernel: what each descriptor refers to
  backlog, \* kernel: connections nobody has accepted yet
  peer,    \* the client's end: "out", "open", "served", "gone", "dropped"
  server,  \* run_http_srv: program counter, s, new_fd and its client
  tasks    \* one_client_server for each client: program counter, client_fd

vars == <<fds, backlog, peer, server, tasks>>

NoFd == -1

Init ==
  /\ fds = [fd \in Fds |-> Free]
  /\ backlog = {} /\ peer = [c \in Clients |-> "out"]
  /\ server = [pc |-> "socket", s |-> NoFd, fd |-> NoFd, client |-> Free]
  /\ tasks = [c \in Clients |-> [pc |-> "none", fd |-> NoFd]]

FreeFds == {fd \in Fds : fds[fd] = Free}

\* The clients whose connections end when the descriptors in closing do.
EndOf(closing) == {c \in Clients : \E fd \in closing : fds[fd] = c}

\* close(fd) for each of these; those that are free already are an error that
\* nobody looks at.
Close(closing) == fds' = [fd \in Fds |-> IF fd \in closing THEN Free ELSE fds[fd]]

Drop(clients) ==
  peer' = [c \in Clients |-> IF c \in clients /\ peer[c] = "open"
                             THEN "dropped" ELSE peer[c]]

-----------------------------------------------------------------------------
(* The clients                                                             *)

Connect(c) ==
  /\ peer[c] = "out" /\ server.pc \in {"accept", "spawn"}
  /\ peer' = [peer EXCEPT ![c] = "open"]
  /\ backlog' = backlog \cup {c}
  /\ UNCHANGED <<fds, server, tasks>>

Leave(c) ==
  /\ peer[c] = "open"
  /\ peer' = [peer EXCEPT ![c] = "gone"]
  /\ UNCHANGED <<fds, backlog, server, tasks>>

-----------------------------------------------------------------------------
(* run_http_srv                                                            *)

SocketFails ==
  /\ server.pc = "socket"
  /\ server' = [server EXCEPT !.pc = "ended"]
  /\ UNCHANGED <<fds, backlog, peer, tasks>>

OpenSocket ==
  /\ server.pc = "socket" /\ FreeFds # {}
  /\ fds' = [fds EXCEPT ![Min(FreeFds)] = Listening]
  /\ server' = [server EXCEPT !.pc = "bind", !.s = Min(FreeFds)]
  /\ UNCHANGED <<backlog, peer, tasks>>

\* The one error path that does not close the socket (:86-89).
BindFails ==
  /\ server.pc = "bind"
  /\ server' = [server EXCEPT !.pc = "ended"]
  /\ UNCHANGED <<fds, backlog, peer, tasks>>

BindAndListen ==
  /\ server.pc = "bind"
  /\ server' = [server EXCEPT !.pc = "accept"]
  /\ UNCHANGED <<fds, backlog, peer, tasks>>

\* The server closes the listening socket and new_fd, if it has one, and
\* returns; the kernel resets what is in the listen queue.
EndServer(closing) ==
  /\ Close(closing)
  /\ Drop(EndOf(closing) \cup backlog)
  /\ backlog' = {}
  /\ server' = [server EXCEPT !.pc = "ended"]
  /\ UNCHANGED tasks

ListenFails == server.pc = "bind" /\ EndServer({server.s})

Accept(c) ==
  /\ server.pc = "accept" /\ c \in backlog /\ FreeFds # {}
  /\ fds' = [fds EXCEPT ![Min(FreeFds)] = c]
  /\ backlog' = backlog \ {c}
  /\ server' = [server EXCEPT !.pc = "spawn", !.fd = Min(FreeFds), !.client = c]
  /\ UNCHANGED <<peer, tasks>>

\* Mutant of AcceptFails: the socket is closed, but the loop goes on.
AcceptFailsGoesOn ==
  /\ server.pc = "accept" /\ backlog # {}
  /\ Close({server.s}) /\ Drop(EndOf({server.s}))
  /\ UNCHANGED <<backlog, server, tasks>>

\* For want of a free descriptor, or because the connection was aborted.
AcceptFails ==
  /\ server.pc = "accept" /\ backlog # {}
  /\ EndServer({server.s})

\* Mutant of Spawn: the task gets the client instead of its descriptor.
SpawnWrongArgument ==
  /\ server.pc = "spawn"
  /\ tasks' = [tasks EXCEPT ![server.client] =
                               [pc |-> "recv", fd |-> server.client]]
  /\ server' = [server EXCEPT !.pc = "accept", !.fd = NoFd, !.client = Free]
  /\ UNCHANGED <<fds, backlog, peer>>

Spawn ==
  /\ server.pc = "spawn"
  /\ tasks' = [tasks EXCEPT ![server.client] = [pc |-> "recv", fd |-> server.fd]]
  /\ server' = [server EXCEPT !.pc = "accept", !.fd = NoFd, !.client = Free]
  /\ UNCHANGED <<fds, backlog, peer>>

\* Mutant of SpawnFails: new_fd is not closed.
SpawnFailsLeaks == server.pc = "spawn" /\ EndServer({server.s})

SpawnFails == server.pc = "spawn" /\ EndServer({server.s, server.fd})

-----------------------------------------------------------------------------
(* one_client_server, the task of client c.  Its descriptor refers to      *)
(* whatever the table says now.                                            *)

Goto(c, pc) == tasks' = [tasks EXCEPT ![c].pc = pc]

Referent(c) == fds[tasks[c].fd]

\* recv returns -1: the task closes the descriptor and returns.
RecvFails(c) ==
  /\ tasks[c].pc = "recv"
  /\ Close({tasks[c].fd}) /\ Drop(EndOf({tasks[c].fd}))
  /\ Goto(c, "done")
  /\ UNCHANGED <<backlog, server>>

\* The peer has closed, or what it sent is not a request for the page.
RecvOther(c) ==
  /\ tasks[c].pc = "recv" /\ Referent(c) \in Clients
  /\ Goto(c, "close")
  /\ UNCHANGED <<fds, backlog, peer, server>>

RecvGet(c) ==
  /\ tasks[c].pc = "recv" /\ Referent(c) \in Clients
  /\ peer[Referent(c)] = "open"
  /\ Goto(c, "page")
  /\ UNCHANGED <<fds, backlog, peer, server>>

\* The page is written to the descriptor; it is lost if that is closed.
WritePage(c) ==
  /\ tasks[c].pc = "page"
  /\ peer' = [d \in Clients |-> IF d = Referent(c) /\ peer[d] = "open"
                                THEN "served" ELSE peer[d]]
  /\ Goto(c, "fclose")
  /\ UNCHANGED <<fds, backlog, server>>

\* fclose closes the stream's descriptor; close(client_fd) is still to come.
FClose(c) ==
  /\ tasks[c].pc = "fclose"
  /\ Close({tasks[c].fd}) /\ Drop(EndOf({tasks[c].fd}))
  /\ Goto(c, "close")
  /\ UNCHANGED <<backlog, server>>

\* Mutant of CloseClient: the task returns without it.
CloseClientForgotten(c) ==
  /\ tasks[c].pc = "close"
  /\ Goto(c, "done")
  /\ UNCHANGED <<fds, backlog, peer, server>>

CloseClient(c) ==
  /\ tasks[c].pc = "close"
  /\ Close({tasks[c].fd}) /\ Drop(EndOf({tasks[c].fd}))
  /\ Goto(c, "done")
  /\ UNCHANGED <<backlog, server>>

-----------------------------------------------------------------------------
Client == \E c \in Clients : Connect(c) \/ Leave(c)

ServerFails == SocketFails \/ BindFails \/ ListenFails \/ AcceptFails \/ SpawnFails

Server == \/ OpenSocket \/ BindAndListen \/ Spawn \/ ServerFails
          \/ \E c \in Clients : Accept(c)

OneClient(c) == \/ RecvFails(c) \/ RecvOther(c) \/ RecvGet(c)
                \/ WritePage(c) \/ FClose(c) \/ CloseClient(c)

Next == Client \/ Server \/ \E c \in Clients : OneClient(c)

Spec == Init /\ [][Next]_vars

\* Tasks run, and a connected client sends something or leaves.
FairSpec == /\ Spec
            /\ WF_vars(Server)
            /\ \A c \in Clients : WF_vars(OneClient(c))

-----------------------------------------------------------------------------
(* Properties                                                              *)

TypeOK ==
  /\ fds \in [Fds -> Clients \cup {Listening, Free}]
  /\ backlog \subseteq Clients
  /\ peer \in [Clients -> {"out", "open", "served", "gone", "dropped"}]
  /\ server \in [pc : {"socket", "bind", "accept", "spawn", "ended"},
                 s : Fds \cup {NoFd}, fd : Fds \cup {NoFd},
                 client : Clients \cup {Free}]
  /\ tasks \in [Clients -> [pc : {"none", "recv", "page", "fclose", "close",
                                  "done"},
                            fd : Fds \cup {NoFd}]]

(***************************************************************************)
(* "client_fd Open file descriptor for communication with the client"      *)
(* (server_http.c:17): while a task uses its descriptor, it is its own     *)
(* client's connection.  fclose (:51) and close (:59) both close it, and   *)
(* the kernel may hand it out again in between.                            *)
(***************************************************************************)
OwnDescriptor ==
  \A c \in Clients :
    tasks[c].pc \in {"recv", "page", "fclose"} => Referent(c) = c

(***************************************************************************)
(* Descriptors closed twice never take the listening socket with them: the *)
(* server accepts on its own socket until it closes it itself.             *)
(***************************************************************************)
ListenerSurvives ==
  server.pc \in {"accept", "spawn"} => fds[server.s] = Listening

\* The server or a task will close the number fd.
Held(fd) ==
  \/ server.pc = "spawn" /\ server.fd = fd
  \/ \E c \in Clients :
       tasks[c].pc \in {"recv", "page", "fclose", "close"} /\ tasks[c].fd = fd

(***************************************************************************)
(* No connection keeps its descriptor: what an accepted connection holds   *)
(* is held for a task, or for the server about to spawn it, that will      *)
(* still close that number -- although tasks close each other's.  And a    *)
(* client whose connection is open has a descriptor, or is not accepted.   *)
(***************************************************************************)
NoConnectionLeaks ==
  /\ \A fd \in Fds : fds[fd] \in Clients => Held(fd)
  /\ \A c \in Clients : peer[c] = "open" => c \in backlog \cup EndOf(Fds)

(***************************************************************************)
(* No client is left hanging: a connection ends, served or not, on every   *)
(* path through the server and its task.                                   *)
(***************************************************************************)
ConnectionsEnd ==
  \A c \in Clients : peer[c] = "open" ~> peer[c] # "open"
=============================================================================

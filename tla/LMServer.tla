------------------------------- MODULE LMServer -------------------------------
(****************************************************************************)
(* The language model server: lmserver.c and thread.c under src/lmserver.   *)
(* The main thread, thread 0, accepts connections and deals them out to all *)
(* threads, itself included, through a queue and a pipe per thread.  Each   *)
(* thread has a loop of events; for an event of one of its connections it   *)
(* drives a state machine (drive_machine) until there is nothing to do.     *)
(*                                                                          *)
(* A command line is an n-gram to score and EOL, and may arrive in pieces;  *)
(* a reply is ReplySize bytes, <<score, position>> each.  Commands other    *)
(* than prob, UDP and allocations that fail are left out.                   *)
(****************************************************************************)
EXTENDS Integers, FiniteSets, SequencesExt

CONSTANTS
  Clients,       \* a connection of each client
  NGrams,
  Score(_),      \* the language model
  Settings,      \* the settings to check: threads, maxfds, and asks, which
                 \* bounds the requests of a client
  MaxFaults      \* bound on crashes, partial reads and writes, and full buffers

EOL == "\n"
Unknown == "?"   \* an n-gram that nobody asked for
None == "none"
NoThread == -1

ASSUME ServerAssumption ==
  /\ NGrams \cap {EOL, Unknown, None} = {} /\ None \notin Clients /\ MaxFaults \in Nat
  /\ \A s \in Settings : {s.threads, s.maxfds, s.asks} \subseteq Nat \ {0}

VARIABLES
  settings,
  alive,         \* the server runs
  accepting,     \* the event of the listening socket is on
  backlog,       \* clients that wait to be accepted
  fds,           \* the client behind each file descriptor, or None
  queue,         \* new_conn_queue of each thread: descriptors
  pipe,          \* bytes in the notification pipe of each thread
  last_thread,
  notify,        \* the thread that the main thread is about to notify
  conns,         \* all connection structures, also those not in use
  conn_structs,  \* how many of them there are
  freeconns,     \* the free list
  run,           \* the connection each thread drives, Listener, or Idle
  sock,          \* the two ends of the connection of each client
  faults

serverVars == <<settings, alive, accepting, backlog, fds, queue, pipe, last_thread,
                notify, conns, conn_structs, freeconns, run, sock, faults>>

Threads == 0 .. settings.threads - 1
Fds == 1 .. settings.maxfds
ConnIds == 1 .. settings.maxfds + settings.threads

Idle == 0
Listener == -1

\* What a client has sent and the server not read, the same the other way,
\* and who has closed its end.
NewSock == [up |-> <<>>, down |-> <<>>, closedUp |-> FALSE, closedDown |-> FALSE]

NewConn == [fd |-> 0, thread |-> -1, state |-> None, event |-> None,
            rbuf |-> <<>>, wbuf |-> 0, iov |-> <<>>, iovused |-> FALSE]

ServerInit ==
  /\ settings \in Settings
  /\ alive = TRUE /\ accepting = TRUE /\ backlog = <<>>
  /\ fds = [f \in Fds |-> None]
  /\ queue = [t \in Threads |-> <<>>] /\ pipe = [t \in Threads |-> 0]
  /\ last_thread = -1 /\ notify = NoThread
  /\ conns = [c \in ConnIds |-> NewConn] /\ conn_structs = 0 /\ freeconns = <<>>
  /\ run = [t \in Threads |-> Idle]
  /\ sock = [k \in Clients |-> NewSock] /\ faults = 0

\* A call transfers all n bytes that it could, or, as a fault, fewer.
Fault == faults < MaxFaults /\ faults' = faults + 1
Transfers(part, n) == IF part = n THEN UNCHANGED faults ELSE Fault

\* What is left of a sequence behind its first n elements.
After(s, n) == SubSeq(s, n + 1, Len(s))

ReplySize == 6
Bytes(score) == [i \in 1 .. ReplySize |-> <<score, i - 1>>]

------------------------------------------------------------------------------
(****************************************************************************)
(* Accepting.                                                               *)
(****************************************************************************)
FreeFds == {f \in Fds : fds[f] = None}

ListenEvent ==
  /\ alive /\ accepting /\ run[0] = Idle /\ backlog # <<>>
  /\ run' = [run EXCEPT ![0] = Listener]
  /\ UNCHANGED <<settings, alive, accepting, backlog, fds, queue, pipe, last_thread,
                 notify, conns, conn_structs, freeconns, sock, faults>>

Listening == alive /\ run[0] = Listener /\ notify = NoThread

\* dispatch_conn_new: the threads take turns.
Accept ==
  /\ Listening /\ backlog # <<>> /\ FreeFds # {}
  /\ LET fd     == Min(FreeFds)
         thread == (last_thread + 1) % settings.threads
     IN  /\ fds' = [fds EXCEPT ![fd] = Head(backlog)]
         /\ backlog' = Tail(backlog)
         /\ queue' = [queue EXCEPT ![thread] = Append(@, fd)]
         /\ last_thread' = thread /\ notify' = thread
  /\ UNCHANGED <<settings, alive, accepting, pipe, conns, conn_structs, freeconns, run, sock, faults>>

Notify ==
  /\ alive /\ notify # NoThread
  /\ pipe' = [pipe EXCEPT ![notify] = @ + 1]
  /\ notify' = NoThread
  /\ UNCHANGED <<settings, alive, accepting, backlog, fds, queue, last_thread,
                 conns, conn_structs, freeconns, run, sock, faults>>

AcceptNothing ==
  /\ Listening /\ backlog = <<>> /\ FreeFds # {}
  /\ run' = [run EXCEPT ![0] = Idle]
  /\ UNCHANGED <<settings, alive, accepting, backlog, fds, queue, pipe, last_thread,
                 notify, conns, conn_structs, freeconns, sock, faults>>

\* EMFILE: no more connections, until one is closed.
AcceptTooMany ==
  /\ Listening /\ FreeFds = {}
  /\ accepting' = FALSE
  /\ run' = [run EXCEPT ![0] = Idle]
  /\ UNCHANGED <<settings, alive, backlog, fds, queue, pipe, last_thread,
                 notify, conns, conn_structs, freeconns, sock, faults>>

------------------------------------------------------------------------------
(****************************************************************************)
(* Connections.                                                             *)
(****************************************************************************)
\* Mutant: input that the last client left behind stays.
Reset_KeepsInput(conn, fd, t) ==
  [conn EXCEPT !.fd = fd, !.thread = t, !.state = "read", !.event = "read",
               !.iov = <<>>, !.iovused = FALSE]

\* conn_new resets a structure from the free list, but not all of it.
Reset(conn, fd, t) ==
  [conn EXCEPT !.fd = fd, !.thread = t, !.state = "read", !.event = "read",
               !.rbuf = <<>>, !.iov = <<>>, !.iovused = FALSE]

\* Mutant: the structure stays on the free list.
NewConnEvent_StaysFree(t) ==
  /\ alive /\ run[t] = Idle /\ pipe[t] > 0
  /\ pipe' = [pipe EXCEPT ![t] = @ - 1]
  /\ IF queue[t] = <<>>
     THEN UNCHANGED <<queue, conns, conn_structs, freeconns>>
     ELSE LET reuse == freeconns # <<>>
              c     == IF reuse THEN Last(freeconns) ELSE conn_structs + 1
          IN  /\ queue' = [queue EXCEPT ![t] = Tail(@)]
              /\ conns' = [conns EXCEPT ![c] = Reset(@, Head(queue[t]), t)]
              /\ UNCHANGED freeconns
              /\ conn_structs' = IF reuse THEN conn_structs ELSE conn_structs + 1
  /\ UNCHANGED <<settings, alive, accepting, backlog, fds, last_thread, notify, run, sock, faults>>

\* thread_libevent_process: a byte, an item of the queue if there is one.
NewConnEvent(t) ==
  /\ alive /\ run[t] = Idle /\ pipe[t] > 0
  /\ pipe' = [pipe EXCEPT ![t] = @ - 1]
  /\ IF queue[t] = <<>>
     THEN UNCHANGED <<queue, conns, conn_structs, freeconns>>
     ELSE LET reuse == freeconns # <<>>
              c     == IF reuse THEN Last(freeconns) ELSE conn_structs + 1
          IN  /\ queue' = [queue EXCEPT ![t] = Tail(@)]
              /\ conns' = [conns EXCEPT ![c] = Reset(@, Head(queue[t]), t)]
              /\ freeconns' = IF reuse THEN Front(freeconns) ELSE freeconns
              /\ conn_structs' = IF reuse THEN conn_structs ELSE conn_structs + 1
  /\ UNCHANGED <<settings, alive, accepting, backlog, fds, last_thread, notify, run, sock, faults>>

\* The client of a connection, and its socket.
ClientOf(c) == fds[conns[c].fd]
SockOf(c) == sock[ClientOf(c)]

EventHandler(t, c) ==
  /\ alive /\ run[t] = Idle /\ conns[c].thread = t
  /\ \/ conns[c].event = "read" /\ (SockOf(c).up # <<>> \/ SockOf(c).closedUp)
     \/ conns[c].event = "write"
  /\ run' = [run EXCEPT ![t] = c]
  /\ UNCHANGED <<settings, alive, accepting, backlog, fds, queue, pipe, last_thread,
                 notify, conns, conn_structs, freeconns, sock, faults>>

\* A thread in drive_machine, in one of the cases of its switch.
In(t, state) == alive /\ run[t] > 0 /\ conns[run[t]].state = state

\* What the cases of drive_machine leave alone.
OnlyConn == UNCHANGED <<settings, alive, accepting, backlog, fds, queue, pipe,
                        last_thread, notify, conn_structs, freeconns>>

\* process_srilm_command, for a line that is one command.
Answer(line) == IF Len(line) = 1 THEN Score(line[1]) ELSE Score(Unknown)

\* try_read_command: the first line that is there is processed.
TryReadCommand(conn) ==
  LET eols == {i \in DOMAIN conn.rbuf : conn.rbuf[i] = EOL}
  IN  IF eols = {} THEN [conn EXCEPT !.state = "read"]
      ELSE [conn EXCEPT !.rbuf = After(@, Min(eols)),
                        !.wbuf = Answer(SubSeq(conn.rbuf, 1, Min(eols) - 1)),
                        !.iov = <<>>, !.iovused = FALSE, !.state = "write"]

\* If part of what the client has sent is still on its way, the next read
\* has nothing (EAGAIN): the thread goes on with other events.
TryReadNetwork(t) ==
  LET c == run[t]
  IN  /\ In(t, "read")
      /\ \E n \in 1 .. Len(SockOf(c).up) :
           /\ Transfers(n, Len(SockOf(c).up))
           /\ conns' = [conns EXCEPT ![c] =
                LET arrived == SubSeq(SockOf(c).up, 1, n)
                    read == TryReadCommand([conns[c] EXCEPT !.rbuf = @ \o arrived])
                IN  IF read.state = "read" THEN [read EXCEPT !.event = "read"] ELSE read]
           /\ run' = IF conns'[c].state = "read" THEN [run EXCEPT ![t] = Idle] ELSE run
           /\ sock' = [sock EXCEPT ![ClientOf(c)].up = After(@, n)]
      /\ OnlyConn

ReadEndOfFile(t) ==
  LET c == run[t]
  IN  /\ In(t, "read") /\ SockOf(c).up = <<>> /\ SockOf(c).closedUp
      /\ conns' = [conns EXCEPT ![c].state = "closing"]
      /\ OnlyConn /\ UNCHANGED <<faults, run, sock>>

NothingToRead(t) ==
  LET c == run[t]
  IN  /\ In(t, "read") /\ SockOf(c).up = <<>> /\ ~SockOf(c).closedUp
      /\ conns' = [conns EXCEPT ![c].event = "read"]
      /\ run' = [run EXCEPT ![t] = Idle]
      /\ OnlyConn /\ UNCHANGED <<sock, faults>>

\* The reply is assembled once, and then sent as far as possible; when it is
\* sent, the connection goes back to reading.
ToSend(conn) == IF conn.iovused THEN conn.iov ELSE Bytes(conn.wbuf)

Transmit(t) ==
  LET c == run[t]
  IN  /\ In(t, "write")
      /\ \E n \in 1 .. Len(ToSend(conns[c])) :
           /\ Transfers(n, Len(ToSend(conns[c])))
           /\ conns' = [conns EXCEPT ![c] =
                LET sent == [conns[c] EXCEPT !.iov = After(ToSend(conns[c]), n), !.iovused = TRUE]
                IN  IF sent.iov = <<>> THEN TryReadCommand(sent) ELSE sent]
           /\ sock' = [sock EXCEPT ![ClientOf(c)].down =
                         @ \o SubSeq(ToSend(conns[c]), 1, n)]
      /\ OnlyConn /\ UNCHANGED run

\* EAGAIN, at most once for a reply: the thread goes on with other events.
TransmitSoftError(t) ==
  LET c == run[t]
  IN  /\ In(t, "write") /\ conns[c].event = "read"
      /\ Fault
      /\ conns' = [conns EXCEPT ![c].event = "write", ![c].iov = ToSend(conns[c]),
                                ![c].iovused = TRUE]
      /\ run' = [run EXCEPT ![t] = Idle]
      /\ OnlyConn /\ UNCHANGED sock

TransmitHardError(t) ==
  LET c == run[t]
  IN  /\ In(t, "write") /\ SockOf(c).closedUp
      /\ conns' = [conns EXCEPT ![c].state = "closing"]
      /\ OnlyConn /\ UNCHANGED <<faults, run, sock>>

\* Mutant: only the event and the socket.
ConnClose_StaysDeaf(t) ==
  LET c == run[t]
  IN  /\ In(t, "closing")
      /\ sock' = [sock EXCEPT ![ClientOf(c)].closedDown = TRUE]
      /\ fds' = [fds EXCEPT ![conns[c].fd] = None]
      /\ conns' = [conns EXCEPT ![c].event = None, ![c].state = "closed"]
      /\ UNCHANGED <<settings, alive, accepting, backlog, queue, pipe, last_thread, notify,
                     conn_structs, freeconns, run, faults>>

\* conn_close: the event, the socket, and listening again if this is the
\* thread that listens.  The structure is freed afterwards.
ConnClose(t) ==
  LET c == run[t]
  IN  /\ In(t, "closing")
      /\ sock' = [sock EXCEPT ![ClientOf(c)].closedDown = TRUE]
      /\ fds' = [fds EXCEPT ![conns[c].fd] = None]
      /\ conns' = [conns EXCEPT ![c].event = None, ![c].state = "closed"]
      /\ accepting' = (accepting \/ t = 0)
      /\ UNCHANGED <<settings, alive, backlog, queue, pipe, last_thread, notify,
                     conn_structs, freeconns, run, faults>>

ConnFree(t) ==
  /\ In(t, "closed")
  /\ freeconns' = Append(freeconns, run[t])
  /\ conns' = [conns EXCEPT ![run[t]].state = None]
  /\ run' = [run EXCEPT ![t] = Idle]
  /\ UNCHANGED <<settings, alive, accepting, backlog, fds, queue, pipe, last_thread,
                 notify, conn_structs, sock, faults>>

\* The server is stopped or crashes: the system closes its sockets.
ServerDies ==
  /\ alive /\ Fault
  /\ alive' = FALSE /\ accepting' = FALSE /\ backlog' = <<>>
  /\ sock' = [k \in Clients |-> [sock[k] EXCEPT !.closedDown = TRUE]]
  /\ UNCHANGED <<settings, fds, queue, pipe, last_thread, notify, conns,
                 conn_structs, freeconns, run>>

------------------------------------------------------------------------------
Listen == ListenEvent \/ Accept \/ Notify \/ AcceptNothing \/ AcceptTooMany

\* The steps of a thread in drive_machine.
DriveMachine(t) ==
  \/ TryReadNetwork(t) \/ ReadEndOfFile(t) \/ NothingToRead(t)
  \/ Transmit(t) \/ TransmitSoftError(t) \/ TransmitHardError(t)
  \/ ConnClose(t) \/ ConnFree(t)

ThreadNext(t) ==
  \/ t = 0 /\ Listen
  \/ NewConnEvent(t) \/ DriveMachine(t) \/ \E c \in ConnIds : EventHandler(t, c)

ServerNext == \E t \in Threads : ThreadNext(t)
==============================================================================

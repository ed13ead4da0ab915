------------------------- MODULE LanguageModelRemote -------------------------
(****************************************************************************)
(* Decoders that ask a language model server: LanguageModelRemote.cpp.      *)
(* Each decoder connects once, asks for the n-grams that are not in its     *)
(* cache, one at a time, and waits for each reply; in the end it closes the *)
(* connection.  A reply is read by up to three calls of read.               *)
(****************************************************************************)
EXTENDS LMServer

CONSTANTS
  Newlines(_),   \* the positions of newlines in the bytes of a score
  MaxErrors      \* 5 in the code

ASSUME RemoteAssumption ==
  /\ MaxErrors \in Nat
  /\ \A n \in NGrams : Newlines(Score(n)) \subseteq 0 .. ReplySize - 3

VARIABLE client

vars == <<serverVars, client>>

Junk == <<0, 0>>
Garbled == 0 - 1

\* cache: the score of each n-gram, 0 if there is none.  torn: some reply was
\* not read by one call (the history of what went wrong).
NewClient == [pc |-> "start", errors |-> 0, asks |-> 0, ngram |-> None,
              cache |-> [n \in NGrams |-> 0],
              res |-> <<>>, r |-> 0, cnt |-> 0, torn |-> FALSE]

Init == ServerInit /\ client = [k \in Clients |-> NewClient]

At(k, pc) == client[k].pc = pc

\* The server is not touched, but for its sockets.
OnlySock == UNCHANGED <<settings, alive, accepting, fds, queue, pipe, last_thread,
                        notify, conns, conn_structs, freeconns, run>>

------------------------------------------------------------------------------
\* start: connect, with some attempts.
Connect(k) ==
  /\ At(k, "start") /\ accepting
  /\ backlog' = Append(backlog, k)
  /\ client' = [client EXCEPT ![k].pc = "ready"]
  /\ OnlySock /\ UNCHANGED <<sock, faults>>

ConnectFails(k) ==
  /\ At(k, "start") /\ ~accepting
  /\ client' = [client EXCEPT ![k].errors = @ + 1,
                              ![k].pc = IF client[k].errors + 1 > MaxErrors THEN "failed" ELSE @]
  /\ UNCHANGED serverVars

\* GetValue for an n-gram that is not in the cache: the request is written,
\* which kills the decoder (SIGPIPE) if the server is gone.
Ask(k) ==
  /\ At(k, "ready") /\ client[k].asks < settings.asks
  /\ \E n \in NGrams :
       /\ client[k].cache[n] = 0
       /\ IF sock[k].closedDown
          THEN /\ client' = [client EXCEPT ![k].pc = "dead"]
               /\ sock' = [sock EXCEPT ![k].closedUp = TRUE]
          ELSE /\ client' = [client EXCEPT ![k].pc = "read", ![k].ngram = n,
                               ![k].asks = @ + 1, ![k].cnt = 0,
                               ![k].res = [i \in 1 .. ReplySize |-> Junk]]
               /\ sock' = [sock EXCEPT ![k].up = @ \o <<n, EOL>>]
  /\ OnlySock /\ UNCHANGED <<backlog, faults>>

\* read: some of the bytes that are there, at most those that are missing.
\* The read of nothing is the end of the file.
Chunks(k) ==
  IF sock[k].down # <<>>
  THEN 1 .. Min({ReplySize - client[k].cnt, Len(sock[k].down)})
  ELSE IF sock[k].closedDown THEN {0} ELSE {}

Stored(k, n) ==
  [i \in 1 .. ReplySize |->
     IF i \in client[k].cnt + 1 .. client[k].cnt + n THEN sock[k].down[i - client[k].cnt]
     ELSE client[k].res[i]]

IsNewline(byte) == byte[2] = ReplySize - 1 \/ byte[2] \in Newlines(byte[1])

\* The float at the beginning of res.
Value(res) == IF \A i \in 1 .. 4 : res[i] = <<res[1][1], i - 1>> THEN res[1][1] ELSE Garbled

\* The loop, from after a read to before the next.  It adds up what the FIRST
\* read returned; beyond the end of the reply its behaviour is undefined.
ReadLoop(me) ==
  LET cnt == me.cnt + me.r
  IN  IF me.r = 0 \/ IsNewline(me.res[me.cnt + 1]) \/ cnt = ReplySize
        THEN [me EXCEPT !.pc = "ready", !.cache[me.ngram] = Value(me.res),
                        !.ngram = None, !.res = <<>>, !.r = 0, !.cnt = 0]
      ELSE IF cnt > ReplySize
        THEN [me EXCEPT !.pc = "undefined", !.res = <<>>]
      ELSE [me EXCEPT !.pc = "read more", !.cnt = cnt]

FirstRead(k) ==
  /\ At(k, "read")
  /\ \E n \in Chunks(k) :
       /\ Transfers(n, Max(Chunks(k)))
       /\ client' = [client EXCEPT ![k] =
            ReadLoop([client[k] EXCEPT !.r = n, !.res = Stored(k, n), !.torn = @ \/ n # ReplySize])]
       /\ sock' = [sock EXCEPT ![k].down = After(@, n)]
  /\ OnlySock /\ UNCHANGED backlog

\* A read of a connection that the server has reset fails; it is not tried
\* again, and the decoder exits when the loop has counted enough errors.
FirstReadFails(k) ==
  /\ At(k, "read") /\ sock[k].down = <<>> /\ sock[k].closedDown /\ sock[k].up # <<>>
  /\ client' = [client EXCEPT ![k].pc = "dead"]
  /\ sock' = [sock EXCEPT ![k].closedUp = TRUE]
  /\ OnlySock /\ UNCHANGED <<backlog, faults>>

\* What the later reads return is not looked at.
ReadMore(k) ==
  /\ At(k, "read more")
  /\ \E n \in Chunks(k) :
       /\ Transfers(n, Max(Chunks(k)))
       /\ client' = [client EXCEPT ![k] = ReadLoop([client[k] EXCEPT !.res = Stored(k, n)])]
       /\ sock' = [sock EXCEPT ![k].down = After(@, n)]
  /\ OnlySock /\ UNCHANGED backlog

\* The decoder is done.
Close(k) ==
  /\ At(k, "ready")
  /\ sock' = [sock EXCEPT ![k].closedUp = TRUE]
  /\ client' = [client EXCEPT ![k].pc = "done"]
  /\ OnlySock /\ UNCHANGED <<backlog, faults>>

\* Or it crashes; the end of what it has sent may be lost.
DecoderCrashes(k) ==
  /\ Fault /\ client[k].pc \in {"ready", "read", "read more"}
  /\ \E n \in 0 .. Len(sock[k].up) :
       sock' = [sock EXCEPT ![k].closedUp = TRUE, ![k].up = SubSeq(@, 1, n)]
  /\ client' = [client EXCEPT ![k].pc = "dead"]
  /\ OnlySock /\ UNCHANGED backlog

------------------------------------------------------------------------------
GetValue(k) == Ask(k) \/ FirstRead(k) \/ FirstReadFails(k) \/ ReadMore(k)

Server == ServerNext /\ UNCHANGED client

ServerCrashes ==
  ServerDies /\ UNCHANGED client

Next ==
  \/ Server \/ ServerCrashes
  \/ \E k \in Clients : Connect(k) \/ ConnectFails(k) \/ GetValue(k) \/ Close(k) \/ DecoderCrashes(k)

AllThreads == UNION {0 .. s.threads - 1 : s \in Settings}

\* A thread goes on while it has an event, and a decoder to its end.  No
\* event can starve another: there are only so many requests.
Fairness ==
  /\ \A t \in AllThreads :
       WF_vars(t \in Threads /\ ThreadNext(t) /\ UNCHANGED client)
  /\ \A k \in Clients : WF_vars(Connect(k) \/ GetValue(k) \/ Close(k))

Spec == Init /\ [][Next]_vars /\ Fairness

------------------------------------------------------------------------------
(****************************************************************************)
(* Properties.                                                              *)
(****************************************************************************)
\* A score is that of the n-gram it was asked for: whichever threads and
\* structures were used for which clients before, and whatever they left in
\* them, unless a reply came in pieces.
ScoresTrue ==
  \A k \in Clients : ~client[k].torn =>
    \A n \in NGrams : client[k].cache[n] \in {0, Score(n)}

\* Nothing is lost and nothing is used twice: an open descriptor is in one
\* queue or of one connection, a structure free or in use.
ConnsOwned ==
  LET Open   == {f \in Fds : fds[f] # None}
      Used   == {c \in ConnIds : conns[c].state \notin {None, "closed"}}
      Closed == {c \in ConnIds : conns[c].state = "closed"}
      Queued == UNION {Range(queue[t]) : t \in Threads}
  IN  alive =>
      /\ Cardinality(Used) + Cardinality(Queued) = Cardinality(Open)
      /\ {conns[c].fd : c \in Used} \cup Queued = Open
      /\ Cardinality(Range(freeconns)) = Len(freeconns)
      /\ Range(freeconns) = (1 .. conn_structs) \ (Used \cup Closed)

\* In the end no decoder waits for an answer that was accepted, with any
\* number of threads: no wake-up and no event is lost.
Accepted(k) == \E f \in Fds : fds[f] = k
Answered ==
  <>[](alive => \A k \in Clients : At(k, "read") /\ Accepted(k) => client[k].torn)

\* With one thread, no decoder waits to be accepted either: a server that
\* stopped accepting starts again when a connection is closed.
AcceptsAgain ==
  <>[](settings.threads = 1 /\ alive /\ (\A k \in Clients : ~client[k].torn)
         => accepting /\ backlog = <<>>)

\* Both: in the end nobody waits in vain, in front of the server or inside.
ServerResponds == Answered /\ AcceptsAgain
==================================================

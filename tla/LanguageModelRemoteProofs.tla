---------------------- MODULE LanguageModelRemoteProofs ----------------------
(****************************************************************************)
(* What holds of the language model server and its clients for any number   *)
(* of clients, threads, descriptors and requests, and whatever goes wrong.  *)
(*                                                                          *)
(* IInv is inductive.  Its parts say what has one owner (structures,        *)
(* descriptors, clients), and where the one request of a decoder, or its    *)
(* reply, is: on the way, in the structure of a connection, on the way back.*)
(****************************************************************************)
EXTENDS LanguageModelRemote, SequenceTheorems, FiniteSetTheorems, TLAPS

Symbols    == NGrams \cup {EOL}
Scores     == {Score(x) : x \in Symbols \cup {Unknown}} \cup {0}
ReplyBytes == Scores \X Int

Conns ==
  [fd : Fds \cup {0}, thread : Threads \cup {NoThread},
   state : {None, "read", "write", "closing", "closed"},
   event : {None, "read", "write"}, rbuf : Seq(Symbols), wbuf : Scores,
   iov : Seq(ReplyBytes), iovused : BOOLEAN]

Socks == [up : Seq(Symbols), down : Seq(ReplyBytes),
          closedUp : BOOLEAN, closedDown : BOOLEAN]

ServerTypes ==
  /\ settings \in Settings
  /\ alive \in BOOLEAN /\ accepting \in BOOLEAN
  /\ backlog \in Seq(Clients)
  /\ fds \in [Fds -> Clients \cup {None}]
  /\ queue \in [Threads -> Seq(Fds)]
  /\ pipe \in [Threads -> Nat]
  /\ last_thread \in Threads \cup {NoThread} /\ notify \in Threads \cup {NoThread}
  /\ conns \in [ConnIds -> Conns]
  /\ conn_structs \in 0 .. settings.maxfds + settings.threads
  /\ freeconns \in Seq(ConnIds)
  /\ run \in [Threads -> ConnIds \cup {Idle, Listener}]
  /\ sock \in [Clients -> Socks]

Decoders ==
  [pc : {"start", "ready", "read", "read more", "undefined", "failed", "done", "dead"},
   errors : Nat, asks : Nat, ngram : NGrams \cup {None},
   cache : [NGrams -> Scores \cup {Garbled}], res : Seq(ReplyBytes), r : 0 .. ReplySize,
   cnt : 0 .. ReplySize - 1, torn : BOOLEAN]

ClientTypes ==
  /\ client \in [Clients -> Decoders]
  /\ \A k \in Clients :
       client[k].pc \in {"read", "read more"} =>
         client[k].ngram \in NGrams /\ Len(client[k].res) = ReplySize

------------------------------------------------------------------------------
(****************************************************************************)
(* Ownership.                                                               *)
(****************************************************************************)

\* A structure that belongs to an open connection.
InUse(conn) == conn.state \notin {None, "closed"}

\* The free list has the structures that are neither in use nor being closed,
\* each once.
Structures ==
  /\ \A c \in ConnIds : conns[c].state # None => c <= conn_structs
  /\ \A i, j \in 1 .. Len(freeconns) : freeconns[i] = freeconns[j] => i = j
  /\ \A i \in 1 .. Len(freeconns) :
       freeconns[i] <= conn_structs /\ conns[freeconns[i]].state = None
  /\ \A c \in 1 .. conn_structs :
       conns[c].state = None => \E i \in 1 .. Len(freeconns) : freeconns[i] = c

\* A connection is driven by its own thread; one that has been closed stays
\* with it until its structure is free, and gets no event.
Driven ==
  /\ \A c \in ConnIds : conns[c].state # None => conns[c].thread \in Threads
  /\ \A c \in ConnIds : ~InUse(conns[c]) => conns[c].event = None
  /\ \A c \in ConnIds : conns[c].state = "closed" => run[conns[c].thread] = c
  /\ \A t \in Threads :
       run[t] \in ConnIds => conns[run[t]].thread = t /\ conns[run[t]].state # None

\* A descriptor that is open is in one queue, once, or of one connection.
Descriptors ==
  /\ \A c \in ConnIds : InUse(conns[c]) =>
       conns[c].fd \in Fds /\ fds[conns[c].fd] # None
  /\ \A c, d \in ConnIds :
       InUse(conns[c]) /\ InUse(conns[d]) /\ conns[c].fd = conns[d].fd => c = d
  /\ \A t \in Threads : \A i \in 1 .. Len(queue[t]) :
       /\ fds[queue[t][i]] # None
       /\ \A c \in ConnIds : InUse(conns[c]) => conns[c].fd # queue[t][i]
  /\ \A t, u \in Threads : \A i \in 1 .. Len(queue[t]), j \in 1 .. Len(queue[u]) :
       queue[t][i] = queue[u][j] => t = u /\ i = j
  /\ \A f \in Fds : fds[f] # None =>
       \/ \E c \in ConnIds : InUse(conns[c]) /\ conns[c].fd = f
       \/ \E t \in Threads : \E i \in 1 .. Len(queue[t]) : queue[t][i] = f

\* A client is behind one descriptor or waits in the backlog, once, and
\* neither before it connects.
ClientsApart ==
  /\ \A f, g \in Fds : fds[f] = fds[g] /\ fds[f] # None => f = g
  /\ \A i, j \in 1 .. Len(backlog) : backlog[i] = backlog[j] => i = j
  /\ \A i \in 1 .. Len(backlog), f \in Fds : fds[f] # backlog[i]
  /\ \A k \in Clients : client[k].pc = "start" =>
       (\A f \in Fds : fds[f] # k) /\ (\A i \in 1 .. Len(backlog) : backlog[i] # k)

------------------------------------------------------------------------------
(****************************************************************************)
(* Where the request of a client is, or its reply.                          *)
(****************************************************************************)
Serves(D, conn, k) == InUse(conn) /\ D[conn.fd] = k

\* m bytes of the reply have been sent.
Sent(score, m) == [i \in 1 .. m |-> <<score, i - 1>>]
Rest(score, m) == [i \in 1 .. ReplySize - m |-> <<score, m + i - 1>>]

\* Nothing is on its way, and nothing is left in the structure.
Quiet(D, C, s, k) ==
  /\ s.up = <<>>
  /\ \A c \in DOMAIN C : Serves(D, C[c], k) => C[c].state = "read" /\ C[c].rbuf = <<>>

Requested(D, C, s, k, n) ==
  /\ s.up = <<n, EOL>> /\ s.down = <<>>
  /\ \A c \in DOMAIN C : Serves(D, C[c], k) => C[c].state = "read" /\ C[c].rbuf = <<>>

HalfRead(D, C, s, k, n) ==
  /\ s.up = <<EOL>> /\ s.down = <<>>
  /\ \E c \in DOMAIN C : Serves(D, C[c], k) /\ C[c].state = "read" /\ C[c].rbuf = <<n>>

Replying(D, C, s, k, n) ==
  /\ s.up = <<>>
  /\ \E c \in DOMAIN C, m \in 0 .. ReplySize - 1 :
       /\ Serves(D, C[c], k) /\ C[c].state = "write" /\ C[c].rbuf = <<>>
       /\ s.down = Sent(Score(n), m)
       /\ ToSend(C[c]) = Rest(Score(n), m)

Replied(D, C, s, k, n) ==
  Quiet(D, C, s, k) /\ s.down = Sent(Score(n), ReplySize)

\* The stream of a decoder that can rely on it.
Stream(D, C, s, k, me) ==
  /\ ~s.closedUp
  /\ me.pc \in {"start", "ready"} => Quiet(D, C, s, k) /\ s.down = <<>>
  /\ me.pc = "read" =>
       /\ me.cnt = 0
       /\ \/ Requested(D, C, s, k, me.ngram)
          \/ HalfRead(D, C, s, k, me.ngram)
          \/ Replying(D, C, s, k, me.ngram)
          \/ Replied(D, C, s, k, me.ngram)

Relies(me) == ~me.torn /\ me.pc \in {"start", "ready", "read"}

Streams ==
  \A k \in Clients :
    /\ Relies(client[k]) => Stream(fds, conns, sock[k], k, client[k])
    /\ ~client[k].torn => client[k].pc \notin {"read more", "undefined"}

IInv ==
  /\ ServerTypes
  /\ ClientTypes
  /\ Structures
  /\ Driven
  /\ Descriptors
  /\ ClientsApart
  /\ Streams
  /\ ScoresTrue

------------------------------------------------------------------------------
(****************************************************************************)
(* The operators of the model.                                              *)
(****************************************************************************)

\* A non-empty set of naturals has a least element.
LEMMA LeastOf ==
  ASSUME NEW T, T \subseteq Nat, T # {}
  PROVE  Min(T) \in T /\ \A y \in T : Min(T) <= y
<1>1. PICK x \in T : \A y \in T : <<y, x>> \notin OpToRel(<, Nat)
  BY NatLessThanWellFounded, WFMin
<1>2. \A y \in T : ~(y < x)
  <2>1. SUFFICES ASSUME NEW y \in T, y < x PROVE FALSE
    OBVIOUS
  <2>2. <<y, x>> \in OpToRel(<, Nat)
    BY <2>1 DEF OpToRel
  <2>3. QED
    BY <1>1, <2>2
<1>3. \E z \in T : \A y \in T : z <= y
  BY <1>2
<1>4. QED
  BY <1>3 DEF Min

LEMMA LeastOfTwo ==
  ASSUME NEW a \in Int, NEW b \in Int
  PROVE  Min({a, b}) \in {a, b} /\ Min({a, b}) <= a /\ Min({a, b}) <= b
<1>1. \E z \in {a, b} : \A y \in {a, b} : z <= y
  OBVIOUS
<1>2. Min({a, b}) \in {a, b} /\ \A y \in {a, b} : Min({a, b}) <= y
  BY <1>1 DEF Min
<1>3. QED
  BY <1>2

\* The settings do not change, nor what they make up.
LEMMA SameSets ==
  ASSUME settings' = settings
  PROVE  /\ Threads' = Threads /\ Fds' = Fds /\ ConnIds' = ConnIds
         /\ Conns' = Conns
  BY DEF Threads, Fds, ConnIds, Conns

LEMMA SettingsTyped ==
  ASSUME settings \in Settings
  PROVE  /\ settings.threads \in Nat /\ settings.threads > 0
         /\ settings.maxfds \in Nat /\ settings.maxfds > 0
         /\ settings.asks \in Nat
         /\ Threads \subseteq Nat /\ 0 \in Threads
         /\ Fds \subseteq Nat \ {0} /\ ConnIds \subseteq Nat \ {0}
         /\ IsFiniteSet(Threads) /\ Cardinality(Threads) = settings.threads
         /\ IsFiniteSet(Fds) /\ Cardinality(Fds) = settings.maxfds
         /\ IsFiniteSet(ConnIds)
<1>1. /\ settings.threads \in Nat /\ settings.threads > 0
      /\ settings.maxfds \in Nat /\ settings.maxfds > 0
      /\ settings.asks \in Nat
  BY ServerAssumption
<1>2. IsFiniteSet(Threads) /\ Cardinality(Threads) = settings.threads
  <2>1. 0 \in Int /\ settings.threads - 1 \in Int
    BY <1>1
  <2>2. /\ IsFiniteSet(0 .. settings.threads - 1)
        /\ Cardinality(0 .. settings.threads - 1)
             = IF 0 > settings.threads - 1 THEN 0 ELSE (settings.threads - 1) - 0 + 1
    BY <2>1, FS_Interval
  <2>3. Cardinality(0 .. settings.threads - 1) = settings.threads
    BY <1>1, <2>2
  <2>4. QED
    BY <2>2, <2>3 DEF Threads
<1>3. IsFiniteSet(Fds) /\ Cardinality(Fds) = settings.maxfds
  <2>1. 1 \in Int /\ settings.maxfds \in Int
    BY <1>1
  <2>2. /\ IsFiniteSet(1 .. settings.maxfds)
        /\ Cardinality(1 .. settings.maxfds)
             = IF 1 > settings.maxfds THEN 0 ELSE settings.maxfds - 1 + 1
    BY <2>1, FS_Interval
  <2>3. Cardinality(1 .. settings.maxfds) = settings.maxfds
    BY <1>1, <2>2
  <2>4. QED
    BY <2>2, <2>3 DEF Fds
<1>4. IsFiniteSet(ConnIds)
  <2>1. 1 \in Int /\ settings.maxfds + settings.threads \in Int
    BY <1>1
  <2>2. QED
    BY <2>1, FS_Interval DEF ConnIds
<1>5. QED
  BY <1>1, <1>2, <1>3, <1>4 DEF Threads, Fds, ConnIds

LEMMA AfterTyped ==
  ASSUME NEW S, NEW s \in Seq(S), NEW n \in 0 .. Len(s)
  PROVE  /\ After(s, n) \in Seq(S) /\ Len(After(s, n)) = Len(s) - n
         /\ \A i \in 1 .. Len(s) - n : After(s, n)[i] = s[n + i]
         /\ SubSeq(s, 1, n) \in Seq(S) /\ Len(SubSeq(s, 1, n)) = n
         /\ \A i \in 1 .. n : SubSeq(s, 1, n)[i] = s[i]
<1>1. \A i \in n + 1 .. Len(s) : s[i] \in S
  BY ElementOfSeq
<1>2. /\ SubSeq(s, n + 1, Len(s)) \in Seq(S)
      /\ Len(SubSeq(s, n + 1, Len(s))) = Len(s) - n
      /\ \A i \in 1 .. Len(s) - n : SubSeq(s, n + 1, Len(s))[i] = s[n + i]
  BY <1>1, LenProperties
<1>3. /\ SubSeq(s, 1, n) \in Seq(S) /\ Len(SubSeq(s, 1, n)) = n
      /\ \A i \in 1 .. n : SubSeq(s, 1, n)[i] = s[i]
  BY LenProperties
<1>4. QED
  BY <1>2, <1>3 DEF After

LEMMA Nothing ==
  ASSUME NEW S, NEW s \in Seq(S), Len(s) = 0
  PROVE  s = <<>>
BY EmptySeq

LEMMA Singleton ==
  ASSUME NEW S, NEW s \in Seq(S), Len(s) = 1, NEW x, s[1] = x
  PROVE  s = <<x>>
<1>1. x \in S
  BY ElementOfSeq
<1>2. <<x>> \in Seq(S) /\ Len(<<x>>) = 1 /\ <<x>>[1] = x
  BY <1>1
<1>3. QED
  BY <1>2, SeqEqual

LEMMA BytesTyped ==
  ASSUME NEW score \in Scores
  PROVE  /\ Bytes(score) \in Seq(ReplyBytes) /\ Len(Bytes(score)) = ReplySize
         /\ Bytes(score) = Rest(score, 0)
  BY DEF Bytes, ReplySize, ReplyBytes, Rest

LEMMA ResetTyped ==
  ASSUME NEW conn \in Conns, NEW fd \in Fds, NEW t \in Threads
  PROVE  /\ Reset(conn, fd, t) \in Conns
         /\ Reset(conn, fd, t).fd = fd /\ Reset(conn, fd, t).thread = t
         /\ Reset(conn, fd, t).state = "read" /\ Reset(conn, fd, t).event = "read"
         /\ Reset(conn, fd, t).rbuf = <<>>
<1>1. <<>> \in Seq(Symbols) /\ <<>> \in Seq(ReplyBytes)
  OBVIOUS
<1>2. QED
  BY <1>1 DEF Reset, Conns

\* A line is processed when its end is there: the cases of the commands that
\* the clients send.
LEMMA TryReadCommandTyped ==
  ASSUME NEW conn \in Conns
  PROVE  /\ TryReadCommand(conn) \in Conns
         /\ TryReadCommand(conn).fd = conn.fd
         /\ TryReadCommand(conn).thread = conn.thread
         /\ TryReadCommand(conn).event = conn.event
         /\ TryReadCommand(conn).state \in {"read", "write"}
<1> DEFINE eols == {i \in DOMAIN conn.rbuf : conn.rbuf[i] = EOL}
<1>1. conn.rbuf \in Seq(Symbols) /\ Len(conn.rbuf) \in Nat /\ DOMAIN conn.rbuf = 1 .. Len(conn.rbuf)
  BY DEF Conns
<1>2. CASE eols = {}
  <2>1. TryReadCommand(conn) = [conn EXCEPT !.state = "read"]
    BY <1>2 DEF TryReadCommand
  <2>2. QED
    BY <2>1 DEF Conns
<1>3. CASE eols # {}
  <2>1. eols \subseteq Nat
    BY <1>1
  <2>2. Min(eols) \in eols
    BY <1>3, <2>1, LeastOf
  <2>3. Min(eols) \in 1 .. Len(conn.rbuf)
    BY <1>1, <2>2
  <2> DEFINE m == Min(eols)
             line == SubSeq(conn.rbuf, 1, m - 1)
             left == After(conn.rbuf, m)
             answer == Answer(line)
  <2>4. TryReadCommand(conn) =
          [conn EXCEPT !.rbuf = left, !.wbuf = answer,
                       !.iov = <<>>, !.iovused = FALSE, !.state = "write"]
    BY <1>3 DEF TryReadCommand
  <2> HIDE DEF eols
  <2>5. m \in 0 .. Len(conn.rbuf) /\ m - 1 \in 0 .. Len(conn.rbuf)
    BY <2>3, <1>1
  <2>6. left \in Seq(Symbols) /\ line \in Seq(Symbols)
    <3> HIDE DEF m
    <3>1. QED
      BY <1>1, <2>5, AfterTyped
  <2>7. answer \in Scores
    <3> HIDE DEF line
    <3>1. Len(line) = 1 => line[1] \in Symbols
      BY <2>6
    <3>2. QED
      BY <3>1 DEF Answer, Scores
  <2>8. <<>> \in Seq(ReplyBytes)
    OBVIOUS
  <2> HIDE DEF left, answer
  <2>9. QED
    BY <2>4, <2>6, <2>7, <2>8 DEF Conns
<1>4. QED
  BY <1>2, <1>3

LEMMA NoCommand ==
  ASSUME NEW conn \in Conns, \A i \in 1 .. Len(conn.rbuf) : conn.rbuf[i] # EOL
  PROVE  TryReadCommand(conn) = [conn EXCEPT !.state = "read"]
<1>1. {i \in DOMAIN conn.rbuf : conn.rbuf[i] = EOL} = {}
  BY DEF Conns
<1>2. QED
  BY <1>1 DEF TryReadCommand

LEMMA OneCommand ==
  ASSUME NEW conn \in Conns, NEW n \in NGrams,
         Len(conn.rbuf) = 2, conn.rbuf[1] = n, conn.rbuf[2] = EOL
  PROVE  /\ TryReadCommand(conn).state = "write" /\ TryReadCommand(conn).rbuf = <<>>
         /\ TryReadCommand(conn).wbuf = Score(n) /\ TryReadCommand(conn).iovused = FALSE
<1> DEFINE eols == {i \in DOMAIN conn.rbuf : conn.rbuf[i] = EOL}
<1>1. n # EOL
  BY ServerAssumption
<1>2. eols = {2}
  <2>1. DOMAIN conn.rbuf = 1 .. 2
    BY DEF Conns
  <2>2. QED
    BY <1>1, <2>1
<1>3. Min(eols) = 2
  <2>1. {2} \subseteq Nat /\ {2} # {}
    OBVIOUS
  <2>2. Min({2}) \in {2}
    BY <2>1, LeastOf
  <2>3. QED
    BY <1>2, <2>2
<1>4. SubSeq(conn.rbuf, 1, 1) = <<n>> /\ After(conn.rbuf, 2) = <<>>
  <2>1. conn.rbuf \in Seq(Symbols) /\ Len(conn.rbuf) = 2 /\ conn.rbuf[1] = n
    BY DEF Conns
  <2>2. /\ SubSeq(conn.rbuf, 1, 1) \in Seq(Symbols) /\ Len(SubSeq(conn.rbuf, 1, 1)) = 1
        /\ \A i \in 1 .. 1 : SubSeq(conn.rbuf, 1, 1)[i] = conn.rbuf[i]
        /\ After(conn.rbuf, 2) \in Seq(Symbols) /\ Len(After(conn.rbuf, 2)) = 0
    <3> DEFINE s == conn.rbuf
    <3>1. s \in Seq(Symbols) /\ Len(s) = 2
      BY <2>1
    <3> HIDE DEF s
    <3>2. 1 \in 0 .. Len(s) /\ 2 \in 0 .. Len(s)
      BY <3>1
    <3>3. /\ SubSeq(s, 1, 1) \in Seq(Symbols) /\ Len(SubSeq(s, 1, 1)) = 1
          /\ \A i \in 1 .. 1 : SubSeq(s, 1, 1)[i] = s[i]
      BY <3>1, <3>2, AfterTyped
    <3>4. After(s, 2) \in Seq(Symbols) /\ Len(After(s, 2)) = Len(s) - 2
      BY <3>1, <3>2, AfterTyped
    <3>5. QED
      BY <3>1, <3>3, <3>4 DEF s
  <2>3. SubSeq(conn.rbuf, 1, 1) = <<n>>
    <3> DEFINE u == SubSeq(conn.rbuf, 1, 1)
    <3>1. u \in Seq(Symbols) /\ Len(u) = 1 /\ u[1] = n
      BY <2>1, <2>2
    <3> HIDE DEF u
    <3>2. u = <<n>>
      BY <3>1, Singleton
    <3>3. QED
      BY <3>2 DEF u
  <2>4. QED
    BY <2>2, <2>3, Nothing
<1>5. Answer(<<n>>) = Score(n)
  BY DEF Answer
<1>6. TryReadCommand(conn) =
        [conn EXCEPT !.rbuf = <<>>, !.wbuf = Score(n),
                     !.iov = <<>>, !.iovused = FALSE, !.state = "write"]
  <2>1. eols # {}
    BY <1>2
  <2>2. TryReadCommand(conn) =
          [conn EXCEPT !.rbuf = After(conn.rbuf, Min(eols)),
                       !.wbuf = Answer(SubSeq(conn.rbuf, 1, Min(eols) - 1)),
                       !.iov = <<>>, !.iovused = FALSE, !.state = "write"]
    BY <2>1 DEF TryReadCommand
  <2> HIDE DEF eols
  <2>3. SubSeq(conn.rbuf, 1, Min(eols) - 1) = SubSeq(conn.rbuf, 1, 1)
    BY <1>3
  <2>4. Answer(SubSeq(conn.rbuf, 1, Min(eols) - 1)) = Score(n)
    BY <1>4, <1>5, <2>3
  <2>5. After(conn.rbuf, Min(eols)) = <<>>
    BY <1>3, <1>4
  <2>6. QED
    BY <2>2, <2>4, <2>5
<1>7. QED
  BY <1>6 DEF Conns

------------------------------------------------------------------------------
(****************************************************************************)
(* Structures, connections and descriptors: the steps of drive_machine that *)
(* leave a connection open, and the steps that change other things.         *)
(****************************************************************************)
LEMMA OwnersFrame ==
  ASSUME UNCHANGED settings
  PROVE  /\ Structures /\ UNCHANGED <<conns, conn_structs, freeconns>> => Structures'
         /\ Driven /\ UNCHANGED <<conns, run>> => Driven'
         /\ Descriptors /\ UNCHANGED <<conns, fds, queue>> => Descriptors'
         /\ ClientsApart /\ UNCHANGED <<fds, backlog, client>> => ClientsApart'
         /\ Streams /\ UNCHANGED <<fds, conns, sock, client>> => Streams'
         /\ ScoresTrue /\ UNCHANGED client => ScoresTrue'
<1>0. Threads' = Threads /\ Fds' = Fds /\ ConnIds' = ConnIds
  BY SameSets
<1>1. ASSUME Structures, UNCHANGED <<conns, conn_structs, freeconns>> PROVE Structures'
  BY <1>0, <1>1 DEF Structures
<1>2. ASSUME Driven, UNCHANGED <<conns, run>> PROVE Driven'
  BY <1>0, <1>2 DEF Driven, InUse
<1>3. ASSUME Descriptors, UNCHANGED <<conns, fds, queue>> PROVE Descriptors'
  BY <1>0, <1>3 DEF Descriptors, InUse
<1>4. ASSUME ClientsApart, UNCHANGED <<fds, backlog, client>> PROVE ClientsApart'
  BY <1>0, <1>4 DEF ClientsApart
<1>5. ASSUME Streams, UNCHANGED <<fds, conns, sock, client>> PROVE Streams'
  BY <1>5 DEF Streams
<1>6. ASSUME ScoresTrue, UNCHANGED client PROVE ScoresTrue'
  BY <1>6 DEF ScoresTrue
<1>7. QED
  BY <1>1, <1>2, <1>3, <1>4, <1>5, <1>6

LEMMA DriveKeepsOwners ==
  ASSUME ServerTypes, Structures, Driven, Descriptors,
         NEW t \in Threads, run[t] \in ConnIds, InUse(conns[run[t]]),
         NEW x \in Conns, InUse(x),
         x.fd = conns[run[t]].fd, x.thread = conns[run[t]].thread,
         conns' = [conns EXCEPT ![run[t]] = x],
         run' = run \/ run' = [run EXCEPT ![t] = Idle],
         UNCHANGED <<settings, fds, queue, conn_structs, freeconns>>
  PROVE  Structures' /\ Driven' /\ Descriptors'
<1> DEFINE c == run[t]
<1>0. /\ Threads' = Threads /\ Fds' = Fds /\ ConnIds' = ConnIds
      /\ c \in ConnIds /\ ConnIds \subseteq Nat \ {0}
  BY SameSets, SettingsTyped DEF ServerTypes
<1>1. /\ conns' \in [ConnIds -> Conns] /\ conns'[c] = x
      /\ \A d \in ConnIds : d # c => conns'[d] = conns[d]
  BY DEF ServerTypes
<1>2. \A d \in ConnIds :
        /\ conns'[d].fd = conns[d].fd /\ conns'[d].thread = conns[d].thread
        /\ conns'[d].state = None <=> conns[d].state = None
        /\ conns'[d].state = "closed" <=> conns[d].state = "closed"
        /\ InUse(conns'[d]) <=> InUse(conns[d])
        /\ InUse(conns[d]) \/ conns'[d].event = conns[d].event
  BY <1>1 DEF InUse
<1>3. Structures'
  <2>1. \A i \in 1 .. Len(freeconns) : freeconns[i] \in ConnIds
    BY ElementOfSeq DEF ServerTypes
  <2>2. 1 .. conn_structs \subseteq ConnIds
    BY SettingsTyped DEF ServerTypes, ConnIds
  <2>3. QED
    BY <1>0, <1>2, <2>1, <2>2 DEF Structures
<1>4. Driven'
  <2>1. /\ \A u \in Threads : run'[u] = run[u] \/ (u = t /\ run'[u] = Idle)
        /\ Idle \notin ConnIds
    BY <1>0 DEF ServerTypes, Idle
  <2>2. \A d \in ConnIds : conns[d].state = "closed" => d # c
    BY DEF InUse
  <2>3. \A d \in ConnIds : conns[d].state = "closed" => run'[conns[d].thread] = d
    BY <2>1, <2>2 DEF Driven, None
  <2>4. \A u \in Threads : run'[u] \in ConnIds =>
          run'[u] = run[u] /\ conns[run[u]].thread = u /\ conns[run[u]].state # None
    BY <2>1 DEF Driven
  <2>5. \A d \in ConnIds : conns'[d].state # None => conns'[d].thread \in Threads
    BY <1>2 DEF Driven
  <2>6. \A d \in ConnIds : ~InUse(conns'[d]) => conns'[d].event = None
    BY <1>2 DEF Driven
  <2>7. \A d \in ConnIds : conns'[d].state = "closed" => run'[conns'[d].thread] = d
    BY <1>2, <2>3
  <2>8. \A u \in Threads :
          run'[u] \in ConnIds => conns'[run'[u]].thread = u /\ conns'[run'[u]].state # None
    BY <1>2, <2>4
  <2>9. QED
    BY <1>0, <2>5, <2>6, <2>7, <2>8 DEF Driven, InUse
<1>5. Descriptors'
  BY <1>0, <1>2 DEF Descriptors
<1>6. QED
  BY <1>3, <1>4, <1>5

------------------------------------------------------------------------------
(****************************************************************************)
(* Streams.                                                                 *)
(****************************************************************************)
Alike(x, y) == x.state = y.state /\ x.rbuf = y.rbuf /\ ToSend(x) = ToSend(y)

\* A stream is not disturbed while its structure keeps what matters, or is
\* new and has nothing.
LEMMA StreamKept ==
  ASSUME NEW D, NEW C, NEW D2, NEW C2, NEW s, NEW s2, NEW k, NEW me,
         DOMAIN C2 = DOMAIN C,
         s2.up = s.up, s2.down = s.down, s2.closedUp = s.closedUp,
         \A c \in DOMAIN C : Serves(D, C[c], k) => Serves(D2, C2[c], k) /\ Alike(C2[c], C[c]),
         \A c \in DOMAIN C : Serves(D2, C2[c], k) =>
           \/ Serves(D, C[c], k) /\ Alike(C2[c], C[c])
           \/ C2[c].state = "read" /\ C2[c].rbuf = <<>>,
         Stream(D, C, s, k, me)
  PROVE  Stream(D2, C2, s2, k, me)
<1>1. Quiet(D, C, s, k) => Quiet(D2, C2, s2, k)
  BY DEF Quiet, Alike
<1>2. \A n : Requested(D, C, s, k, n) => Requested(D2, C2, s2, k, n)
  BY DEF Requested, Alike
<1>3. \A n : HalfRead(D, C, s, k, n) => HalfRead(D2, C2, s2, k, n)
  BY DEF HalfRead, Alike
<1>4. \A n : Replying(D, C, s, k, n) => Replying(D2, C2, s2, k, n)
  BY DEF Replying, Alike
<1>5. \A n : Replied(D, C, s, k, n) => Replied(D2, C2, s2, k, n)
  BY <1>1 DEF Replied
<1>6. QED
  BY <1>1, <1>2, <1>3, <1>4, <1>5 DEF Stream

\* A step of drive_machine on c can only disturb the client of c.
LEMMA DriveKeepsStreams ==
  ASSUME ServerTypes, Streams,
         NEW c \in ConnIds, NEW x \in Conns, InUse(conns[c]), InUse(x),
         x.fd = conns[c].fd, conns[c].fd \in Fds, fds[conns[c].fd] \in Clients,
         conns' = [conns EXCEPT ![c] = x], UNCHANGED <<settings, fds, client>>,
         sock' \in [Clients -> Socks],
         \A k \in Clients : k # ClientOf(c) => sock'[k] = sock[k],
         LET k == ClientOf(c)
         IN  Relies(client[k]) /\ Stream(fds, conns, sock[k], k, client[k])
               => Stream(fds, conns', sock'[k], k, client[k])
  PROVE  Streams'
<1>1. /\ DOMAIN conns = ConnIds /\ DOMAIN conns' = ConnIds /\ conns'[c] = x
      /\ \A d \in ConnIds : d # c => conns'[d] = conns[d]
  BY DEF ServerTypes
<1>2. ASSUME NEW k \in Clients, Relies(client[k]) PROVE Stream(fds, conns', sock'[k], k, client[k])
  <2>1. Stream(fds, conns, sock[k], k, client[k])
    BY <1>2 DEF Streams
  <2>2. CASE k = ClientOf(c)
    BY <1>2, <2>1, <2>2
  <2>3. CASE k # ClientOf(c)
    <3>1. sock'[k] = sock[k]
      BY <2>3
    <3>2. ~Serves(fds, conns[c], k) /\ ~Serves(fds, conns'[c], k)
      BY <1>1, <2>3 DEF Serves, ClientOf
    <3>3. \A d \in DOMAIN conns :
            /\ Serves(fds, conns[d], k) => Serves(fds, conns'[d], k) /\ Alike(conns'[d], conns[d])
            /\ Serves(fds, conns'[d], k) => Serves(fds, conns[d], k) /\ Alike(conns'[d], conns[d])
      BY <1>1, <3>2 DEF Alike
    <3>4. QED
      <4> PICK C2 : C2 = conns'
        OBVIOUS
      <4> PICK s2 : s2 = sock'[k]
        OBVIOUS
      <4>1. /\ DOMAIN C2 = DOMAIN conns /\ s2 = sock[k]
            /\ \A d \in DOMAIN conns :
                 /\ Serves(fds, conns[d], k) => Serves(fds, C2[d], k) /\ Alike(C2[d], conns[d])
                 /\ Serves(fds, C2[d], k) => Serves(fds, conns[d], k) /\ Alike(C2[d], conns[d])
        BY <1>1, <3>1, <3>3
      <4>2. Stream(fds, C2, s2, k, client[k])
        BY <4>1, <2>1, StreamKept
      <4>3. QED
        BY <4>2
  <2>4. QED
    BY <2>2, <2>3
<1>3. QED
  BY <1>2 DEF Streams

------------------------------------------------------------------------------
(****************************************************************************)
(* drive_machine.                                                           *)
(****************************************************************************)
LEMMA DrivenConn ==
  ASSUME IInv, NEW t \in Threads, NEW state \in {"read", "write", "closing"}, In(t, state)
  PROVE  /\ run[t] \in ConnIds /\ conns[run[t]] \in Conns
         /\ InUse(conns[run[t]]) /\ conns[run[t]].state = state
         /\ conns[run[t]].fd \in Fds /\ ClientOf(run[t]) \in Clients
         /\ ClientOf(run[t]) = fds[conns[run[t]].fd]
         /\ SockOf(run[t]) = sock[ClientOf(run[t])]
         /\ sock[ClientOf(run[t])] \in Socks
<1>1. run[t] \in ConnIds
  <2>1. run[t] \in ConnIds \cup {0, 0 - 1}
    BY DEF IInv, ServerTypes, Idle, Listener
  <2>2. run[t] > 0
    BY DEF In
  <2>3. QED
    BY <2>1, <2>2
<1>2. conns[run[t]] \in Conns /\ conns[run[t]].state = state
  BY <1>1 DEF IInv, ServerTypes, In
<1>3. InUse(conns[run[t]])
  BY <1>2 DEF InUse, None
<1>4. conns[run[t]].fd \in Fds /\ fds[conns[run[t]].fd] # None
  BY <1>1, <1>3 DEF IInv, Descriptors
<1>5. fds[conns[run[t]].fd] \in Clients
  BY <1>4 DEF IInv, ServerTypes
<1>6. QED
  BY <1>1, <1>2, <1>3, <1>4, <1>5 DEF ClientOf, SockOf, IInv, ServerTypes

\* One connection has the descriptor of a client.
LEMMA OneConn ==
  ASSUME IInv, NEW c \in ConnIds, NEW d \in ConnIds, NEW k \in Clients,
         Serves(fds, conns[c], k), Serves(fds, conns[d], k)
  PROVE  c = d
<1>1. /\ InUse(conns[c]) /\ InUse(conns[d])
      /\ fds[conns[c].fd] = k /\ fds[conns[d].fd] = k
      /\ conns[c].fd \in Fds /\ conns[d].fd \in Fds
  BY DEF Serves, IInv, Descriptors
<1>2. conns[c].fd = conns[d].fd
  BY <1>1 DEF IInv, ClientsApart, Descriptors
<1>3. QED
  BY <1>1, <1>2 DEF IInv, Descriptors

LEMMA DriveStep ==
  ASSUME IInv, NEW t \in Threads, NEW state \in {"read", "write"}, In(t, state),
         NEW x \in Conns, InUse(x),
         x.fd = conns[run[t]].fd, x.thread = conns[run[t]].thread,
         conns' = [conns EXCEPT ![run[t]] = x],
         run' = run \/ run' = [run EXCEPT ![t] = Idle],
         OnlyConn, UNCHANGED client,
         sock' \in [Clients -> Socks],
         \A k \in Clients : k # ClientOf(run[t]) => sock'[k] = sock[k],
         LET k == ClientOf(run[t])
         IN  Relies(client[k]) /\ Stream(fds, conns, sock[k], k, client[k])
               => Stream(fds, conns', sock'[k], k, client[k])
  PROVE  IInv'
<1>1. /\ run[t] \in ConnIds /\ InUse(conns[run[t]]) /\ conns[run[t]].fd \in Fds
      /\ fds[conns[run[t]].fd] \in Clients
  BY DrivenConn
<1>2. /\ ServerTypes /\ ClientTypes /\ Structures /\ Driven /\ Descriptors
      /\ ClientsApart /\ Streams /\ ScoresTrue
  BY DEF IInv
<1>3. UNCHANGED <<settings, fds, queue, conn_structs, freeconns, backlog>>
  BY DEF OnlyConn
<1>4. Structures' /\ Driven' /\ Descriptors'
  BY <1>1, <1>2, <1>3, DriveKeepsOwners
<1>5. Streams'
  BY <1>1, <1>2, <1>3, DriveKeepsStreams
<1>6. ClientsApart' /\ ScoresTrue'
  BY <1>2, <1>3, OwnersFrame
<1>7. ServerTypes'
  <2>1. /\ conns' \in [ConnIds -> Conns]
        /\ run' \in [Threads -> ConnIds \cup {Idle, Listener}]
    BY <1>1, <1>2 DEF ServerTypes
  <2>2. Conns' = Conns /\ ConnIds' = ConnIds /\ Threads' = Threads /\ Fds' = Fds
    BY <1>3, SameSets
  <2>3. QED
    BY <1>2, <2>1, <2>2 DEF ServerTypes, OnlyConn
<1>8. ClientTypes'
  BY <1>2 DEF ClientTypes
<1>9. QED
  BY <1>4, <1>5, <1>6, <1>7, <1>8 DEF IInv

\* A step that keeps what matters in the structure and the socket.
LEMMA AlikeStream ==
  ASSUME ServerTypes, NEW c \in ConnIds, NEW x \in Conns, InUse(x) <=> InUse(conns[c]),
         x.fd = conns[c].fd, Alike(x, conns[c]), conns' = [conns EXCEPT ![c] = x],
         NEW k \in Clients, NEW me, Stream(fds, conns, sock[k], k, me)
  PROVE  Stream(fds, conns', sock[k], k, me)
<1>1. /\ DOMAIN conns = ConnIds /\ DOMAIN conns' = ConnIds /\ conns'[c] = x
      /\ \A d \in ConnIds : d # c => conns'[d] = conns[d]
  BY DEF ServerTypes
<1>2. \A d \in DOMAIN conns :
        /\ Serves(fds, conns[d], k) => Serves(fds, conns'[d], k) /\ Alike(conns'[d], conns[d])
        /\ Serves(fds, conns'[d], k) => Serves(fds, conns[d], k) /\ Alike(conns'[d], conns[d])
  BY <1>1 DEF Serves, Alike
<1>3. PICK C2 : C2 = conns'
  OBVIOUS
<1>4. /\ DOMAIN C2 = DOMAIN conns
      /\ \A d \in DOMAIN conns :
           /\ Serves(fds, conns[d], k) => Serves(fds, C2[d], k) /\ Alike(C2[d], conns[d])
           /\ Serves(fds, C2[d], k) => Serves(fds, conns[d], k) /\ Alike(C2[d], conns[d])
  BY <1>1, <1>2, <1>3
<1>5. Stream(fds, C2, sock[k], k, me)
  BY <1>4, StreamKept
<1>6. QED
  BY <1>3, <1>5

LEMMA NothingToReadKeeps ==
  ASSUME IInv, NEW t \in Threads, NothingToRead(t), UNCHANGED client
  PROVE  IInv'
<1> DEFINE c == run[t]
           x == [conns[c] EXCEPT !.event = "read"]
<1>1. /\ In(t, "read") /\ conns' = [conns EXCEPT ![c] = x] /\ run' = [run EXCEPT ![t] = Idle]
      /\ OnlyConn /\ UNCHANGED sock
  BY DEF NothingToRead
<1>2. /\ c \in ConnIds /\ conns[c] \in Conns /\ InUse(conns[c]) /\ ClientOf(c) \in Clients
  BY <1>1, DrivenConn
<1>3. /\ x \in Conns /\ InUse(x) /\ x.fd = conns[c].fd /\ x.thread = conns[c].thread
      /\ Alike(x, conns[c])
  BY <1>2 DEF Conns, InUse, Alike, ToSend
<1>4. sock \in [Clients -> Socks] /\ ServerTypes
  BY DEF IInv, ServerTypes
<1> HIDE DEF x
<1>5. Stream(fds, conns, sock[ClientOf(c)], ClientOf(c), client[ClientOf(c)])
        => Stream(fds, conns', sock[ClientOf(c)], ClientOf(c), client[ClientOf(c)])
  BY <1>1, <1>2, <1>3, <1>4, AlikeStream
<1>6. QED
  BY <1>1, <1>3, <1>4, <1>5, DriveStep

LEMMA TransmitSoftErrorKeeps ==
  ASSUME IInv, NEW t \in Threads, TransmitSoftError(t), UNCHANGED client
  PROVE  IInv'
<1> DEFINE c == run[t]
           x == [conns[c] EXCEPT !.event = "write", !.iov = ToSend(conns[c]), !.iovused = TRUE]
<1>1. /\ In(t, "write") /\ conns' = [conns EXCEPT ![c] = x] /\ run' = [run EXCEPT ![t] = Idle]
      /\ OnlyConn /\ UNCHANGED sock
  BY DEF TransmitSoftError
<1>2. /\ c \in ConnIds /\ conns[c] \in Conns /\ InUse(conns[c]) /\ ClientOf(c) \in Clients
  BY <1>1, DrivenConn
<1>3. ToSend(conns[c]) \in Seq(ReplyBytes)
  <2>1. conns[c].iov \in Seq(ReplyBytes) /\ conns[c].wbuf \in Scores
    BY <1>2 DEF Conns
  <2>2. QED
    BY <2>1, BytesTyped DEF ToSend
<1>4. /\ x \in Conns /\ InUse(x) /\ x.fd = conns[c].fd /\ x.thread = conns[c].thread
      /\ Alike(x, conns[c])
  BY <1>2, <1>3 DEF Conns, InUse, Alike, ToSend
<1>5. sock \in [Clients -> Socks] /\ ServerTypes
  BY DEF IInv, ServerTypes
<1> HIDE DEF x
<1>6. Stream(fds, conns, sock[ClientOf(c)], ClientOf(c), client[ClientOf(c)])
        => Stream(fds, conns', sock[ClientOf(c)], ClientOf(c), client[ClientOf(c)])
  BY <1>1, <1>2, <1>4, <1>5, AlikeStream
<1>7. QED
  BY <1>1, <1>4, <1>5, <1>6, DriveStep

LEMMA ClosingKeeps ==
  ASSUME IInv, NEW t \in Threads, ReadEndOfFile(t) \/ TransmitHardError(t), UNCHANGED client
  PROVE  IInv'
<1> DEFINE c == run[t]
           x == [conns[c] EXCEPT !.state = "closing"]
<1>1. PICK state \in {"read", "write"} : In(t, state)
  BY DEF ReadEndOfFile, TransmitHardError
<1>2. /\ SockOf(c).closedUp /\ conns' = [conns EXCEPT ![c] = x]
      /\ UNCHANGED run /\ OnlyConn /\ UNCHANGED sock
  BY DEF ReadEndOfFile, TransmitHardError
<1>3. /\ c \in ConnIds /\ conns[c] \in Conns /\ InUse(conns[c]) /\ ClientOf(c) \in Clients
      /\ SockOf(c) = sock[ClientOf(c)]
  BY <1>1, DrivenConn
<1>4. /\ x \in Conns /\ InUse(x) /\ x.fd = conns[c].fd /\ x.thread = conns[c].thread
  BY <1>3 DEF Conns, InUse, None
<1>5. sock \in [Clients -> Socks]
  BY DEF IInv, ServerTypes
<1> HIDE DEF x
<1>6. ~Stream(fds, conns, sock[ClientOf(c)], ClientOf(c), client[ClientOf(c)])
  BY <1>2, <1>3 DEF Stream
<1>7. QED
  BY <1>1, <1>2, <1>4, <1>5, <1>6, DriveStep

\* What has been sent and what is left are the reply.
LEMMA SentAndRest ==
  ASSUME NEW score \in Scores, NEW m \in 0 .. ReplySize
  PROVE  /\ Sent(score, m) \in Seq(ReplyBytes) /\ Len(Sent(score, m)) = m
         /\ Rest(score, m) \in Seq(ReplyBytes) /\ Len(Rest(score, m)) = ReplySize - m
         /\ \A i \in 1 .. m : Sent(score, m)[i] = <<score, i - 1>>
         /\ \A i \in 1 .. ReplySize - m : Rest(score, m)[i] = <<score, m + i - 1>>
<1>1. m \in Nat /\ ReplySize - m \in Nat
  BY DEF ReplySize
<1>2. QED
  BY <1>1 DEF Sent, Rest, ReplyBytes

LEMMA SendMore ==
  ASSUME NEW score \in Scores, NEW m \in 0 .. ReplySize, NEW n \in 0 .. ReplySize - m
  PROVE  /\ Sent(score, m) \o SubSeq(Rest(score, m), 1, n) = Sent(score, m + n)
         /\ After(Rest(score, m), n) = Rest(score, m + n)
<1>1. /\ m \in Nat /\ n \in Nat /\ m + n \in 0 .. ReplySize /\ m + n \in Nat
      /\ ReplySize \in Nat /\ n \in 0 .. ReplySize - m
  BY DEF ReplySize
<1> DEFINE s == Sent(score, m)
           r == Rest(score, m)
           s2 == Sent(score, m + n)
           r2 == Rest(score, m + n)
<1>2. /\ s \in Seq(ReplyBytes) /\ Len(s) = m /\ \A i \in 1 .. m : s[i] = <<score, i - 1>>
      /\ r \in Seq(ReplyBytes) /\ Len(r) = ReplySize - m
      /\ \A i \in 1 .. ReplySize - m : r[i] = <<score, m + i - 1>>
  BY SentAndRest
<1>3. /\ s2 \in Seq(ReplyBytes) /\ Len(s2) = m + n
      /\ \A i \in 1 .. m + n : s2[i] = <<score, i - 1>>
      /\ r2 \in Seq(ReplyBytes) /\ Len(r2) = ReplySize - (m + n)
      /\ \A i \in 1 .. ReplySize - (m + n) : r2[i] = <<score, (m + n) + i - 1>>
  BY <1>1, SentAndRest
<1> HIDE DEF s, r, s2, r2
<1>4. n \in 0 .. Len(r)
  BY <1>1, <1>2
<1>5. /\ After(r, n) \in Seq(ReplyBytes) /\ Len(After(r, n)) = Len(r) - n
      /\ \A i \in 1 .. Len(r) - n : After(r, n)[i] = r[n + i]
      /\ SubSeq(r, 1, n) \in Seq(ReplyBytes) /\ Len(SubSeq(r, 1, n)) = n
      /\ \A i \in 1 .. n : SubSeq(r, 1, n)[i] = r[i]
  BY <1>2, <1>4, AfterTyped
<1>6. After(r, n) = r2
  <2> DEFINE a == After(r, n)
  <2>1. a \in Seq(ReplyBytes) /\ Len(a) = Len(r2)
    BY <1>1, <1>2, <1>3, <1>5
  <2>2. ASSUME NEW i \in 1 .. Len(a) PROVE a[i] = r2[i]
    <3>1. /\ i \in Nat /\ i \in 1 .. ReplySize - (m + n) /\ i \in 1 .. Len(r) - n
          /\ n + i \in 1 .. ReplySize - m
      BY <1>1, <1>2, <1>3, <1>5, <2>1
    <3>2. a[i] = r[n + i] /\ r[n + i] = <<score, m + (n + i) - 1>>
      BY <3>1, <1>2, <1>5
    <3>3. r2[i] = <<score, (m + n) + i - 1>>
      BY <3>1, <1>3
    <3>4. m + (n + i) - 1 = (m + n) + i - 1
      BY <3>1, <1>1
    <3>5. QED
      BY <3>2, <3>3, <3>4
  <2> HIDE DEF a
  <2>3. a = r2
    BY <1>3, <2>1, <2>2, SeqEqual
  <2>4. QED
    BY <2>3 DEF a
<1>7. s \o SubSeq(r, 1, n) = s2
  <2> DEFINE p == SubSeq(r, 1, n)
             a == s \o p
  <2>0. p \in Seq(ReplyBytes) /\ Len(p) = n /\ \A i \in 1 .. n : p[i] = r[i]
    BY <1>5
  <2> HIDE DEF p
  <2>1. /\ a \in Seq(ReplyBytes) /\ Len(a) = m + n
        /\ \A i \in 1 .. m + n : a[i] = IF i <= m THEN s[i] ELSE p[i - m]
    BY <1>1, <1>2, <2>0, ConcatProperties
  <2> HIDE DEF a
  <2>2. ASSUME NEW i \in 1 .. Len(a) PROVE a[i] = s2[i]
    <3>1. i \in 1 .. m + n /\ s2[i] = <<score, i - 1>>
      BY <1>3, <2>1
    <3>2. CASE i <= m
      <4>1. i \in 1 .. m
        BY <3>1, <3>2, <1>1
      <4>2. a[i] = s[i] /\ s[i] = <<score, i - 1>>
        BY <2>1, <3>1, <3>2, <4>1, <1>2
      <4>3. QED
        BY <4>2, <3>1
    <3>3. CASE ~(i <= m)
      <4>1. i - m \in 1 .. n /\ i - m \in 1 .. ReplySize - m /\ m + (i - m) - 1 = i - 1
        BY <3>1, <3>3, <1>1
      <4>2. a[i] = p[i - m] /\ p[i - m] = r[i - m]
        BY <2>0, <2>1, <3>1, <3>3, <4>1
      <4>3. r[i - m] = <<score, m + (i - m) - 1>>
        BY <1>2, <4>1
      <4>4. QED
        BY <3>1, <4>1, <4>2, <4>3
    <3>4. QED
      BY <3>2, <3>3
  <2>3. a = s2
    BY <1>3, <2>1, <2>2, SeqEqual
  <2>4. QED
    BY <2>3 DEF a, p
<1>8. QED
  BY <1>6, <1>7 DEF s, r, s2, r2

\* A step of the stream of a decoder that waits for its reply.
LEMMA StreamMoves ==
  ASSUME NEW D, NEW C, NEW C2, NEW s, NEW s2, NEW k, NEW me,
         Stream(D, C, s, k, me), me.pc = "read", s2.closedUp = s.closedUp,
         \/ HalfRead(D, C2, s2, k, me.ngram)
         \/ Replying(D, C2, s2, k, me.ngram)
         \/ Replied(D, C2, s2, k, me.ngram)
  PROVE  Stream(D, C2, s2, k, me)
BY DEF Stream

\* The reply of a connection that writes is on its way.
LEMMA WritingStream ==
  ASSUME IInv, NEW c \in ConnIds, NEW k \in Clients, Serves(fds, conns[c], k),
         conns[c].state = "write", Relies(client[k]),
         Stream(fds, conns, sock[k], k, client[k])
  PROVE  /\ client[k].pc = "read" /\ sock[k].up = <<>> /\ conns[c].rbuf = <<>>
         /\ \E m \in 0 .. ReplySize - 1 :
              /\ sock[k].down = Sent(Score(client[k].ngram), m)
              /\ ToSend(conns[c]) = Rest(Score(client[k].ngram), m)
<1>0. DOMAIN conns = ConnIds
  BY DEF IInv, ServerTypes
<1>1. ~Quiet(fds, conns, sock[k], k)
  BY <1>0 DEF Quiet
<1>2. \A n : ~Requested(fds, conns, sock[k], k, n)
  BY <1>0 DEF Requested
<1>3. \A n : ~HalfRead(fds, conns, sock[k], k, n)
  BY <1>0, OneConn DEF HalfRead
<1>4. client[k].pc = "read" /\ Replying(fds, conns, sock[k], k, client[k].ngram)
  BY <1>1, <1>2, <1>3 DEF Stream, Relies, Replied
<1>5. PICK d \in ConnIds, m \in 0 .. ReplySize - 1 :
        /\ Serves(fds, conns[d], k) /\ conns[d].rbuf = <<>>
        /\ sock[k].down = Sent(Score(client[k].ngram), m)
        /\ ToSend(conns[d]) = Rest(Score(client[k].ngram), m)
  BY <1>0, <1>4 DEF Replying
<1>6. d = c
  BY <1>5, OneConn
<1>7. QED
  BY <1>4, <1>5, <1>6 DEF Replying

LEMMA TransmitKeeps ==
  ASSUME IInv, NEW t \in Threads, Transmit(t), UNCHANGED client
  PROVE  IInv'
<1> DEFINE c == run[t]
           k == ClientOf(c)
           send == ToSend(conns[c])
<1>1. In(t, "write") /\ OnlyConn /\ UNCHANGED run
  BY DEF Transmit
<1>2. /\ c \in ConnIds /\ conns[c] \in Conns /\ InUse(conns[c]) /\ k \in Clients
      /\ fds[conns[c].fd] = k /\ sock[k] \in Socks /\ conns[c].state = "write"
  BY <1>1, DrivenConn
<1>3. send \in Seq(ReplyBytes)
  <2>1. conns[c].iov \in Seq(ReplyBytes) /\ conns[c].wbuf \in Scores
    BY <1>2 DEF Conns
  <2>2. QED
    BY <2>1, BytesTyped DEF ToSend
<1>4. PICK n \in 1 .. Len(send) :
        /\ conns' = [conns EXCEPT ![c] =
             LET sent == [conns[c] EXCEPT !.iov = After(send, n), !.iovused = TRUE]
             IN  IF sent.iov = <<>> THEN TryReadCommand(sent) ELSE sent]
        /\ sock' = [sock EXCEPT ![k].down = @ \o SubSeq(send, 1, n)]
  BY DEF Transmit
<1> DEFINE left == After(send, n)
           more == SubSeq(send, 1, n)
           sent == [conns[c] EXCEPT !.iov = left, !.iovused = TRUE]
           x == IF sent.iov = <<>> THEN TryReadCommand(sent) ELSE sent
<1>5. conns' = [conns EXCEPT ![c] = x]
  BY <1>4
<1>6. left \in Seq(ReplyBytes) /\ more \in Seq(ReplyBytes)
  <2> HIDE DEF send
  <2>1. n \in 0 .. Len(send)
    BY <1>3, LenProperties
  <2>2. QED
    BY <1>3, <2>1, AfterTyped
<1>7. /\ sent \in Conns /\ sent.fd = conns[c].fd /\ sent.thread = conns[c].thread
      /\ sent.state = "write" /\ sent.rbuf = conns[c].rbuf /\ sent.iov = left /\ sent.iovused
  <2> HIDE DEF left
  <2>1. QED
    BY <1>2, <1>6 DEF Conns
<1> HIDE DEF send, left, more, sent
<1>8. /\ x \in Conns /\ x.fd = conns[c].fd /\ x.thread = conns[c].thread
      /\ x.state \in {"read", "write"}
  BY <1>7, TryReadCommandTyped
<1>9. InUse(x)
  BY <1>8 DEF InUse, None
<1>10. /\ sock' \in [Clients -> Socks] /\ sock'[k] = [sock[k] EXCEPT !.down = @ \o more]
       /\ \A j \in Clients : j # k => sock'[j] = sock[j]
  <2>1. sock \in [Clients -> Socks]
    BY DEF IInv, ServerTypes
  <2>2. sock' = [sock EXCEPT ![k] = [sock[k] EXCEPT !.down = @ \o more]]
    BY <1>4 DEF more
  <2>3. sock[k].down \o more \in Seq(ReplyBytes)
    BY <1>2, <1>6, ConcatProperties DEF Socks
  <2>4. [sock[k] EXCEPT !.down = @ \o more] \in Socks
    BY <1>2, <2>3 DEF Socks
  <2>5. QED
    BY <1>2, <2>1, <2>2, <2>4
<1>11. ASSUME Relies(client[k]), Stream(fds, conns, sock[k], k, client[k])
       PROVE  Stream(fds, conns', sock'[k], k, client[k])
  <2> DEFINE score == Score(client[k].ngram)
  <2>1. Serves(fds, conns[c], k)
    BY <1>2 DEF Serves
  <2>2. client[k].pc = "read" /\ sock[k].up = <<>> /\ conns[c].rbuf = <<>>
    BY <1>2, <1>11, <2>1, WritingStream
  <2>3. PICK m \in 0 .. ReplySize - 1 : sock[k].down = Sent(score, m) /\ send = Rest(score, m)
    BY <1>2, <1>11, <2>1, WritingStream DEF send
  <2>4. score \in Scores
    <3>1. client[k].ngram \in NGrams
      BY <1>2, <2>2 DEF IInv, ClientTypes
    <3>2. QED
      BY <3>1 DEF Scores, Symbols
  <2> HIDE DEF score
  <2>5. m \in 0 .. ReplySize /\ n \in 0 .. ReplySize - m /\ m + n \in 0 .. ReplySize /\ n > 0
    <3>1. m \in 0 .. ReplySize
      BY DEF ReplySize
    <3>2. Len(send) = ReplySize - m
      BY <2>3, <2>4, <3>1, SentAndRest
    <3>3. QED
      BY <3>1, <3>2 DEF ReplySize
  <2>6. left = Rest(score, m + n) /\ sock[k].down \o more = Sent(score, m + n)
    BY <2>3, <2>4, <2>5, SendMore DEF left, more
  <2>7. Len(left) = ReplySize - (m + n)
    BY <2>4, <2>5, <2>6, SentAndRest
  <2>8. /\ DOMAIN conns = ConnIds /\ DOMAIN conns' = ConnIds /\ conns'[c] = x
        /\ \A d \in ConnIds : d # c => conns'[d] = conns[d]
    BY <1>2, <1>5 DEF IInv, ServerTypes
  <2>9. Serves(fds, conns'[c], k)
    BY <1>2, <1>8, <1>9, <2>8 DEF Serves
  <2>10. sock'[k].up = <<>> /\ sock'[k].down = Sent(score, m + n)
         /\ sock'[k].closedUp = sock[k].closedUp
    BY <1>2, <1>10, <2>2, <2>6 DEF Socks
  <2>11. CASE m + n = ReplySize
    <3>1. left = <<>>
      BY <1>6, <2>7, <2>11, Nothing DEF ReplySize
    <3>2. x = [sent EXCEPT !.state = "read"]
      <4>1. \A i \in 1 .. Len(sent.rbuf) : sent.rbuf[i] # EOL
        BY <1>7, <2>2
      <4>2. QED
        BY <1>7, <3>1, <4>1, NoCommand
    <3>3. x.state = "read" /\ x.rbuf = <<>>
      BY <1>7, <2>2, <3>2 DEF Conns
    <3>4. \A d \in DOMAIN conns' : Serves(fds, conns'[d], k) => d = c
      BY <1>2, <2>1, <2>8, OneConn
    <3>5. Quiet(fds, conns', sock'[k], k)
      BY <2>8, <2>10, <3>3, <3>4 DEF Quiet
    <3>6. Replied(fds, conns', sock'[k], k, client[k].ngram)
      BY <2>10, <2>11, <3>5 DEF Replied, score
    <3>7. QED
      BY <1>11, <2>2, <2>10, <3>6, StreamMoves
  <2>12. CASE m + n # ReplySize
    <3>1. left # <<>> /\ m + n \in 0 .. ReplySize - 1
      BY <1>6, <2>5, <2>7, <2>12 DEF ReplySize
    <3>2. x = sent
      BY <1>7, <3>1
    <3>3. ToSend(x) = Rest(score, m + n)
      BY <1>7, <2>6, <3>2 DEF ToSend
    <3>4. x.state = "write" /\ x.rbuf = <<>>
      BY <1>7, <2>2, <3>2
    <3>5. Replying(fds, conns', sock'[k], k, client[k].ngram)
      BY <1>2, <2>8, <2>9, <2>10, <3>1, <3>3, <3>4 DEF Replying, score
    <3>6. QED
      BY <1>11, <2>2, <2>10, <3>5, StreamMoves
  <2>13. QED
    BY <2>11, <2>12
<1> HIDE DEF x
<1>12. QED
  BY <1>1, <1>5, <1>8, <1>9, <1>10, <1>11, DriveStep

\* The request of a decoder arrives, at a connection that reads: in one piece,
\* or in two.
LEMMA ReadingStream ==
  ASSUME IInv, NEW c \in ConnIds, NEW k \in Clients, Serves(fds, conns[c], k),
         conns[c].state = "read", Relies(client[k]),
         Stream(fds, conns, sock[k], k, client[k]), sock[k].up # <<>>
  PROVE  /\ client[k].pc = "read" /\ sock[k].down = <<>>
         /\ \/ sock[k].up = <<client[k].ngram, EOL>> /\ conns[c].rbuf = <<>>
            \/ sock[k].up = <<EOL>> /\ conns[c].rbuf = <<client[k].ngram>>
<1>0. DOMAIN conns = ConnIds
  BY DEF IInv, ServerTypes
<1>1. /\ ~Quiet(fds, conns, sock[k], k)
      /\ \A n : ~Replying(fds, conns, sock[k], k, n) /\ ~Replied(fds, conns, sock[k], k, n)
  BY DEF Quiet, Replying, Replied
<1>2. /\ client[k].pc = "read"
      /\ \/ Requested(fds, conns, sock[k], k, client[k].ngram)
         \/ HalfRead(fds, conns, sock[k], k, client[k].ngram)
  BY <1>1 DEF Stream, Relies
<1>3. CASE Requested(fds, conns, sock[k], k, client[k].ngram)
  BY <1>0, <1>2, <1>3 DEF Requested
<1>4. CASE HalfRead(fds, conns, sock[k], k, client[k].ngram)
  <2>1. PICK d \in ConnIds : Serves(fds, conns[d], k) /\ conns[d].rbuf = <<client[k].ngram>>
    BY <1>0, <1>4 DEF HalfRead
  <2>2. d = c
    BY <2>1, OneConn
  <2>3. QED
    BY <1>2, <1>4, <2>1, <2>2 DEF HalfRead
<1>5. QED
  BY <1>2, <1>3, <1>4

\* What of a request is read, and what is left.
LEMMA RequestRead ==
  ASSUME NEW g \in NGrams, NEW up \in Seq(Symbols), NEW rbuf \in Seq(Symbols),
         NEW n \in 1 .. Len(up)
  PROVE  (up = <<g, EOL>> /\ rbuf = <<>>) \/ (up = <<EOL>> /\ rbuf = <<g>>) =>
           \/ /\ rbuf \o SubSeq(up, 1, n) = <<g>> /\ After(up, n) = <<EOL>>
           \/ /\ Len(rbuf \o SubSeq(up, 1, n)) = 2 /\ After(up, n) = <<>>
              /\ (rbuf \o SubSeq(up, 1, n))[1] = g /\ (rbuf \o SubSeq(up, 1, n))[2] = EOL
<1> DEFINE piece == SubSeq(up, 1, n)
           left  == After(up, n)
           all   == rbuf \o piece
<1>1. n \in 0 .. Len(up) /\ Len(up) \in Nat
  BY LenProperties
<1>2. /\ left \in Seq(Symbols) /\ Len(left) = Len(up) - n
      /\ \A i \in 1 .. Len(up) - n : left[i] = up[n + i]
      /\ piece \in Seq(Symbols) /\ Len(piece) = n /\ \A i \in 1 .. n : piece[i] = up[i]
  BY <1>1, AfterTyped
<1> HIDE DEF piece, left
<1>3. /\ all \in Seq(Symbols) /\ Len(all) = Len(rbuf) + n
      /\ \A i \in 1 .. Len(rbuf) + n :
           all[i] = IF i <= Len(rbuf) THEN rbuf[i] ELSE piece[i - Len(rbuf)]
  BY <1>1, <1>2, ConcatProperties
<1> HIDE DEF all
<1>4. ASSUME up = <<g, EOL>>, rbuf = <<>>
      PROVE  Len(up) = 2 /\ up[1] = g /\ up[2] = EOL /\ Len(rbuf) = 0
  BY <1>4
<1>5. ASSUME up = <<EOL>>, rbuf = <<g>>
      PROVE  Len(up) = 1 /\ up[1] = EOL /\ Len(rbuf) = 1 /\ rbuf[1] = g
  BY <1>5
<1>6. CASE up = <<g, EOL>> /\ rbuf = <<>> /\ n = 1
  <2>1. Len(up) = 2 /\ up[1] = g /\ up[2] = EOL /\ Len(rbuf) = 0
    BY <1>4, <1>6
  <2>2. Len(all) = 1 /\ all[1] = g /\ Len(left) = 1 /\ left[1] = EOL
    <3>1. 1 \in 1 .. Len(rbuf) + n /\ 1 \in 1 .. Len(up) - n /\ 1 \in 1 .. n
      BY <2>1, <1>6
    <3>2. all[1] = piece[1 - 0] /\ left[1] = up[1 + 1]
      BY <1>2, <1>3, <1>6, <2>1, <3>1
    <3>3. piece[1] = up[1]
      BY <1>2, <3>1
    <3>4. QED
      BY <1>2, <1>3, <1>6, <2>1, <3>2, <3>3
  <2>3. all = <<g>> /\ left = <<EOL>>
    BY <1>2, <1>3, <2>2, Singleton
  <2>4. QED
    BY <2>3 DEF all, left, piece
<1>7. CASE up = <<g, EOL>> /\ rbuf = <<>> /\ n = 2
  <2>1. Len(up) = 2 /\ up[1] = g /\ up[2] = EOL /\ Len(rbuf) = 0
    BY <1>4, <1>7
  <2>2. Len(all) = 2 /\ all[1] = g /\ all[2] = EOL /\ Len(left) = 0
    <3>1. 1 \in 1 .. Len(rbuf) + n /\ 2 \in 1 .. Len(rbuf) + n /\ 1 \in 1 .. n /\ 2 \in 1 .. n
      BY <2>1, <1>7
    <3>2. all[1] = piece[1 - 0] /\ all[2] = piece[2 - 0]
      BY <1>3, <2>1, <3>1
    <3>3. piece[1] = up[1] /\ piece[2] = up[2]
      BY <1>2, <3>1
    <3>4. QED
      BY <1>2, <1>3, <1>7, <2>1, <3>2, <3>3
  <2>3. left = <<>>
    BY <1>2, <2>2, Nothing
  <2>4. QED
    BY <2>2, <2>3 DEF all, left, piece
<1>8. CASE up = <<EOL>> /\ rbuf = <<g>>
  <2>1. Len(up) = 1 /\ up[1] = EOL /\ Len(rbuf) = 1 /\ rbuf[1] = g /\ n = 1
    BY <1>5, <1>8
  <2>2. Len(all) = 2 /\ all[1] = g /\ all[2] = EOL /\ Len(left) = 0
    <3>1. 1 \in 1 .. Len(rbuf) + n /\ 2 \in 1 .. Len(rbuf) + n /\ 1 \in 1 .. n
      BY <2>1
    <3>2. all[1] = rbuf[1] /\ all[2] = piece[2 - 1]
      BY <1>3, <2>1, <3>1
    <3>3. piece[1] = up[1]
      BY <1>2, <3>1
    <3>4. QED
      BY <1>2, <1>3, <2>1, <3>2, <3>3
  <2>3. left = <<>>
    BY <1>2, <2>2, Nothing
  <2>4. QED
    BY <2>2, <2>3 DEF all, left, piece
<1>9. QED
  <2>1. CASE up = <<g, EOL>> /\ rbuf = <<>>
    <3>1. n = 1 \/ n = 2
      BY <2>1, <1>4
    <3>2. QED
      BY <2>1, <3>1, <1>6, <1>7 DEF all, left, piece
  <2>2. QED
    BY <2>1, <1>8 DEF all, left, piece

LEMMA TryReadNetworkKeeps ==
  ASSUME IInv, NEW t \in Threads, TryReadNetwork(t), UNCHANGED client
  PROVE  IInv'
<1> DEFINE c == run[t]
           k == ClientOf(c)
           up == SockOf(c).up
<1>1. In(t, "read") /\ OnlyConn
  BY DEF TryReadNetwork
<1>2. /\ c \in ConnIds /\ conns[c] \in Conns /\ InUse(conns[c]) /\ k \in Clients
      /\ fds[conns[c].fd] = k /\ sock[k] \in Socks /\ conns[c].state = "read"
      /\ SockOf(c) = sock[k]
  BY <1>1, DrivenConn
<1>3. up \in Seq(Symbols) /\ up = sock[k].up
  BY <1>2 DEF Socks
<1>4. PICK n \in 1 .. Len(up) :
        /\ conns' = [conns EXCEPT ![c] =
             LET read == TryReadCommand([conns[c] EXCEPT !.rbuf = @ \o SubSeq(up, 1, n)])
             IN  IF read.state = "read" THEN [read EXCEPT !.event = "read"] ELSE read]
        /\ run' = IF conns'[c].state = "read" THEN [run EXCEPT ![t] = Idle] ELSE run
        /\ sock' = [sock EXCEPT ![k].up = After(@, n)]
  BY DEF TryReadNetwork
<1> DEFINE left == After(up, n)
           all  == conns[c].rbuf \o SubSeq(up, 1, n)
           full == [conns[c] EXCEPT !.rbuf = all]
           read == TryReadCommand(full)
           x    == IF read.state = "read" THEN [read EXCEPT !.event = "read"] ELSE read
<1>5. /\ n \in 1 .. Len(up)
      /\ conns' = [conns EXCEPT ![c] = x] /\ (run' = run \/ run' = [run EXCEPT ![t] = Idle])
  <2>1. conns' = [conns EXCEPT ![c] = x]
    BY <1>4
  <2>2. run' = run \/ run' = [run EXCEPT ![t] = Idle]
    <3> HIDE DEF x
    <3>1. QED
      BY <1>4
  <2>3. QED
    BY <1>4, <2>1, <2>2
<1>6. left \in Seq(Symbols) /\ all \in Seq(Symbols)
  <2>1. conns[c].rbuf \in Seq(Symbols)
    BY <1>2 DEF Conns
  <2> HIDE DEF up
  <2>2. n \in 0 .. Len(up)
    BY <1>3, LenProperties
  <2>3. left \in Seq(Symbols) /\ SubSeq(up, 1, n) \in Seq(Symbols)
    BY <1>3, <2>2, AfterTyped
  <2>4. QED
    BY <2>1, <2>3, ConcatProperties
<1>7. /\ full \in Conns /\ full.fd = conns[c].fd /\ full.thread = conns[c].thread
      /\ full.rbuf = all
  <2> HIDE DEF all
  <2>1. QED
    BY <1>2, <1>6 DEF Conns
<1> HIDE DEF up, left, all, full
<1>8. /\ read \in Conns /\ read.fd = conns[c].fd /\ read.thread = conns[c].thread
      /\ read.state \in {"read", "write"}
  BY <1>7, TryReadCommandTyped
<1> HIDE DEF read
<1>9. /\ x \in Conns /\ InUse(x) /\ x.fd = conns[c].fd /\ x.thread = conns[c].thread
      /\ x.state = read.state /\ x.rbuf = read.rbuf /\ ToSend(x) = ToSend(read)
  BY <1>8 DEF InUse, None, Conns, ToSend
<1>10. /\ sock' \in [Clients -> Socks] /\ sock'[k] = [sock[k] EXCEPT !.up = left]
       /\ \A j \in Clients : j # k => sock'[j] = sock[j]
  <2>1. sock \in [Clients -> Socks]
    BY DEF IInv, ServerTypes
  <2>2. sock' = [sock EXCEPT ![k] = [sock[k] EXCEPT !.up = left]]
    BY <1>2, <1>4 DEF left, up
  <2>3. [sock[k] EXCEPT !.up = left] \in Socks
    BY <1>2, <1>6 DEF Socks
  <2>4. QED
    BY <1>2, <2>1, <2>2, <2>3
<1>11. ASSUME Relies(client[k]), Stream(fds, conns, sock[k], k, client[k])
       PROVE  Stream(fds, conns', sock'[k], k, client[k])
  <2> DEFINE g == client[k].ngram
  <2>1. Serves(fds, conns[c], k)
    BY <1>2 DEF Serves
  <2>2. up # <<>>
    BY <1>3
  <2>3. /\ client[k].pc = "read" /\ sock[k].down = <<>>
        /\ \/ up = <<g, EOL>> /\ conns[c].rbuf = <<>>
           \/ up = <<EOL>> /\ conns[c].rbuf = <<g>>
    BY <1>2, <1>11, <2>1, <2>2, ReadingStream DEF up
  <2>4. g \in NGrams
    BY <1>2, <2>3 DEF IInv, ClientTypes
  <2> HIDE DEF g
  <2>5. \/ all = <<g>> /\ left = <<EOL>>
        \/ Len(all) = 2 /\ left = <<>> /\ all[1] = g /\ all[2] = EOL
    <3>1. PICK rbuf \in Seq(Symbols) : rbuf = conns[c].rbuf
      BY <1>2 DEF Conns
    <3>2. n \in 1 .. Len(up)
      BY <1>5
    <3>3. (up = <<g, EOL>> /\ rbuf = <<>>) \/ (up = <<EOL>> /\ rbuf = <<g>>)
      BY <2>3, <3>1
    <3>4. \/ /\ rbuf \o SubSeq(up, 1, n) = <<g>> /\ After(up, n) = <<EOL>>
          \/ /\ Len(rbuf \o SubSeq(up, 1, n)) = 2 /\ After(up, n) = <<>>
             /\ (rbuf \o SubSeq(up, 1, n))[1] = g /\ (rbuf \o SubSeq(up, 1, n))[2] = EOL
      <4>1. (up = <<g, EOL>> /\ rbuf = <<>>) \/ (up = <<EOL>> /\ rbuf = <<g>>) =>
              \/ /\ rbuf \o SubSeq(up, 1, n) = <<g>> /\ After(up, n) = <<EOL>>
              \/ /\ Len(rbuf \o SubSeq(up, 1, n)) = 2 /\ After(up, n) = <<>>
                 /\ (rbuf \o SubSeq(up, 1, n))[1] = g /\ (rbuf \o SubSeq(up, 1, n))[2] = EOL
        <5>1. up \in Seq(Symbols)
          BY <1>3
        <5>2. QED
          BY ONLY <5>1, <2>4, <3>1, <3>2, RequestRead
      <4>2. QED
        BY ONLY <3>3, <4>1
    <3>5. QED
      BY <3>1, <3>4 DEF all, left
  <2>6. /\ DOMAIN conns = ConnIds /\ DOMAIN conns' = ConnIds /\ conns'[c] = x
        /\ \A d \in ConnIds : d # c => conns'[d] = conns[d]
    BY <1>2, <1>5 DEF IInv, ServerTypes
  <2>7. Serves(fds, conns'[c], k)
    BY <1>2, <1>9, <2>6 DEF Serves
  <2>8. sock'[k].up = left /\ sock'[k].down = <<>> /\ sock'[k].closedUp = sock[k].closedUp
    BY <1>2, <1>10, <2>3 DEF Socks
  <2>9. CASE all = <<g>> /\ left = <<EOL>>
    <3>1. \A i \in 1 .. Len(full.rbuf) : full.rbuf[i] # EOL
      <4>1. Len(all) = 1 /\ all[1] = g /\ g # EOL
        BY <2>4, <2>9, ServerAssumption
      <4>2. QED
        BY <1>7, <4>1
    <3>2. read = [full EXCEPT !.state = "read"]
      BY <1>7, <3>1, NoCommand DEF read
    <3>3. x.state = "read" /\ x.rbuf = <<g>>
      BY <1>7, <1>9, <2>9, <3>2 DEF Conns
    <3>4. HalfRead(fds, conns', sock'[k], k, client[k].ngram)
      BY <1>2, <2>6, <2>7, <2>8, <2>9, <3>3 DEF HalfRead, g
    <3>5. QED
      BY <1>11, <2>3, <2>8, <3>4, StreamMoves
  <2>10. CASE Len(all) = 2 /\ left = <<>> /\ all[1] = g /\ all[2] = EOL
    <3>1. /\ read.state = "write" /\ read.rbuf = <<>>
          /\ read.wbuf = Score(g) /\ read.iovused = FALSE
      BY <1>7, <2>4, <2>10, OneCommand DEF read
    <3>2. Score(g) \in Scores
      BY <2>4 DEF Scores, Symbols
    <3>3. ToSend(read) = Rest(Score(g), 0)
      BY <3>1, <3>2, BytesTyped DEF ToSend
    <3>4. Sent(Score(g), 0) = <<>>
      <4>1. 0 \in 0 .. ReplySize
        BY DEF ReplySize
      <4>2. Sent(Score(g), 0) \in Seq(ReplyBytes) /\ Len(Sent(Score(g), 0)) = 0
        BY <3>2, <4>1, SentAndRest
      <4>3. QED
        BY <4>2, Nothing
    <3>5. 0 \in 0 .. ReplySize - 1
      BY DEF ReplySize
    <3>6. Replying(fds, conns', sock'[k], k, client[k].ngram)
      BY <1>2, <1>9, <2>6, <2>7, <2>8, <2>10, <3>1, <3>3, <3>4, <3>5 DEF Replying, g
    <3>7. QED
      BY <1>11, <2>3, <2>8, <3>6, StreamMoves
  <2>11. QED
    BY <2>5, <2>9, <2>10
<1> HIDE DEF x
<1>12. QED
  BY <1>1, <1>5, <1>9, <1>10, <1>11, DriveStep

------------------------------------------------------------------------------
(****************************************************************************)
(* Listening and events.                                                    *)
(****************************************************************************)
LEMMA RunKeepsDriven ==
  ASSUME ServerTypes, Driven, NEW t \in Threads, run[t] \notin ConnIds, NEW v,
         v \in ConnIds => conns[v].thread = t /\ conns[v].state # None,
         run' = [run EXCEPT ![t] = v], UNCHANGED <<settings, conns>>
  PROVE  Driven'
<1>0. Threads' = Threads /\ ConnIds' = ConnIds
  BY SameSets
<1>1. \A u \in Threads : run'[u] = IF u = t THEN v ELSE run[u]
  BY DEF ServerTypes
<1>2. \A c \in ConnIds : conns[c].state = "closed" => run'[conns[c].thread] = c
  BY <1>1 DEF Driven, None
<1>3. \A u \in Threads :
        run'[u] \in ConnIds => conns[run'[u]].thread = u /\ conns[run'[u]].state # None
  BY <1>1 DEF Driven
<1>4. QED
  BY <1>0, <1>2, <1>3 DEF Driven, InUse

\* A step that changes what a thread does.
LEMMA RunStep ==
  ASSUME IInv, NEW t \in Threads, run[t] \notin ConnIds,
         NEW v \in ConnIds \cup {Idle, Listener},
         v \in ConnIds => conns[v].thread = t /\ conns[v].state # None,
         run' = [run EXCEPT ![t] = v], accepting' \in BOOLEAN,
         UNCHANGED <<settings, alive, backlog, fds, queue, pipe, last_thread,
                     notify, conns, conn_structs, freeconns, sock, client>>
  PROVE  IInv'
<1>1. /\ ServerTypes /\ ClientTypes /\ Structures /\ Driven /\ Descriptors
      /\ ClientsApart /\ Streams /\ ScoresTrue
  BY DEF IInv
<1>2. Driven'
  BY <1>1, RunKeepsDriven
<1>3. Structures' /\ Descriptors' /\ ClientsApart' /\ Streams' /\ ScoresTrue'
  BY <1>1, OwnersFrame
<1>4. ServerTypes'
  <2>1. run' \in [Threads -> ConnIds \cup {Idle, Listener}]
    BY <1>1 DEF ServerTypes
  <2>2. Conns' = Conns /\ ConnIds' = ConnIds /\ Threads' = Threads /\ Fds' = Fds
    BY SameSets
  <2>3. QED
    BY <1>1, <2>1, <2>2 DEF ServerTypes
<1>5. ClientTypes'
  BY <1>1 DEF ClientTypes
<1>6. QED
  BY <1>2, <1>3, <1>4, <1>5 DEF IInv

LEMMA RunsNothing ==
  ASSUME IInv
  PROVE  0 \in Threads /\ Idle \notin ConnIds /\ Listener \notin ConnIds
<1>1. 0 \in Threads /\ ConnIds \subseteq Nat \ {0}
  BY SettingsTyped DEF IInv, ServerTypes
<1>2. QED
  BY <1>1 DEF Idle, Listener

LEMMA ListenEventKeeps ==
  ASSUME IInv, ListenEvent \/ AcceptNothing \/ AcceptTooMany, UNCHANGED client
  PROVE  IInv'
<1>1. /\ run[0] \in {Idle, Listener}
      /\ run' = [run EXCEPT ![0] = Listener] \/ run' = [run EXCEPT ![0] = Idle]
      /\ accepting' \in {accepting, FALSE}
      /\ UNCHANGED <<settings, alive, backlog, fds, queue, pipe, last_thread,
                     notify, conns, conn_structs, freeconns, sock, client>>
  BY DEF ListenEvent, AcceptNothing, AcceptTooMany, Listening
<1>2. accepting' \in BOOLEAN
  BY <1>1 DEF IInv, ServerTypes
<1>3. QED
  BY <1>1, <1>2, RunsNothing, RunStep

LEMMA EventHandlerKeeps ==
  ASSUME IInv, NEW t \in Threads, NEW c \in ConnIds, EventHandler(t, c), UNCHANGED client
  PROVE  IInv'
<1>1. /\ run[t] = Idle /\ conns[c].thread = t /\ run' = [run EXCEPT ![t] = c]
      /\ conns[c].event \in {"read", "write"}
      /\ UNCHANGED <<settings, alive, accepting, backlog, fds, queue, pipe, last_thread,
                     notify, conns, conn_structs, freeconns, sock, client>>
  BY DEF EventHandler
<1>2. conns[c].state # None
  <2>1. conns[c].event # None
    BY <1>1 DEF None
  <2>2. QED
    BY <2>1 DEF IInv, Driven, InUse
<1>3. accepting' \in BOOLEAN
  BY <1>1 DEF IInv, ServerTypes
<1>4. QED
  BY <1>1, <1>2, <1>3, RunsNothing, RunStep

LEMMA NotifyKeeps ==
  ASSUME IInv, Notify, UNCHANGED client
  PROVE  IInv'
<1>1. /\ ServerTypes /\ ClientTypes /\ Structures /\ Driven /\ Descriptors
      /\ ClientsApart /\ Streams /\ ScoresTrue
  BY DEF IInv
<1>2. /\ notify # NoThread /\ pipe' = [pipe EXCEPT ![notify] = @ + 1] /\ notify' = NoThread
      /\ UNCHANGED <<settings, alive, accepting, backlog, fds, queue, last_thread,
                     conns, conn_structs, freeconns, run, sock, faults, client>>
  BY DEF Notify
<1>3. Structures' /\ Driven' /\ Descriptors' /\ ClientsApart' /\ Streams' /\ ScoresTrue'
  BY <1>1, <1>2, OwnersFrame
<1>4. ServerTypes'
  <2>1. pipe' \in [Threads -> Nat]
    BY <1>1, <1>2 DEF ServerTypes
  <2>2. Conns' = Conns /\ ConnIds' = ConnIds /\ Threads' = Threads /\ Fds' = Fds
    BY <1>2, SameSets
  <2>3. QED
    BY <1>1, <1>2, <2>1, <2>2 DEF ServerTypes
<1>5. ClientTypes'
  BY <1>1, <1>2 DEF ClientTypes
<1>6. QED
  BY <1>3, <1>4, <1>5 DEF IInv

\* A sequence behind its head, and with something more at its end.
LEMMA AppendTail ==
  ASSUME NEW S, NEW s \in Seq(S)
  PROVE  /\ \A x \in S : /\ Append(s, x) \in Seq(S) /\ Len(Append(s, x)) = Len(s) + 1
                         /\ Append(s, x)[Len(s) + 1] = x
                         /\ \A i \in 1 .. Len(s) : Append(s, x)[i] = s[i]
         /\ s # <<>> => /\ Head(s) \in S /\ Head(s) = s[1] /\ Len(s) \in Nat \ {0}
                        /\ Tail(s) \in Seq(S) /\ Len(Tail(s)) = Len(s) - 1
                        /\ \A i \in 1 .. Len(s) - 1 : Tail(s)[i] = s[i + 1]
<1>1. ASSUME NEW x \in S
      PROVE  /\ Append(s, x) \in Seq(S) /\ Len(Append(s, x)) = Len(s) + 1
             /\ Append(s, x)[Len(s) + 1] = x
             /\ \A i \in 1 .. Len(s) : Append(s, x)[i] = s[i]
  BY AppendProperties
<1>2. ASSUME s # <<>>
      PROVE  /\ Head(s) \in S /\ Head(s) = s[1] /\ Len(s) \in Nat \ {0}
             /\ Tail(s) \in Seq(S) /\ Len(Tail(s)) = Len(s) - 1
             /\ \A i \in 1 .. Len(s) - 1 : Tail(s)[i] = s[i + 1]
  <2>1. Len(s) \in Nat \ {0}
    BY <1>2, EmptySeq
  <2>2. Head(s) = s[1] /\ s[1] \in S
    BY <1>2, <2>1, ElementOfSeq
  <2>3. QED
    BY <1>2, <2>1, <2>2, HeadTailProperties
<1>3. QED
  BY <1>1, <1>2

LEMMA AcceptKeeps ==
  ASSUME IInv, Accept, UNCHANGED client
  PROVE  IInv'
<1> DEFINE fd == Min(FreeFds)
           th == (last_thread + 1) % settings.threads
           k  == Head(backlog)
           q  == queue[th]
<1>1. /\ ServerTypes /\ ClientTypes /\ Structures /\ Driven /\ Descriptors
      /\ ClientsApart /\ Streams /\ ScoresTrue
  BY DEF IInv
<1>2. /\ backlog # <<>> /\ FreeFds # {}
      /\ fds' = [fds EXCEPT ![fd] = k] /\ backlog' = Tail(backlog)
      /\ queue' = [queue EXCEPT ![th] = Append(q, fd)]
      /\ last_thread' = th /\ notify' = th
      /\ UNCHANGED <<settings, alive, accepting, pipe, conns, conn_structs, freeconns,
                     run, sock, faults, client>>
  BY DEF Accept
<1>3. Threads' = Threads /\ Fds' = Fds /\ ConnIds' = ConnIds /\ Conns' = Conns
  BY <1>2, SameSets
<1>4. fd \in Fds /\ fds[fd] = None
  <2>1. FreeFds \subseteq Nat
    BY <1>1, SettingsTyped DEF FreeFds, ServerTypes
  <2>2. fd \in FreeFds
    BY <1>2, <2>1, LeastOf
  <2>3. QED
    BY <2>2 DEF FreeFds
<1>5. th \in Threads
  <2>1. settings.threads \in Nat /\ settings.threads > 0
    BY <1>1, SettingsTyped DEF ServerTypes
  <2>2. last_thread + 1 \in Nat
    BY <1>1, <2>1 DEF ServerTypes, Threads, NoThread
  <2>3. QED
    BY <2>1, <2>2 DEF Threads
<1>6. /\ k \in Clients /\ k = backlog[1] /\ Len(backlog) \in Nat \ {0} /\ k # None
      /\ backlog' \in Seq(Clients) /\ Len(backlog') = Len(backlog) - 1
      /\ \A i \in 1 .. Len(backlog) - 1 : backlog'[i] = backlog[i + 1]
  BY <1>1, <1>2, AppendTail, ServerAssumption DEF ServerTypes
<1>7. q \in Seq(Fds) /\ Len(q) \in Nat
  BY <1>1, <1>5, LenProperties DEF ServerTypes
<1>8. /\ Append(q, fd) \in Seq(Fds) /\ Len(Append(q, fd)) = Len(q) + 1
      /\ Append(q, fd)[Len(q) + 1] = fd
      /\ \A i \in 1 .. Len(q) : Append(q, fd)[i] = q[i]
  <2> HIDE DEF fd, q
  <2>1. QED
    BY <1>4, <1>7, AppendTail
<1> HIDE DEF fd, th, k
<1>9. /\ queue' \in [Threads -> Seq(Fds)]
      /\ \A t \in Threads : t # th => queue'[t] = queue[t]
      /\ queue'[th] = Append(q, fd)
  BY <1>1, <1>2, <1>5, <1>8 DEF ServerTypes
<1>10. /\ fds' \in [Fds -> Clients \cup {None}] /\ fds'[fd] = k
       /\ \A f \in Fds : f # fd => fds'[f] = fds[f]
  BY <1>1, <1>2, <1>4, <1>6 DEF ServerTypes
<1>11. \A t \in Threads : \A i \in 1 .. Len(queue'[t]) :
         \/ i \in 1 .. Len(queue[t]) /\ queue'[t][i] = queue[t][i]
         \/ t = th /\ i = Len(q) + 1 /\ queue'[t][i] = fd
  <2> HIDE DEF q
  <2>1. SUFFICES ASSUME NEW t \in Threads, NEW i \in 1 .. Len(queue'[t])
                 PROVE  \/ i \in 1 .. Len(queue[t]) /\ queue'[t][i] = queue[t][i]
                        \/ t = th /\ i = Len(q) + 1 /\ queue'[t][i] = fd
    OBVIOUS
  <2>2. CASE t # th
    BY <1>9, <2>2
  <2>3. CASE t = th
    <3>1. Len(queue'[t]) = Len(q) + 1 /\ queue[t] = q
      BY <1>8, <1>9, <2>3 DEF q
    <3>2. i \in 1 .. Len(q) \/ i = Len(q) + 1
      BY <1>7, <3>1
    <3>3. QED
      BY <1>8, <1>9, <2>3, <3>1, <3>2
  <2>4. QED
    BY <2>2, <2>3
<1>12. ServerTypes'
  BY <1>1, <1>2, <1>3, <1>5, <1>6, <1>9, <1>10 DEF ServerTypes
<1>13. ClientTypes' /\ Structures' /\ Driven' /\ ScoresTrue'
  <2>1. ClientTypes'
    BY <1>1, <1>2 DEF ClientTypes
  <2>2. QED
    BY <1>1, <1>2, <2>1, OwnersFrame
<1>14. \A t \in Threads : \A i \in 1 .. Len(queue[t]) : queue[t][i] \in Fds /\ queue[t][i] # fd
  <2>1. \A t \in Threads : \A i \in 1 .. Len(queue[t]) : queue[t][i] \in Fds
    BY <1>1, ElementOfSeq DEF ServerTypes
  <2>2. QED
    BY <1>1, <1>4, <2>1 DEF Descriptors
<1>15. \A c \in ConnIds : InUse(conns[c]) => conns[c].fd \in Fds /\ conns[c].fd # fd
  BY <1>1, <1>4 DEF Descriptors
<1>16. Descriptors'
  <2>1. /\ \A c \in ConnIds : InUse(conns[c]) => conns[c].fd \in Fds /\ fds'[conns[c].fd] # None
        /\ \A c, d \in ConnIds :
             InUse(conns[c]) /\ InUse(conns[d]) /\ conns[c].fd = conns[d].fd => c = d
    BY <1>1, <1>10, <1>15 DEF Descriptors
  <2>2. \A t \in Threads : \A i \in 1 .. Len(queue'[t]) :
          /\ fds'[queue'[t][i]] # None
          /\ \A c \in ConnIds : InUse(conns[c]) => conns[c].fd # queue'[t][i]
    <3>1. SUFFICES ASSUME NEW t \in Threads, NEW i \in 1 .. Len(queue'[t])
                   PROVE  /\ fds'[queue'[t][i]] # None
                          /\ \A c \in ConnIds : InUse(conns[c]) => conns[c].fd # queue'[t][i]
      OBVIOUS
    <3>2. CASE i \in 1 .. Len(queue[t]) /\ queue'[t][i] = queue[t][i]
      <4>1. /\ queue[t][i] \in Fds /\ queue[t][i] # fd
            /\ fds[queue[t][i]] # None
            /\ \A c \in ConnIds : InUse(conns[c]) => conns[c].fd # queue[t][i]
        BY <1>1, <1>14, <3>2 DEF Descriptors
      <4>2. QED
        BY <1>10, <3>2, <4>1
    <3>3. CASE queue'[t][i] = fd
      BY <1>6, <1>10, <1>15, <3>3
    <3>4. QED
      BY <1>11, <3>2, <3>3
  <2>3. \A t, u \in Threads : \A i \in 1 .. Len(queue'[t]), j \in 1 .. Len(queue'[u]) :
          queue'[t][i] = queue'[u][j] => t = u /\ i = j
    <3>1. SUFFICES ASSUME NEW t \in Threads, NEW u \in Threads,
                          NEW i \in 1 .. Len(queue'[t]), NEW j \in 1 .. Len(queue'[u]),
                          queue'[t][i] = queue'[u][j]
                   PROVE  t = u /\ i = j
      OBVIOUS
    <3>2. /\ \/ i \in 1 .. Len(queue[t]) /\ queue'[t][i] = queue[t][i]
             \/ t = th /\ i = Len(q) + 1 /\ queue'[t][i] = fd
          /\ \/ j \in 1 .. Len(queue[u]) /\ queue'[u][j] = queue[u][j]
             \/ u = th /\ j = Len(q) + 1 /\ queue'[u][j] = fd
      BY <1>11
    <3>3. i \in 1 .. Len(queue[t]) => queue[t][i] # fd
      BY <1>14
    <3>4. j \in 1 .. Len(queue[u]) => queue[u][j] # fd
      BY <1>14
    <3>5. i \in 1 .. Len(queue[t]) /\ j \in 1 .. Len(queue[u]) /\ queue[t][i] = queue[u][j]
            => t = u /\ i = j
      BY <1>1 DEF Descriptors
    <3> HIDE DEF q
    <3>6. QED
      BY <3>1, <3>2, <3>3, <3>4, <3>5
  <2>4. ASSUME NEW f \in Fds, fds'[f] # None
        PROVE  \/ \E c \in ConnIds : InUse(conns[c]) /\ conns[c].fd = f
               \/ \E t \in Threads : \E i \in 1 .. Len(queue'[t]) : queue'[t][i] = f
    <3>1. CASE f = fd
      <4>1. Len(q) + 1 \in 1 .. Len(queue'[th]) /\ queue'[th][Len(q) + 1] = fd
        BY <1>7, <1>8, <1>9
      <4>2. QED
        BY <1>5, <3>1, <4>1
    <3>2. CASE f # fd
      <4>1. \A t \in Threads : \A i \in 1 .. Len(queue[t]) :
              i \in 1 .. Len(queue'[t]) /\ queue'[t][i] = queue[t][i]
        BY <1>7, <1>8, <1>9
      <4>2. fds[f] # None
        BY <1>10, <2>4, <3>2
      <4>3. CASE \E c \in ConnIds : InUse(conns[c]) /\ conns[c].fd = f
        BY <4>3
      <4>4. CASE \E t \in Threads : \E i \in 1 .. Len(queue[t]) : queue[t][i] = f
        BY <4>1, <4>4
      <4>5. QED
        BY <1>1, <4>2, <4>3, <4>4 DEF Descriptors
    <3>3. QED
      BY <3>1, <3>2
  <2>5. QED
    BY <1>2, <1>3, <2>1, <2>2, <2>3, <2>4 DEF Descriptors
<1>17. ClientsApart'
  <2>1. \A f \in Fds : fds[f] # k
    BY <1>1, <1>6 DEF ClientsApart
  <2>2. \A f, g \in Fds : fds'[f] = fds'[g] /\ fds'[f] # None => f = g
    BY <1>1, <1>10, <2>1 DEF ClientsApart
  <2>3. ASSUME NEW i \in 1 .. Len(backlog')
        PROVE  /\ i + 1 \in 1 .. Len(backlog) /\ i + 1 # 1 /\ backlog'[i] = backlog[i + 1]
               /\ i \in Nat
    BY <1>6
  <2>4. \A i, j \in 1 .. Len(backlog') : backlog'[i] = backlog'[j] => i = j
    <3>1. SUFFICES ASSUME NEW i \in 1 .. Len(backlog'), NEW j \in 1 .. Len(backlog'),
                          backlog'[i] = backlog'[j]
                   PROVE  i = j
      OBVIOUS
    <3>2. i + 1 = j + 1
      BY <1>1, <2>3, <3>1 DEF ClientsApart
    <3>3. QED
      BY <2>3, <3>2
  <2>5. \A i \in 1 .. Len(backlog') : backlog'[i] # k
    <3>1. 1 \in 1 .. Len(backlog)
      BY <1>6
    <3>2. QED
      BY <1>1, <1>6, <2>3, <3>1 DEF ClientsApart
  <2>6. \A i \in 1 .. Len(backlog'), f \in Fds : fds'[f] # backlog'[i]
    BY <1>1, <1>10, <2>3, <2>5 DEF ClientsApart
  <2>7. client[k].pc # "start"
    <3>1. 1 \in 1 .. Len(backlog)
      BY <1>6
    <3>2. QED
      BY <1>1, <1>6, <3>1 DEF ClientsApart
  <2>8. ASSUME NEW j \in Clients, client[j].pc = "start"
        PROVE  (\A f \in Fds : fds'[f] # j) /\ (\A i \in 1 .. Len(backlog') : backlog'[i] # j)
    <3>1. j # k
      BY <2>7, <2>8
    <3>2. QED
      BY <1>1, <1>10, <2>3, <2>8, <3>1 DEF ClientsApart
  <2>9. QED
    BY <1>2, <1>3, <2>2, <2>4, <2>6, <2>8 DEF ClientsApart
<1>18. Streams'
  <2>1. ASSUME NEW j \in Clients, Relies(client[j])
        PROVE  Stream(fds', conns, sock[j], j, client[j])
    <3>1. Stream(fds, conns, sock[j], j, client[j])
      BY <1>1, <2>1 DEF Streams
    <3>2. \A c \in DOMAIN conns : Serves(fds', conns[c], j) <=> Serves(fds, conns[c], j)
      <4>1. DOMAIN conns = ConnIds
        BY <1>1 DEF ServerTypes
      <4>2. QED
        BY <1>10, <1>15, <4>1 DEF Serves
    <3>3. PICK D2 : D2 = fds'
      OBVIOUS
    <3>4. \A c \in DOMAIN conns :
            /\ Serves(fds, conns[c], j) => Serves(D2, conns[c], j) /\ Alike(conns[c], conns[c])
            /\ Serves(D2, conns[c], j) => Serves(fds, conns[c], j) /\ Alike(conns[c], conns[c])
      BY <3>2, <3>3 DEF Alike
    <3>5. Stream(D2, conns, sock[j], j, client[j])
      BY <3>1, <3>4, StreamKept
    <3>6. QED
      BY <3>3, <3>5
  <2>2. QED
    BY <1>1, <1>2, <2>1 DEF Streams
<1>19. QED
  BY <1>12, <1>13, <1>16, <1>17, <1>18 DEF IInv

------------------------------------------------------------------------------
(****************************************************************************)
(* Structures are taken, closed and freed.                                  *)
(****************************************************************************)

\* There is always a structure for a descriptor in a queue: those in use have
\* other descriptors, and each thread has at most one that is closed and not
\* yet free.
LEMMA RoomForOne ==
  ASSUME ServerTypes, Structures, Driven, Descriptors,
         NEW t \in Threads, queue[t] # <<>>, freeconns = <<>>
  PROVE  conn_structs + 1 \in ConnIds
<1> DEFINE Used   == {c \in ConnIds : InUse(conns[c])}
           Closed == {c \in ConnIds : conns[c].state = "closed"}
           fd     == queue[t][1]
           made   == 1 .. conn_structs
           Others == Fds \ {fd}
           n      == settings.threads
           m      == settings.maxfds
<1>1. /\ n \in Nat /\ n > 0 /\ m \in Nat /\ m > 0
      /\ IsFiniteSet(Threads) /\ Cardinality(Threads) = n
      /\ IsFiniteSet(Fds) /\ Cardinality(Fds) = m /\ IsFiniteSet(ConnIds)
  BY SettingsTyped DEF ServerTypes
<1>2. conn_structs \in Nat /\ conn_structs <= m + n
  BY <1>1 DEF ServerTypes
<1>3. queue[t] \in Seq(Fds) /\ 1 \in 1 .. Len(queue[t]) /\ fd \in Fds
  <2>1. queue[t] \in Seq(Fds)
    BY DEF ServerTypes
  <2>2. Len(queue[t]) \in Nat \ {0}
    BY <2>1, EmptySeq
  <2>3. QED
    BY <2>1, <2>2, ElementOfSeq
<1>4. IsFiniteSet(Others) /\ Cardinality(Others) = m - 1
  <2> HIDE DEF fd, m
  <2>1. QED
    BY <1>1, <1>3, FS_RemoveElement
<1>5. IsFiniteSet(Used) /\ Cardinality(Used) <= m - 1
  <2> DEFINE g == [c \in Used |-> conns[c].fd]
  <2>1. \A c \in Used : conns[c].fd \in Others
    BY <1>3 DEF Descriptors
  <2>2. \A c, d \in Used : conns[c].fd = conns[d].fd => c = d
    BY DEF Descriptors
  <2> HIDE DEF Used, Others
  <2>3. g \in Injection(Used, Others)
    BY <2>1, <2>2 DEF Injection, IsInjective
  <2> HIDE DEF g
  <2>4. IsFiniteSet(Used) /\ Cardinality(Used) <= Cardinality(Others)
    BY <1>4, <2>3, FS_Injection
  <2>5. QED
    BY <1>4, <2>4
<1>6. IsFiniteSet(Closed) /\ Cardinality(Closed) <= n
  <2> DEFINE g == [c \in Closed |-> conns[c].thread]
  <2>1. \A c \in Closed : conns[c].thread \in Threads /\ run[conns[c].thread] = c
    BY DEF Driven, None
  <2> HIDE DEF Closed
  <2>2. g \in Injection(Closed, Threads)
    BY <2>1 DEF Injection, IsInjective
  <2> HIDE DEF g
  <2>3. IsFiniteSet(Closed) /\ Cardinality(Closed) <= Cardinality(Threads)
    BY <1>1, <2>2, FS_Injection
  <2>4. QED
    BY <1>1, <2>3
<1>7. made \subseteq Used \cup Closed
  <2>1. made \subseteq ConnIds
    BY <1>1, <1>2 DEF ConnIds
  <2>2. \A c \in made : conns[c].state # None
    BY DEF Structures
  <2>3. QED
    BY <2>1, <2>2 DEF InUse
<1>8. IsFiniteSet(made) /\ Cardinality(made) = conn_structs
  <2>1. 1 \in Int /\ conn_structs \in Int
    BY <1>2
  <2>2. /\ IsFiniteSet(made)
        /\ Cardinality(made) = IF 1 > conn_structs THEN 0 ELSE conn_structs - 1 + 1
    BY <2>1, FS_Interval
  <2>3. QED
    BY <1>2, <2>2
<1> HIDE DEF Used, Closed, made
<1>9. /\ IsFiniteSet(Used \cup Closed)
      /\ Cardinality(Used \cup Closed) <= Cardinality(Used) + Cardinality(Closed)
  <2>1. /\ IsFiniteSet(Used \cup Closed) /\ IsFiniteSet(Used \cap Closed)
        /\ Cardinality(Used \cup Closed)
             = Cardinality(Used) + Cardinality(Closed) - Cardinality(Used \cap Closed)
    BY <1>5, <1>6, FS_Union, FS_Intersection
  <2>2. /\ Cardinality(Used) \in Nat /\ Cardinality(Closed) \in Nat
        /\ Cardinality(Used \cap Closed) \in Nat
    BY <1>5, <1>6, <2>1, FS_CardinalityType
  <2>3. QED
    BY <2>1, <2>2
<1>10. Cardinality(made) <= Cardinality(Used \cup Closed)
  BY <1>7, <1>9, FS_Subset
<1>11. conn_structs <= (m - 1) + n
  <2>1. /\ Cardinality(Used) \in Nat /\ Cardinality(Closed) \in Nat
        /\ Cardinality(Used \cup Closed) \in Nat
    BY <1>5, <1>6, <1>9, FS_CardinalityType
  <2> HIDE DEF n, m
  <2>2. QED
    BY <1>1, <1>2, <1>5, <1>6, <1>8, <1>9, <1>10, <2>1
<1>12. QED
  BY <1>1, <1>2, <1>11 DEF ConnIds

\* The structure that a new connection gets, and the free list without it.
LEMMA TakenStructure ==
  ASSUME ServerTypes, Structures, Driven, Descriptors,
         NEW t \in Threads, queue[t] # <<>>,
         NEW c, NEW free, NEW made,
         c = IF freeconns # <<>> THEN Last(freeconns) ELSE conn_structs + 1,
         free = IF freeconns # <<>> THEN Front(freeconns) ELSE freeconns,
         made = IF freeconns # <<>> THEN conn_structs ELSE conn_structs + 1
  PROVE  /\ c \in ConnIds /\ conns[c].state = None /\ c <= made
         /\ free \in Seq(ConnIds) /\ made \in 0 .. settings.maxfds + settings.threads
         /\ Len(free) \in Nat /\ Len(free) <= Len(freeconns)
         /\ \A i \in 1 .. Len(free) :
              i \in 1 .. Len(freeconns) /\ free[i] = freeconns[i] /\ free[i] # c
         /\ \A i \in 1 .. Len(freeconns) : freeconns[i] = c \/ i \in 1 .. Len(free)
         /\ conn_structs <= made /\ \A d \in 1 .. made : d = c \/ d \in 1 .. conn_structs
<1>1. /\ settings.threads \in Nat /\ settings.maxfds \in Nat
      /\ conn_structs \in Nat /\ conn_structs <= settings.maxfds + settings.threads
      /\ freeconns \in Seq(ConnIds) /\ Len(freeconns) \in Nat
  BY SettingsTyped, LenProperties DEF ServerTypes
<1>2. CASE freeconns = <<>>
  <2>1. c = conn_structs + 1 /\ free = freeconns /\ made = conn_structs + 1
    BY <1>2
  <2>2. c \in ConnIds
    BY <1>2, <2>1, RoomForOne
  <2>3. conns[c].state = None
    BY <1>1, <2>1, <2>2 DEF Structures
  <2>4. made \in 0 .. settings.maxfds + settings.threads
    BY <1>1, <2>1, <2>2 DEF ConnIds
  <2>5. Len(freeconns) = 0
    BY <1>2
  <2>6. QED
    BY <1>1, <2>1, <2>2, <2>3, <2>4, <2>5
<1>3. CASE freeconns # <<>>
  <2> DEFINE n == Len(freeconns)
  <2>1. n \in Nat \ {0}
    BY <1>1, <1>3, EmptySeq
  <2>2. c = freeconns[n] /\ free = SubSeq(freeconns, 1, n - 1) /\ made = conn_structs
    BY <1>3 DEF Last, Front
  <2>3. n \in 1 .. n /\ n - 1 \in 0 .. n
    BY <2>1
  <2> HIDE DEF n
  <2>4. c \in ConnIds
    BY <1>1, <2>2, <2>3, ElementOfSeq DEF n
  <2>5. conns[c].state = None /\ c <= conn_structs
    BY <2>2, <2>3 DEF Structures, n
  <2>6. free \in Seq(ConnIds) /\ Len(free) = n - 1 /\ \A i \in 1 .. n - 1 : free[i] = freeconns[i]
    <3>1. PICK k \in 0 .. Len(freeconns) : k = n - 1
      BY <2>3 DEF n
    <3>2. /\ SubSeq(freeconns, 1, k) \in Seq(ConnIds) /\ Len(SubSeq(freeconns, 1, k)) = k
          /\ \A i \in 1 .. k : SubSeq(freeconns, 1, k)[i] = freeconns[i]
      BY <1>1, AfterTyped
    <3>3. QED
      BY <2>2, <3>1, <3>2
  <2>7. \A i \in 1 .. n - 1 : i \in 1 .. n /\ i # n
    BY <2>1
  <2>8. \A i \in 1 .. n - 1 : freeconns[i] # c
    BY <2>2, <2>3, <2>7 DEF Structures, n
  <2>9. \A i \in 1 .. n : i = n \/ i \in 1 .. n - 1
    BY <2>1
  <2>10. made \in 0 .. settings.maxfds + settings.threads
    BY <1>1, <2>2
  <2>11. /\ Len(free) \in Nat /\ Len(free) <= Len(freeconns)
         /\ \A i \in 1 .. Len(free) :
              i \in 1 .. Len(freeconns) /\ free[i] = freeconns[i] /\ free[i] # c
    BY <2>1, <2>6, <2>7, <2>8 DEF n
  <2>12. \A i \in 1 .. Len(freeconns) : freeconns[i] = c \/ i \in 1 .. Len(free)
    BY <2>2, <2>6, <2>9 DEF n
  <2>13. conn_structs <= made /\ \A d \in 1 .. made : d = c \/ d \in 1 .. conn_structs
    BY <1>1, <2>2
  <2>14. QED
    BY <2>2, <2>4, <2>5, <2>6, <2>10, <2>11, <2>12, <2>13
<1>4. QED
  BY <1>2, <1>3

LEMMA NewConnEventKeeps ==
  ASSUME IInv, NEW t \in Threads, NewConnEvent(t), UNCHANGED client
  PROVE  IInv'
<1>1. /\ ServerTypes /\ ClientTypes /\ Structures /\ Driven /\ Descriptors
      /\ ClientsApart /\ Streams /\ ScoresTrue
  BY DEF IInv
<1>2. /\ run[t] = Idle /\ pipe[t] > 0 /\ pipe' = [pipe EXCEPT ![t] = @ - 1]
      /\ UNCHANGED <<settings, alive, accepting, backlog, fds, last_thread, notify,
                     run, sock, faults, client>>
  BY DEF NewConnEvent
<1>3. Threads' = Threads /\ Fds' = Fds /\ ConnIds' = ConnIds /\ Conns' = Conns
  BY <1>2, SameSets
<1>4. pipe' \in [Threads -> Nat]
  BY <1>1, <1>2 DEF ServerTypes
<1>5. ClientTypes' /\ ClientsApart' /\ ScoresTrue'
  <2>1. ClientTypes'
    BY <1>1, <1>2 DEF ClientTypes
  <2>2. QED
    BY <1>1, <1>2, <2>1, OwnersFrame
<1>6. CASE queue[t] = <<>>
  <2>1. UNCHANGED <<queue, conns, conn_structs, freeconns>>
    BY <1>6 DEF NewConnEvent
  <2>2. ServerTypes'
    BY <1>1, <1>2, <1>3, <1>4, <2>1 DEF ServerTypes
  <2>3. Structures' /\ Driven' /\ Descriptors' /\ Streams'
    BY <1>1, <1>2, <2>1, OwnersFrame
  <2>4. QED
    BY <1>5, <2>2, <2>3 DEF IInv
<1>7. CASE queue[t] # <<>>
  <2> DEFINE cc == IF freeconns # <<>> THEN Last(freeconns) ELSE conn_structs + 1
             q  == queue[t]
             fd == Head(q)
  <2>1. /\ queue' = [queue EXCEPT ![t] = Tail(q)]
        /\ conns' = [conns EXCEPT ![cc] = Reset(conns[cc], fd, t)]
        /\ freeconns' = IF freeconns # <<>> THEN Front(freeconns) ELSE freeconns
        /\ conn_structs' = IF freeconns # <<>> THEN conn_structs ELSE conn_structs + 1
    <3>1. queue' = [queue EXCEPT ![t] = Tail(q)]
      BY <1>7 DEF NewConnEvent
    <3>2. conns' = [conns EXCEPT ![cc] = Reset(conns[cc], fd, t)]
      BY <1>7 DEF NewConnEvent
    <3>3. freeconns' = IF freeconns # <<>> THEN Front(freeconns) ELSE freeconns
      BY <1>7 DEF NewConnEvent
    <3>4. conn_structs' = IF freeconns # <<>> THEN conn_structs ELSE conn_structs + 1
      BY <1>7 DEF NewConnEvent
    <3>5. QED
      BY <3>1, <3>2, <3>3, <3>4
  <2>2. PICK c, free, made : c = cc /\ free = freeconns' /\ made = conn_structs'
    OBVIOUS
  <2>3. /\ c = IF freeconns # <<>> THEN Last(freeconns) ELSE conn_structs + 1
        /\ free = IF freeconns # <<>> THEN Front(freeconns) ELSE freeconns
        /\ made = IF freeconns # <<>> THEN conn_structs ELSE conn_structs + 1
    BY <2>1, <2>2
  <2>4. /\ c \in ConnIds /\ conns[c].state = None /\ c <= made
        /\ free \in Seq(ConnIds) /\ made \in 0 .. settings.maxfds + settings.threads
        /\ Len(free) \in Nat /\ Len(free) <= Len(freeconns)
        /\ \A i \in 1 .. Len(free) :
             i \in 1 .. Len(freeconns) /\ free[i] = freeconns[i] /\ free[i] # c
        /\ \A i \in 1 .. Len(freeconns) : freeconns[i] = c \/ i \in 1 .. Len(free)
        /\ conn_structs <= made /\ \A d \in 1 .. made : d = c \/ d \in 1 .. conn_structs
    BY <1>1, <1>7, <2>3, TakenStructure
  <2> HIDE DEF cc
  <2>5. /\ q \in Seq(Fds) /\ fd \in Fds /\ fd = q[1] /\ Len(q) \in Nat \ {0}
        /\ Tail(q) \in Seq(Fds) /\ Len(Tail(q)) = Len(q) - 1
        /\ \A i \in 1 .. Len(q) - 1 : Tail(q)[i] = q[i + 1]
    BY <1>1, <1>7, AppendTail DEF ServerTypes
  <2> HIDE DEF fd
  <2>6. /\ Reset(conns[c], fd, t) \in Conns
        /\ Reset(conns[c], fd, t).fd = fd /\ Reset(conns[c], fd, t).thread = t
        /\ Reset(conns[c], fd, t).state = "read" /\ Reset(conns[c], fd, t).event = "read"
        /\ Reset(conns[c], fd, t).rbuf = <<>>
    <3>1. conns[c] \in Conns
      BY <1>1, <2>4 DEF ServerTypes
    <3>2. QED
      BY <2>5, <3>1, ResetTyped
  <2>7. /\ conns' \in [ConnIds -> Conns]
        /\ conns'[c].fd = fd /\ conns'[c].thread = t
        /\ conns'[c].state = "read" /\ conns'[c].event = "read" /\ conns'[c].rbuf = <<>>
        /\ InUse(conns'[c]) /\ ~InUse(conns[c])
        /\ \A d \in ConnIds : d # c => conns'[d] = conns[d]
    BY <1>1, <2>1, <2>2, <2>4, <2>6 DEF ServerTypes, InUse, None
  <2>8. /\ queue' \in [Threads -> Seq(Fds)] /\ queue'[t] = Tail(q)
        /\ \A u \in Threads : u # t => queue'[u] = queue[u]
    BY <1>1, <2>1, <2>5 DEF ServerTypes
  <2>9. ServerTypes'
    BY <1>1, <1>2, <1>3, <1>4, <2>2, <2>4, <2>7, <2>8 DEF ServerTypes
  <2>10. Structures'
    <3>1. \A d \in ConnIds : conns'[d].state # None => d <= made
      <4>1. \A d \in ConnIds : conns[d].state # None => d <= conn_structs
        BY <1>1 DEF Structures
      <4>2. conn_structs \in Nat /\ made \in Nat /\ ConnIds \subseteq Nat
        BY <1>1, <2>4, SettingsTyped DEF ServerTypes
      <4>3. QED
        BY <2>4, <2>7, <4>1, <4>2
    <3>2. \A i, j \in 1 .. Len(free) : free[i] = free[j] => i = j
      BY <1>1, <2>4 DEF Structures
    <3>3. \A i \in 1 .. Len(free) : free[i] <= made /\ conns'[free[i]].state = None
      <4>1. SUFFICES ASSUME NEW i \in 1 .. Len(free)
                     PROVE  free[i] <= made /\ conns'[free[i]].state = None
        OBVIOUS
      <4>2. free[i] \in ConnIds
        BY <2>4, ElementOfSeq
      <4>3. free[i] <= conn_structs /\ conns[free[i]].state = None /\ free[i] # c
        BY <1>1, <2>4 DEF Structures
      <4>4. conn_structs \in Nat /\ made \in Nat /\ ConnIds \subseteq Nat
        BY <1>1, <2>4, SettingsTyped DEF ServerTypes
      <4>5. QED
        BY <2>4, <2>7, <4>2, <4>3, <4>4
    <3>4. ASSUME NEW d \in 1 .. made, conns'[d].state = None
          PROVE  \E i \in 1 .. Len(free) : free[i] = d
      <4>1. d # c /\ d \in 1 .. conn_structs /\ d \in ConnIds
        <5>1. settings.threads \in Nat /\ settings.maxfds \in Nat
          BY <1>1, SettingsTyped DEF ServerTypes
        <5>2. d # c
          BY <2>7, <3>4 DEF None
        <5>3. QED
          BY <2>4, <5>1, <5>2 DEF ConnIds
      <4>2. PICK i \in 1 .. Len(freeconns) : freeconns[i] = d
        BY <1>1, <2>7, <3>4, <4>1 DEF Structures
      <4>3. i \in 1 .. Len(free)
        BY <2>4, <4>1, <4>2
      <4>4. QED
        BY <2>4, <4>2, <4>3
    <3>5. QED
      BY <1>3, <2>2, <3>1, <3>2, <3>3, <3>4 DEF Structures
  <2>11. Driven'
    <3>1. \A d \in ConnIds : conns'[d].state # None => conns'[d].thread \in Threads
      BY <1>1, <2>7 DEF Driven
    <3>2. \A d \in ConnIds : ~InUse(conns'[d]) => conns'[d].event = None
      BY <1>1, <2>7 DEF Driven
    <3>3. \A d \in ConnIds : conns'[d].state = "closed" => run[conns'[d].thread] = d
      BY <1>1, <2>7 DEF Driven
    <3>4. \A u \in Threads :
            run[u] \in ConnIds => conns'[run[u]].thread = u /\ conns'[run[u]].state # None
      <4>1. \A u \in Threads : run[u] \in ConnIds => run[u] # c
        BY <1>1, <2>4 DEF Driven
      <4>2. QED
        BY <1>1, <2>7, <4>1 DEF Driven
    <3>5. QED
      BY <1>2, <1>3, <3>1, <3>2, <3>3, <3>4 DEF Driven, InUse
  <2>12. 1 \in 1 .. Len(q) /\ q = queue[t]
    BY <2>5
  <2>13. \A u \in Threads : \A i \in 1 .. Len(queue'[u]) :
           \E j \in 1 .. Len(queue[u]) :
             /\ queue'[u][i] = queue[u][j] /\ j = (IF u = t THEN i + 1 ELSE i)
             /\ u = t => j # 1
    <3>1. SUFFICES ASSUME NEW u \in Threads, NEW i \in 1 .. Len(queue'[u])
                   PROVE  \E j \in 1 .. Len(queue[u]) :
                            /\ queue'[u][i] = queue[u][j] /\ j = (IF u = t THEN i + 1 ELSE i)
                            /\ u = t => j # 1
      OBVIOUS
    <3>2. CASE u # t
      BY <2>8, <3>2
    <3>3. CASE u = t
      <4>1. /\ i \in 1 .. Len(q) - 1 /\ i + 1 \in 1 .. Len(q) /\ i + 1 # 1
            /\ queue'[t][i] = q[i + 1]
        BY <2>5, <2>8, <3>3
      <4>2. QED
        BY <3>3, <4>1
    <3>4. QED
      BY <3>2, <3>3
  <2> HIDE DEF q
  <2>14. Descriptors'
    <3>1. /\ fds[fd] # None
          /\ \A d \in ConnIds : InUse(conns[d]) => conns[d].fd # fd
      BY <1>1, <2>5, <2>12 DEF Descriptors
    <3>2. \A d \in ConnIds : InUse(conns'[d]) => conns'[d].fd \in Fds /\ fds[conns'[d].fd] # None
      BY <1>1, <2>5, <2>7, <3>1 DEF Descriptors
    <3>3. \A d, e \in ConnIds :
            InUse(conns'[d]) /\ InUse(conns'[e]) /\ conns'[d].fd = conns'[e].fd => d = e
      BY <1>1, <2>7, <3>1 DEF Descriptors
    <3>4. ASSUME NEW u \in Threads, NEW i \in 1 .. Len(queue'[u])
          PROVE  /\ fds[queue'[u][i]] # None
                 /\ \A d \in ConnIds : InUse(conns'[d]) => conns'[d].fd # queue'[u][i]
      <4>1. PICK j \in 1 .. Len(queue[u]) : queue'[u][i] = queue[u][j] /\ (u = t => j # 1)
        BY <2>13
      <4>2. /\ fds[queue[u][j]] # None
            /\ \A d \in ConnIds : InUse(conns[d]) => conns[d].fd # queue[u][j]
        BY <1>1, <4>1 DEF Descriptors
      <4>3. queue[u][j] # fd
        BY <1>1, <2>5, <2>12, <4>1 DEF Descriptors
      <4>4. QED
        BY <2>7, <4>1, <4>2, <4>3
    <3>5. ASSUME NEW u \in Threads, NEW v \in Threads,
                 NEW i \in 1 .. Len(queue'[u]), NEW j \in 1 .. Len(queue'[v]),
                 queue'[u][i] = queue'[v][j]
          PROVE  u = v /\ i = j
      <4>1. PICK i2 \in 1 .. Len(queue[u]) :
              queue'[u][i] = queue[u][i2] /\ i2 = (IF u = t THEN i + 1 ELSE i)
        BY <2>13
      <4>2. PICK j2 \in 1 .. Len(queue[v]) :
              queue'[v][j] = queue[v][j2] /\ j2 = (IF v = t THEN j + 1 ELSE j)
        BY <2>13
      <4>3. u = v /\ i2 = j2
        <5>1. queue[u][i2] = queue[v][j2]
          BY <3>5, <4>1, <4>2
        <5>2. i2 \in 1 .. Len(queue[u]) /\ j2 \in 1 .. Len(queue[v])
          BY <4>1, <4>2
        <5>3. QED
          BY <1>1, <5>1, <5>2 DEF Descriptors
      <4>4. i \in Int /\ j \in Int
        OBVIOUS
      <4>5. QED
        BY <4>1, <4>2, <4>3, <4>4
    <3>6. ASSUME NEW f \in Fds, fds[f] # None
          PROVE  \/ \E d \in ConnIds : InUse(conns'[d]) /\ conns'[d].fd = f
                 \/ \E u \in Threads : \E i \in 1 .. Len(queue'[u]) : queue'[u][i] = f
      <4>1. CASE f = fd
        BY <2>4, <2>7, <4>1
      <4>2. CASE \E d \in ConnIds : InUse(conns[d]) /\ conns[d].fd = f
        BY <2>7, <4>2
      <4>3. CASE f # fd /\ \E u \in Threads : \E i \in 1 .. Len(queue[u]) : queue[u][i] = f
        <5>1. PICK u \in Threads : \E i \in 1 .. Len(queue[u]) : queue[u][i] = f
          BY <4>3
        <5>2. PICK i \in 1 .. Len(queue[u]) : queue[u][i] = f
          BY <5>1
        <5>3. CASE u # t
          BY <2>8, <5>2, <5>3
        <5>4. CASE u = t
          <6>1. i \in 1 .. Len(q) /\ q[i] = f /\ i # 1
            BY <2>5, <2>12, <4>3, <5>2, <5>4
          <6>2. i - 1 \in 1 .. Len(q) - 1 /\ (i - 1) + 1 = i
            BY <2>5, <6>1
          <6>3. i - 1 \in 1 .. Len(queue'[t]) /\ queue'[t][i - 1] = q[(i - 1) + 1]
            BY <2>5, <2>8, <6>2
          <6>4. QED
            BY <6>1, <6>2, <6>3
        <5>5. QED
          BY <5>3, <5>4
      <4>4. QED
        BY <1>1, <3>6, <4>1, <4>2, <4>3 DEF Descriptors
    <3>7. QED
      BY <1>2, <1>3, <3>2, <3>3, <3>4, <3>5, <3>6 DEF Descriptors, InUse
  <2>15. Streams'
    <3>1. ASSUME NEW k \in Clients, Relies(client[k])
          PROVE  Stream(fds, conns', sock[k], k, client[k])
      <4>1. Stream(fds, conns, sock[k], k, client[k])
        BY <1>1, <3>1 DEF Streams
      <4>2. DOMAIN conns = ConnIds /\ DOMAIN conns' = ConnIds
        BY <1>1, <2>7 DEF ServerTypes
      <4>3. PICK C2 : C2 = conns'
        OBVIOUS
      <4>4. /\ DOMAIN C2 = DOMAIN conns
            /\ \A d \in DOMAIN conns :
                 Serves(fds, conns[d], k) => Serves(fds, C2[d], k) /\ Alike(C2[d], conns[d])
            /\ \A d \in DOMAIN conns : Serves(fds, C2[d], k) =>
                 \/ Serves(fds, conns[d], k) /\ Alike(C2[d], conns[d])
                 \/ C2[d].state = "read" /\ C2[d].rbuf = <<>>
        BY <2>7, <4>2, <4>3 DEF Serves, Alike
      <4>5. Stream(fds, C2, sock[k], k, client[k])
        BY <4>1, <4>4, StreamKept
      <4>6. QED
        BY <4>3, <4>5
    <3>2. QED
      BY <1>1, <1>2, <3>1 DEF Streams
  <2>16. QED
    BY <1>5, <2>9, <2>10, <2>11, <2>14, <2>15 DEF IInv
<1>8. QED
  BY <1>6, <1>7

\* Nobody relies on a connection that is about to be closed.
LEMMA ClosingStream ==
  ASSUME IInv, NEW c \in ConnIds, NEW k \in Clients, Serves(fds, conns[c], k),
         conns[c].state = "closing", Relies(client[k])
  PROVE  ~Stream(fds, conns, sock[k], k, client[k])
<1>0. DOMAIN conns = ConnIds
  BY DEF IInv, ServerTypes
<1>1. ~Quiet(fds, conns, sock[k], k)
  BY <1>0 DEF Quiet
<1>2. \A n : ~Requested(fds, conns, sock[k], k, n)
  BY <1>0 DEF Requested
<1>3. \A n : ~HalfRead(fds, conns, sock[k], k, n)
  BY <1>0, OneConn DEF HalfRead
<1>4. \A n : ~Replying(fds, conns, sock[k], k, n)
  BY <1>0, OneConn DEF Replying
<1>5. QED
  BY <1>1, <1>2, <1>3, <1>4 DEF Stream, Relies, Replied

LEMMA ConnCloseKeeps ==
  ASSUME IInv, NEW t \in Threads, ConnClose(t), UNCHANGED client
  PROVE  IInv'
<1> DEFINE c  == run[t]
           k  == ClientOf(c)
           fd == conns[c].fd
           x  == [conns[c] EXCEPT !.event = None, !.state = "closed"]
<1>1. /\ ServerTypes /\ ClientTypes /\ Structures /\ Driven /\ Descriptors
      /\ ClientsApart /\ Streams /\ ScoresTrue
  BY DEF IInv
<1>2. /\ In(t, "closing")
      /\ sock' = [sock EXCEPT ![k].closedDown = TRUE]
      /\ fds' = [fds EXCEPT ![fd] = None]
      /\ accepting' = (accepting \/ t = 0)
      /\ UNCHANGED <<settings, alive, backlog, queue, pipe, last_thread, notify,
                     conn_structs, freeconns, run, faults, client>>
  BY DEF ConnClose
<1>3. conns' = [conns EXCEPT ![c] = x]
  BY DEF ConnClose
<1>4. Threads' = Threads /\ Fds' = Fds /\ ConnIds' = ConnIds /\ Conns' = Conns
  BY <1>2, SameSets
<1>5. /\ c \in ConnIds /\ conns[c] \in Conns /\ InUse(conns[c]) /\ conns[c].state = "closing"
      /\ fd \in Fds /\ k \in Clients /\ k = fds[fd] /\ sock[k] \in Socks
      /\ conns[c].thread = t
  <2>1. c \in ConnIds => conns[c].thread = t
    BY <1>1 DEF Driven
  <2>2. QED
    BY <1>2, <2>1, DrivenConn
<1>6. /\ x \in Conns /\ x.fd = fd /\ x.thread = t /\ x.state = "closed" /\ x.event = None
      /\ ~InUse(x)
  BY <1>5 DEF Conns, InUse
<1> HIDE DEF x
<1>7. /\ conns' \in [ConnIds -> Conns] /\ conns'[c] = x
      /\ \A d \in ConnIds : d # c => conns'[d] = conns[d]
  BY <1>1, <1>3, <1>5, <1>6 DEF ServerTypes
<1>8. /\ fds' \in [Fds -> Clients \cup {None}] /\ fds'[fd] = None
      /\ \A f \in Fds : f # fd => fds'[f] = fds[f]
  <2>1. fds \in [Fds -> Clients \cup {None}]
    BY <1>1 DEF ServerTypes
  <2> HIDE DEF fd
  <2>2. QED
    BY <1>2, <1>5, <2>1
<1>9. /\ sock' \in [Clients -> Socks]
      /\ \A j \in Clients : j # k => sock'[j] = sock[j]
  <2>1. sock \in [Clients -> Socks]
    BY <1>1 DEF ServerTypes
  <2>2. sock' = [sock EXCEPT ![k] = [sock[k] EXCEPT !.closedDown = TRUE]]
    BY <1>2
  <2>3. [sock[k] EXCEPT !.closedDown = TRUE] \in Socks
    BY <1>5 DEF Socks
  <2>4. QED
    BY <1>5, <2>1, <2>2, <2>3
<1>10. ServerTypes'
  <2>1. accepting' \in BOOLEAN
    BY <1>1, <1>2 DEF ServerTypes
  <2>2. QED
    BY <1>1, <1>2, <1>4, <1>7, <1>8, <1>9, <2>1 DEF ServerTypes
<1>11. ClientTypes' /\ ScoresTrue'
  BY <1>1, <1>2 DEF ClientTypes, ScoresTrue
<1>12. \A d \in ConnIds :
         /\ conns'[d].state = None <=> conns[d].state = None
         /\ InUse(conns'[d]) <=> InUse(conns[d]) /\ d # c
         /\ conns'[d].fd = conns[d].fd /\ conns'[d].thread = conns[d].thread
         /\ conns'[d].state = "closed" <=> conns[d].state = "closed" \/ d = c
         /\ conns'[d].event = conns[d].event \/ d = c
  BY <1>5, <1>6, <1>7 DEF InUse, None
<1>13. Structures'
  <2>1. \A i \in 1 .. Len(freeconns) : freeconns[i] \in ConnIds
    BY <1>1, ElementOfSeq DEF ServerTypes
  <2>2. 1 .. conn_structs \subseteq ConnIds
    BY <1>1, SettingsTyped DEF ServerTypes, ConnIds
  <2>3. QED
    BY <1>1, <1>2, <1>4, <1>12, <2>1, <2>2 DEF Structures
<1>14. Driven'
  <2>1. \A d \in ConnIds : conns'[d].state # None => conns'[d].thread \in Threads
    BY <1>1, <1>12 DEF Driven
  <2>2. \A d \in ConnIds : ~InUse(conns'[d]) => conns'[d].event = None
    BY <1>1, <1>6, <1>7, <1>12 DEF Driven
  <2>3. \A d \in ConnIds : conns'[d].state = "closed" => run[conns'[d].thread] = d
    BY <1>1, <1>5, <1>12 DEF Driven
  <2>4. \A u \in Threads :
          run[u] \in ConnIds => conns'[run[u]].thread = u /\ conns'[run[u]].state # None
    BY <1>1, <1>12 DEF Driven
  <2>5. QED
    BY <1>2, <1>4, <2>1, <2>2, <2>3, <2>4 DEF Driven, InUse
<1>15. \A d \in ConnIds : InUse(conns[d]) /\ d # c => conns[d].fd \in Fds /\ conns[d].fd # fd
  BY <1>1, <1>5 DEF Descriptors
<1>16. \A u \in Threads : \A i \in 1 .. Len(queue[u]) : queue[u][i] \in Fds /\ queue[u][i] # fd
  <2>1. \A u \in Threads : \A i \in 1 .. Len(queue[u]) : queue[u][i] \in Fds
    BY <1>1, ElementOfSeq DEF ServerTypes
  <2>2. QED
    BY <1>1, <1>5, <2>1 DEF Descriptors
<1>17. Descriptors'
  <2>1. \A d \in ConnIds : InUse(conns'[d]) => conns'[d].fd \in Fds /\ fds'[conns'[d].fd] # None
    BY <1>1, <1>8, <1>12, <1>15 DEF Descriptors
  <2>2. \A d, e \in ConnIds :
          InUse(conns'[d]) /\ InUse(conns'[e]) /\ conns'[d].fd = conns'[e].fd => d = e
    BY <1>1, <1>12 DEF Descriptors
  <2>3. \A u \in Threads : \A i \in 1 .. Len(queue[u]) :
          /\ fds'[queue[u][i]] # None
          /\ \A d \in ConnIds : InUse(conns'[d]) => conns'[d].fd # queue[u][i]
    BY <1>1, <1>8, <1>12, <1>16 DEF Descriptors
  <2>4. ASSUME NEW f \in Fds, fds'[f] # None
        PROVE  \/ \E d \in ConnIds : InUse(conns'[d]) /\ conns'[d].fd = f
               \/ \E u \in Threads : \E i \in 1 .. Len(queue[u]) : queue[u][i] = f
    <3>1. f # fd /\ fds[f] # None
      BY <1>8, <2>4
    <3>2. CASE \E d \in ConnIds : InUse(conns[d]) /\ conns[d].fd = f
      BY <1>12, <3>1, <3>2
    <3>3. QED
      BY <1>1, <3>1, <3>2 DEF Descriptors
  <2>5. \A u, v \in Threads : \A i \in 1 .. Len(queue[u]), j \in 1 .. Len(queue[v]) :
          queue[u][i] = queue[v][j] => u = v /\ i = j
    BY <1>1 DEF Descriptors
  <2>6. QED
    BY <1>2, <1>4, <2>1, <2>2, <2>3, <2>4, <2>5 DEF Descriptors, InUse
<1>18. ClientsApart'
  <2>1. \A f \in Fds : fds'[f] = fds[f] \/ fds'[f] = None
    BY <1>8
  <2>2. \A i \in 1 .. Len(backlog) : backlog[i] \in Clients
    BY <1>1, ElementOfSeq DEF ServerTypes
  <2>3. None \notin Clients
    BY ServerAssumption
  <2>4. \A f, g \in Fds : fds'[f] = fds'[g] /\ fds'[f] # None => f = g
    BY <1>1, <2>1 DEF ClientsApart
  <2>5. \A i \in 1 .. Len(backlog), f \in Fds : fds'[f] # backlog[i]
    BY <1>1, <2>1, <2>2, <2>3 DEF ClientsApart
  <2>6. ASSUME NEW j \in Clients, client[j].pc = "start"
        PROVE  (\A f \in Fds : fds'[f] # j) /\ (\A i \in 1 .. Len(backlog) : backlog[i] # j)
    BY <1>1, <2>1, <2>3, <2>6 DEF ClientsApart
  <2>7. \A i, j \in 1 .. Len(backlog) : backlog[i] = backlog[j] => i = j
    BY <1>1 DEF ClientsApart
  <2>8. QED
    BY <1>2, <1>4, <2>4, <2>5, <2>6, <2>7 DEF ClientsApart
<1>19. Streams'
  <2>1. ASSUME NEW j \in Clients, Relies(client[j])
        PROVE  Stream(fds', conns', sock'[j], j, client[j])
    <3>1. Stream(fds, conns, sock[j], j, client[j])
      BY <1>1, <2>1 DEF Streams
    <3>2. j # k
      <4>1. Serves(fds, conns[c], k)
        BY <1>5 DEF Serves
      <4>2. QED
        BY <1>5, <2>1, <3>1, <4>1, ClosingStream
    <3>3. DOMAIN conns = ConnIds /\ DOMAIN conns' = ConnIds
      BY <1>1, <1>7 DEF ServerTypes
    <3>4. PICK C2, D2, s2 : C2 = conns' /\ D2 = fds' /\ s2 = sock'[j]
      OBVIOUS
    <3>5. ASSUME NEW d \in DOMAIN conns
          PROVE  /\ Serves(fds, conns[d], j) => Serves(D2, C2[d], j) /\ Alike(C2[d], conns[d])
                 /\ Serves(D2, C2[d], j) => Serves(fds, conns[d], j) /\ Alike(C2[d], conns[d])
      <4>1. CASE d = c
        <5>1. ~Serves(fds, conns[c], j)
          BY <1>5, <3>2 DEF Serves
        <5>2. ~Serves(D2, C2[c], j)
          BY <1>6, <1>7, <3>4 DEF Serves
        <5>3. QED
          BY <4>1, <5>1, <5>2
      <4>2. CASE d # c
        <5>1. C2[d] = conns[d]
          BY <1>7, <3>3, <3>4, <4>2
        <5>2. InUse(conns[d]) => D2[conns[d].fd] = fds[conns[d].fd]
          BY <1>8, <1>15, <3>3, <3>4, <4>2
        <5>3. QED
          BY <5>1, <5>2 DEF Serves, Alike
      <4>3. QED
        BY <4>1, <4>2
    <3>6. DOMAIN C2 = DOMAIN conns /\ s2 = sock[j]
      BY <1>9, <3>2, <3>3, <3>4
    <3>7. Stream(D2, C2, s2, j, client[j])
      BY <3>1, <3>5, <3>6, StreamKept
    <3>8. QED
      BY <3>4, <3>7
  <2>2. QED
    BY <1>1, <1>2, <2>1 DEF Streams
<1>20. QED
  BY <1>10, <1>11, <1>13, <1>14, <1>17, <1>18, <1>19 DEF IInv

LEMMA ConnFreeKeeps ==
  ASSUME IInv, NEW t \in Threads, ConnFree(t), UNCHANGED client
  PROVE  IInv'
<1> DEFINE c == run[t]
           x == [conns[c] EXCEPT !.state = None]
<1>1. /\ ServerTypes /\ ClientTypes /\ Structures /\ Driven /\ Descriptors
      /\ ClientsApart /\ Streams /\ ScoresTrue
  BY DEF IInv
<1>2. /\ run[t] > 0 /\ conns[c].state = "closed"
      /\ freeconns' = Append(freeconns, c) /\ run' = [run EXCEPT ![t] = Idle]
      /\ UNCHANGED <<settings, alive, accepting, backlog, fds, queue, pipe, last_thread,
                     notify, conn_structs, sock, faults, client>>
  BY DEF ConnFree, In
<1>3. conns' = [conns EXCEPT ![c] = x]
  BY DEF ConnFree
<1>4. Threads' = Threads /\ Fds' = Fds /\ ConnIds' = ConnIds /\ Conns' = Conns
  BY <1>2, SameSets
<1>5. c \in ConnIds
  <2>1. c \in ConnIds \cup {0, 0 - 1}
    BY <1>1 DEF ServerTypes, Idle, Listener
  <2>2. QED
    BY <1>2, <2>1
<1>6. conns[c] \in Conns /\ conns[c].thread = t
  BY <1>1, <1>5 DEF ServerTypes, Driven
<1>7. /\ x \in Conns /\ x.fd = conns[c].fd /\ x.thread = t /\ x.state = None
      /\ x.event = conns[c].event /\ ~InUse(x) /\ ~InUse(conns[c])
  BY <1>2, <1>6 DEF Conns, InUse
<1> HIDE DEF x
<1>8. /\ conns' \in [ConnIds -> Conns] /\ conns'[c] = x
      /\ \A d \in ConnIds : d # c => conns'[d] = conns[d]
  BY <1>1, <1>3, <1>5, <1>7 DEF ServerTypes
<1>9. \A d \in ConnIds :
        /\ conns'[d].state = None <=> conns[d].state = None \/ d = c
        /\ InUse(conns'[d]) <=> InUse(conns[d])
        /\ conns'[d].fd = conns[d].fd /\ conns'[d].thread = conns[d].thread
        /\ conns'[d].state = "closed" <=> conns[d].state = "closed" /\ d # c
        /\ conns'[d].event = conns[d].event
  BY <1>2, <1>6, <1>7, <1>8 DEF None
<1>10. /\ freeconns' \in Seq(ConnIds) /\ Len(freeconns') = Len(freeconns) + 1
       /\ Len(freeconns) \in Nat /\ freeconns'[Len(freeconns) + 1] = c
       /\ \A i \in 1 .. Len(freeconns) : freeconns'[i] = freeconns[i]
  <2> HIDE DEF c
  <2>1. freeconns \in Seq(ConnIds)
    BY <1>1 DEF ServerTypes
  <2>2. QED
    BY <1>2, <1>5, <2>1, AppendTail, LenProperties
<1>11. ServerTypes'
  <2>1. run' \in [Threads -> ConnIds \cup {Idle, Listener}]
    BY <1>1, <1>2 DEF ServerTypes
  <2>2. QED
    BY <1>1, <1>2, <1>4, <1>8, <1>10, <2>1 DEF ServerTypes
<1>12. ClientTypes' /\ ClientsApart' /\ ScoresTrue'
  <2>1. ClientTypes'
    BY <1>1, <1>2 DEF ClientTypes
  <2>2. QED
    BY <1>1, <1>2, <2>1, OwnersFrame
<1>13. Structures'
  <2>1. \A i \in 1 .. Len(freeconns) :
          /\ freeconns[i] \in ConnIds /\ freeconns[i] <= conn_structs
          /\ conns[freeconns[i]].state = None /\ freeconns[i] # c
    <3>1. \A i \in 1 .. Len(freeconns) : freeconns[i] \in ConnIds
      BY <1>1, ElementOfSeq DEF ServerTypes
    <3>2. QED
      BY <1>1, <1>2, <3>1 DEF Structures, None
  <2>2. \A i \in 1 .. Len(freeconns') : i \in 1 .. Len(freeconns) \/ i = Len(freeconns) + 1
    BY <1>10
  <2>3. c <= conn_structs
    BY <1>1, <1>2, <1>5 DEF Structures, None
  <2>4. \A d \in ConnIds : conns'[d].state # None => d <= conn_structs
    BY <1>1, <1>9 DEF Structures
  <2>5. ASSUME NEW i \in 1 .. Len(freeconns'), NEW j \in 1 .. Len(freeconns'),
               freeconns'[i] = freeconns'[j]
        PROVE  i = j
    <3>1. i \in 1 .. Len(freeconns) /\ j \in 1 .. Len(freeconns) => i = j
      BY <1>1, <1>10, <2>5 DEF Structures
    <3>2. i \in 1 .. Len(freeconns) => freeconns'[i] # c
      BY <1>10, <2>1
    <3>3. j \in 1 .. Len(freeconns) => freeconns'[j] # c
      BY <1>10, <2>1
    <3>4. QED
      BY <1>10, <2>2, <2>5, <3>1, <3>2, <3>3
  <2>6. \A i \in 1 .. Len(freeconns') :
          freeconns'[i] <= conn_structs /\ conns'[freeconns'[i]].state = None
    <3>1. SUFFICES ASSUME NEW i \in 1 .. Len(freeconns')
                   PROVE  freeconns'[i] <= conn_structs /\ conns'[freeconns'[i]].state = None
      OBVIOUS
    <3>2. CASE i \in 1 .. Len(freeconns)
      BY <1>9, <1>10, <2>1, <3>2
    <3>3. CASE i = Len(freeconns) + 1
      BY <1>5, <1>9, <1>10, <2>3, <3>3
    <3>4. QED
      BY <2>2, <3>2, <3>3
  <2>7. ASSUME NEW d \in 1 .. conn_structs, conns'[d].state = None
        PROVE  \E i \in 1 .. Len(freeconns') : freeconns'[i] = d
    <3>1. d \in ConnIds
      BY <1>1, SettingsTyped DEF ServerTypes, ConnIds
    <3>2. CASE d = c
      <4>1. Len(freeconns) + 1 \in 1 .. Len(freeconns')
        BY <1>10
      <4>2. QED
        BY <1>10, <3>2, <4>1
    <3>3. CASE d # c
      <4>1. conns[d].state = None
        BY <1>9, <2>7, <3>1, <3>3
      <4>2. PICK i \in 1 .. Len(freeconns) : freeconns[i] = d
        BY <1>1, <4>1 DEF Structures
      <4>3. i \in 1 .. Len(freeconns') /\ freeconns'[i] = d
        BY <1>10, <4>2
      <4>4. QED
        BY <4>3
    <3>4. QED
      BY <3>2, <3>3
  <2>8. QED
    BY <1>2, <1>4, <2>4, <2>5, <2>6, <2>7 DEF Structures
<1>14. Driven'
  <2>1. \A d \in ConnIds : conns'[d].state # None => conns'[d].thread \in Threads
    BY <1>1, <1>9 DEF Driven
  <2>2. \A d \in ConnIds : ~InUse(conns'[d]) => conns'[d].event = None
    BY <1>1, <1>9 DEF Driven
  <2>3. \A u \in Threads : run'[u] = IF u = t THEN Idle ELSE run[u]
    BY <1>1, <1>2 DEF ServerTypes
  <2>4. ASSUME NEW d \in ConnIds, conns'[d].state = "closed"
        PROVE  run'[conns'[d].thread] = d
    <3>1. d # c /\ conns[d].state = "closed" /\ conns'[d].thread = conns[d].thread
      BY <1>9, <2>4
    <3>2. run[conns[d].thread] = d /\ conns[d].thread \in Threads
      BY <1>1, <3>1 DEF Driven, None
    <3>3. conns[d].thread # t
      BY <3>1, <3>2
    <3>4. QED
      BY <2>3, <3>1, <3>2, <3>3
  <2>5. ASSUME NEW u \in Threads, run'[u] \in ConnIds
        PROVE  conns'[run'[u]].thread = u /\ conns'[run'[u]].state # None
    <3>1. u # t
      BY <1>12, <2>3, <2>5, RunsNothing
    <3>2. run'[u] = run[u] /\ conns[run[u]].thread = u /\ conns[run[u]].state # None
      BY <1>1, <2>3, <2>5, <3>1 DEF Driven
    <3>3. run[u] # c
      BY <1>6, <3>1, <3>2
    <3>4. QED
      BY <1>9, <2>5, <3>2, <3>3
  <2>6. QED
    BY <1>4, <2>1, <2>2, <2>4, <2>5 DEF Driven, InUse
<1>15. Descriptors'
  <2>1. \A d \in ConnIds : InUse(conns'[d]) => conns'[d].fd \in Fds /\ fds[conns'[d].fd] # None
    BY <1>1, <1>9 DEF Descriptors
  <2>2. \A d, e \in ConnIds :
          InUse(conns'[d]) /\ InUse(conns'[e]) /\ conns'[d].fd = conns'[e].fd => d = e
    BY <1>1, <1>9 DEF Descriptors
  <2>3. \A u \in Threads : \A i \in 1 .. Len(queue[u]) :
          /\ fds[queue[u][i]] # None
          /\ \A d \in ConnIds : InUse(conns'[d]) => conns'[d].fd # queue[u][i]
    BY <1>1, <1>9 DEF Descriptors
  <2>4. \A u, v \in Threads : \A i \in 1 .. Len(queue[u]), j \in 1 .. Len(queue[v]) :
          queue[u][i] = queue[v][j] => u = v /\ i = j
    BY <1>1 DEF Descriptors
  <2>5. \A f \in Fds : fds[f] # None =>
          \/ \E d \in ConnIds : InUse(conns'[d]) /\ conns'[d].fd = f
          \/ \E u \in Threads : \E i \in 1 .. Len(queue[u]) : queue[u][i] = f
    BY <1>1, <1>9 DEF Descriptors
  <2>6. QED
    BY <1>2, <1>4, <2>1, <2>2, <2>3, <2>4, <2>5 DEF Descriptors, InUse
<1>16. Streams'
  <2>1. ASSUME NEW j \in Clients, Relies(client[j])
        PROVE  Stream(fds, conns', sock[j], j, client[j])
    <3>1. Stream(fds, conns, sock[j], j, client[j])
      BY <1>1, <2>1 DEF Streams
    <3>2. DOMAIN conns = ConnIds /\ DOMAIN conns' = ConnIds
      BY <1>1, <1>8 DEF ServerTypes
    <3>3. PICK C2 : C2 = conns'
      OBVIOUS
    <3>4. \A d \in DOMAIN conns :
            /\ Serves(fds, conns[d], j) => Serves(fds, C2[d], j) /\ Alike(C2[d], conns[d])
            /\ Serves(fds, C2[d], j) => Serves(fds, conns[d], j) /\ Alike(C2[d], conns[d])
      BY <1>7, <1>8, <3>2, <3>3 DEF Serves, Alike
    <3>5. DOMAIN C2 = DOMAIN conns
      BY <3>2, <3>3
    <3>6. Stream(fds, C2, sock[j], j, client[j])
      BY <3>1, <3>4, <3>5, StreamKept
    <3>7. QED
      BY <3>3, <3>6
  <2>2. QED
    BY <1>1, <1>2, <2>1 DEF Streams
<1>17. QED
  BY <1>11, <1>12, <1>13, <1>14, <1>15, <1>16 DEF IInv

\* When the server dies, its sockets are closed at its end.
LEMMA ServerDiesKeeps ==
  ASSUME IInv, ServerDies, UNCHANGED client
  PROVE  IInv'
<1>1. /\ ServerTypes /\ ClientTypes /\ Structures /\ Driven /\ Descriptors
      /\ ClientsApart /\ Streams /\ ScoresTrue
  BY DEF IInv
<1>2. /\ alive' = FALSE /\ accepting' = FALSE /\ backlog' = <<>>
      /\ sock' = [k \in Clients |-> [sock[k] EXCEPT !.closedDown = TRUE]]
      /\ UNCHANGED <<settings, fds, queue, pipe, last_thread, notify, conns,
                     conn_structs, freeconns, run, client>>
  BY DEF ServerDies
<1>3. Threads' = Threads /\ Fds' = Fds /\ ConnIds' = ConnIds /\ Conns' = Conns
  BY <1>2, SameSets
<1>4. \A k \in Clients :
        /\ sock'[k] \in Socks /\ sock'[k].up = sock[k].up /\ sock'[k].down = sock[k].down
        /\ sock'[k].closedUp = sock[k].closedUp
  BY <1>1, <1>2 DEF ServerTypes, Socks
<1>5. ServerTypes'
  <2>1. sock' \in [Clients -> Socks]
    <3>1. sock' = [k \in Clients |-> sock'[k]]
      BY <1>2
    <3>2. QED
      BY <1>4, <3>1
  <2>2. backlog' \in Seq(Clients)
    BY <1>2
  <2>3. QED
    BY <1>1, <1>2, <1>3, <2>1, <2>2 DEF ServerTypes
<1>6. ClientTypes' /\ Structures' /\ Driven' /\ Descriptors' /\ ScoresTrue'
  <2>1. ClientTypes'
    BY <1>1, <1>2 DEF ClientTypes
  <2>2. QED
    BY <1>1, <1>2, <2>1, OwnersFrame
<1>7. ClientsApart'
  <2>1. \A i \in 1 .. Len(backlog') : FALSE
    BY <1>2
  <2>2. QED
    BY <1>1, <1>2, <1>3, <2>1 DEF ClientsApart
<1>8. Streams'
  <2>1. ASSUME NEW k \in Clients, Relies(client[k])
        PROVE  Stream(fds, conns, sock'[k], k, client[k])
    <3>1. Stream(fds, conns, sock[k], k, client[k])
      BY <1>1, <2>1 DEF Streams
    <3>2. PICK s2 : s2 = sock'[k]
      OBVIOUS
    <3>3. /\ s2.up = sock[k].up /\ s2.down = sock[k].down /\ s2.closedUp = sock[k].closedUp
          /\ \A c \in DOMAIN conns : Alike(conns[c], conns[c])
      BY <1>4, <3>2 DEF Alike
    <3>4. Stream(fds, conns, s2, k, client[k])
      BY <3>1, <3>3, StreamKept
    <3>5. QED
      BY <3>2, <3>4
  <2>2. QED
    BY <1>1, <1>2, <2>1 DEF Streams
<1>9. QED
  BY <1>5, <1>6, <1>7, <1>8 DEF IInv

LEMMA ServerKeeps ==
  ASSUME IInv, Server \/ ServerCrashes
  PROVE  IInv'
<1>1. CASE ServerCrashes
  BY <1>1, ServerDiesKeeps DEF ServerCrashes
<1>2. CASE Server
  <2>1. UNCHANGED client /\ \E t \in Threads : ThreadNext(t)
    BY <1>2 DEF Server, ServerNext
  <2>2. PICK t \in Threads : ThreadNext(t)
    BY <2>1
  <2>3. CASE Listen
    BY <2>1, <2>3, ListenEventKeeps, AcceptKeeps, NotifyKeeps DEF Listen
  <2>4. CASE NewConnEvent(t)
    BY <2>1, <2>4, NewConnEventKeeps
  <2>5. CASE \E c \in ConnIds : EventHandler(t, c)
    BY <2>1, <2>5, EventHandlerKeeps
  <2>6. CASE DriveMachine(t)
    BY <2>1, <2>6, TryReadNetworkKeeps, ClosingKeeps, NothingToReadKeeps, TransmitKeeps,
       TransmitSoftErrorKeeps, ConnCloseKeeps, ConnFreeKeeps DEF DriveMachine
  <2>7. QED
    BY <2>2, <2>3, <2>4, <2>5, <2>6 DEF ThreadNext
<1>3. QED
  BY <1>1, <1>2

------------------------------------------------------------------------------
(****************************************************************************)
(* Decoders.                                                                *)
(****************************************************************************)
LEMMA ClientStep ==
  ASSUME IInv, NEW k \in Clients, NEW me \in Decoders, NEW s \in Socks,
         client' = [client EXCEPT ![k] = me], sock' = [sock EXCEPT ![k] = s],
         OnlySock, UNCHANGED backlog,
         me.pc = "start" => client[k].pc = "start",
         me.pc \in {"read", "read more"} => me.ngram \in NGrams /\ Len(me.res) = ReplySize,
         Relies(me) => Stream(fds, conns, s, k, me),
         ~me.torn => me.pc \notin {"read more", "undefined"},
         ~me.torn => \A n \in NGrams : me.cache[n] \in {0, Score(n)}
  PROVE  IInv'
<1>1. /\ ServerTypes /\ ClientTypes /\ Structures /\ Driven /\ Descriptors
      /\ ClientsApart /\ Streams /\ ScoresTrue
  BY DEF IInv
<1>2. /\ UNCHANGED <<settings, alive, accepting, fds, queue, pipe, last_thread,
                     notify, conns, conn_structs, freeconns, run, backlog>>
  BY DEF OnlySock
<1>3. Threads' = Threads /\ Fds' = Fds /\ ConnIds' = ConnIds /\ Conns' = Conns
  BY <1>2, SameSets
<1>4. /\ client' \in [Clients -> Decoders] /\ client'[k] = me
      /\ \A j \in Clients : j # k => client'[j] = client[j]
  BY <1>1 DEF ClientTypes
<1>5. /\ sock' \in [Clients -> Socks] /\ sock'[k] = s
      /\ \A j \in Clients : j # k => sock'[j] = sock[j]
  BY <1>1 DEF ServerTypes
<1>6. ServerTypes'
  BY <1>1, <1>2, <1>3, <1>5 DEF ServerTypes
<1>7. ClientTypes'
  BY <1>1, <1>4 DEF ClientTypes
<1>8. Structures' /\ Driven' /\ Descriptors'
  BY <1>1, <1>2, OwnersFrame
<1>9. ClientsApart'
  <2>1. \A j \in Clients : client'[j].pc = "start" => client[j].pc = "start"
    BY <1>4
  <2>2. QED
    BY <1>1, <1>2, <1>3, <2>1 DEF ClientsApart
<1>10. Streams'
  <2>1. ASSUME NEW j \in Clients
        PROVE  /\ Relies(client'[j]) => Stream(fds, conns, sock'[j], j, client'[j])
               /\ ~client'[j].torn => client'[j].pc \notin {"read more", "undefined"}
    <3>1. CASE j = k
      BY <1>4, <1>5, <3>1
    <3>2. CASE j # k
      BY <1>1, <1>4, <1>5, <3>2 DEF Streams
    <3>3. QED
      BY <3>1, <3>2
  <2>2. QED
    BY <1>2, <2>1 DEF Streams
<1>11. ScoresTrue'
  <2>1. ASSUME NEW j \in Clients, ~client'[j].torn, NEW n \in NGrams
        PROVE  client'[j].cache[n] \in {0, Score(n)}
    <3>1. CASE j = k
      BY <1>4, <2>1, <3>1
    <3>2. CASE j # k
      BY <1>1, <1>4, <2>1, <3>2 DEF ScoresTrue
    <3>3. QED
      BY <3>1, <3>2
  <2>2. QED
    BY <2>1 DEF ScoresTrue
<1>12. QED
  BY <1>6, <1>7, <1>8, <1>9, <1>10, <1>11 DEF IInv

LEMMA ClientTyped ==
  ASSUME IInv, NEW k \in Clients
  PROVE  /\ client[k] \in Decoders /\ sock[k] \in Socks
         /\ client[k].pc \in {"read", "read more"} =>
              client[k].ngram \in NGrams /\ Len(client[k].res) = ReplySize
         /\ Relies(client[k]) => Stream(fds, conns, sock[k], k, client[k])
         /\ ~client[k].torn => client[k].pc \notin {"read more", "undefined"}
         /\ ~client[k].torn => \A n \in NGrams : client[k].cache[n] \in {0, Score(n)}
<1>1. client[k] \in Decoders /\ sock[k] \in Socks
  BY DEF IInv, ServerTypes, ClientTypes
<1>2. client[k].pc \in {"read", "read more"} =>
        client[k].ngram \in NGrams /\ Len(client[k].res) = ReplySize
  BY DEF IInv, ClientTypes
<1>3. /\ Relies(client[k]) => Stream(fds, conns, sock[k], k, client[k])
      /\ ~client[k].torn => client[k].pc \notin {"read more", "undefined"}
  BY DEF IInv, Streams
<1>4. ~client[k].torn => \A n \in NGrams : client[k].cache[n] \in {0, Score(n)}
  BY DEF IInv, ScoresTrue
<1>5. QED
  BY <1>1, <1>2, <1>3, <1>4

LEMMA SameSock ==
  ASSUME IInv, NEW k \in Clients
  PROVE  sock = [sock EXCEPT ![k] = sock[k]]
BY DEF IInv, ServerTypes

LEMMA ConnectKeeps ==
  ASSUME IInv, NEW k \in Clients, Connect(k)
  PROVE  IInv'
<1> DEFINE me == [client[k] EXCEPT !.pc = "ready"]
<1>1. /\ ServerTypes /\ ClientTypes /\ Structures /\ Driven /\ Descriptors
      /\ ClientsApart /\ Streams /\ ScoresTrue
  BY DEF IInv
<1>2. /\ client[k].pc = "start" /\ client' = [client EXCEPT ![k] = me]
      /\ backlog' = Append(backlog, k)
      /\ UNCHANGED <<settings, alive, accepting, fds, queue, pipe, last_thread,
                     notify, conns, conn_structs, freeconns, run, sock>>
  BY DEF Connect, At, OnlySock
<1>3. Threads' = Threads /\ Fds' = Fds /\ ConnIds' = ConnIds /\ Conns' = Conns
  BY <1>2, SameSets
<1>4. /\ me \in Decoders /\ me.pc = "ready" /\ me.torn = client[k].torn
      /\ me.cache = client[k].cache /\ me.cnt = client[k].cnt
  BY ClientTyped DEF Decoders
<1> HIDE DEF me
<1>5. /\ client' \in [Clients -> Decoders] /\ client'[k] = me
      /\ \A j \in Clients : j # k => client'[j] = client[j]
  BY <1>1, <1>2, <1>4 DEF ClientTypes
<1>6. /\ backlog' \in Seq(Clients) /\ Len(backlog') = Len(backlog) + 1
      /\ Len(backlog) \in Nat /\ backlog'[Len(backlog) + 1] = k
      /\ \A i \in 1 .. Len(backlog) : backlog'[i] = backlog[i]
  BY <1>1, <1>2, AppendTail, LenProperties DEF ServerTypes
<1>7. ServerTypes'
  BY <1>1, <1>2, <1>3, <1>6 DEF ServerTypes
<1>8. ClientTypes'
  BY <1>1, <1>4, <1>5 DEF ClientTypes
<1>9. Structures' /\ Driven' /\ Descriptors'
  BY <1>1, <1>2, OwnersFrame
<1>10. ClientsApart'
  <2>1. (\A f \in Fds : fds[f] # k) /\ (\A i \in 1 .. Len(backlog) : backlog[i] # k)
    BY <1>1, <1>2 DEF ClientsApart
  <2>2. \A i \in 1 .. Len(backlog') :
          \/ i \in 1 .. Len(backlog) /\ backlog'[i] = backlog[i]
          \/ i = Len(backlog) + 1 /\ backlog'[i] = k
    BY <1>6
  <2>3. \A i, j \in 1 .. Len(backlog') : backlog'[i] = backlog'[j] => i = j
    BY <1>1, <2>1, <2>2 DEF ClientsApart
  <2>4. \A i \in 1 .. Len(backlog'), f \in Fds : fds[f] # backlog'[i]
    BY <1>1, <2>1, <2>2 DEF ClientsApart
  <2>5. ASSUME NEW j \in Clients, client'[j].pc = "start"
        PROVE  (\A f \in Fds : fds[f] # j) /\ (\A i \in 1 .. Len(backlog') : backlog'[i] # j)
    <3>1. j # k /\ client[j].pc = "start"
      BY <1>4, <1>5, <2>5
    <3>2. QED
      BY <1>1, <2>2, <3>1 DEF ClientsApart
  <2>6. \A f, g \in Fds : fds[f] = fds[g] /\ fds[f] # None => f = g
    BY <1>1 DEF ClientsApart
  <2>7. QED
    BY <1>2, <1>3, <2>3, <2>4, <2>5, <2>6 DEF ClientsApart
<1>11. Streams'
  <2>1. ASSUME NEW j \in Clients
        PROVE  /\ Relies(client'[j]) => Stream(fds, conns, sock[j], j, client'[j])
               /\ ~client'[j].torn => client'[j].pc \notin {"read more", "undefined"}
    <3>1. CASE j = k
      <4>1. Relies(me) => Relies(client[k])
        BY <1>2, <1>4 DEF Relies
      <4>2. Stream(fds, conns, sock[k], k, client[k]) => Stream(fds, conns, sock[k], k, me)
        BY <1>2, <1>4 DEF Stream
      <4>3. QED
        BY <1>1, <1>4, <1>5, <3>1, <4>1, <4>2 DEF Streams
    <3>2. CASE j # k
      BY <1>1, <1>5, <3>2 DEF Streams
    <3>3. QED
      BY <3>1, <3>2
  <2>2. QED
    BY <1>2, <2>1 DEF Streams
<1>12. ScoresTrue'
  BY <1>1, <1>4, <1>5 DEF ScoresTrue
<1>13. QED
  BY <1>7, <1>8, <1>9, <1>10, <1>11, <1>12 DEF IInv

LEMMA ConnectFailsKeeps ==
  ASSUME IInv, NEW k \in Clients, ConnectFails(k)
  PROVE  IInv'
<1> DEFINE pc == IF client[k].errors + 1 > MaxErrors THEN "failed" ELSE client[k].pc
           me == [client[k] EXCEPT !.errors = @ + 1, !.pc = pc]
<1>1. /\ client[k].pc = "start" /\ client' = [client EXCEPT ![k] = me]
      /\ sock' = [sock EXCEPT ![k] = sock[k]] /\ OnlySock /\ UNCHANGED backlog
  BY SameSock DEF ConnectFails, At, serverVars, OnlySock
<1>2. pc \in {"start", "failed"}
  BY <1>1
<1> HIDE DEF pc
<1>3. /\ me \in Decoders /\ me.pc = pc /\ me.torn = client[k].torn
      /\ me.cache = client[k].cache /\ me.cnt = client[k].cnt
  <2>1. client[k] \in Decoders
    BY ClientTyped
  <2>2. client[k].errors + 1 \in Nat
    <3>1. client[k].errors \in Nat
      BY <2>1 DEF Decoders
    <3>2. QED
      BY <3>1
  <2>3. QED
    BY <1>2, <2>1, <2>2 DEF Decoders
<1> HIDE DEF me
<1>4. Relies(me) => Stream(fds, conns, sock[k], k, me)
  <2>1. Relies(me) => Relies(client[k])
    BY <1>1, <1>3 DEF Relies
  <2>2. Stream(fds, conns, sock[k], k, client[k]) => Stream(fds, conns, sock[k], k, me)
    BY <1>1, <1>2, <1>3 DEF Stream
  <2>3. QED
    BY <2>1, <2>2, ClientTyped
<1>5. QED
  BY <1>1, <1>2, <1>3, <1>4, ClientTyped, ClientStep

LEMMA LeavingKeeps ==
  ASSUME IInv, NEW k \in Clients, Close(k) \/ FirstReadFails(k) \/ DecoderCrashes(k)
  PROVE  IInv'
<1>1. PICK up \in Seq(Symbols), pc \in {"done", "dead"} :
        /\ sock' = [sock EXCEPT ![k] = [sock[k] EXCEPT !.closedUp = TRUE, !.up = up]]
        /\ client' = [client EXCEPT ![k] = [client[k] EXCEPT !.pc = pc]]
        /\ OnlySock /\ UNCHANGED backlog
  <2>1. sock[k].up \in Seq(Symbols) /\ sock[k] \in Socks
    BY ClientTyped DEF Socks
  <2>2. CASE Close(k)
    <3>1. [sock[k] EXCEPT !.closedUp = TRUE, !.up = sock[k].up] = [sock[k] EXCEPT !.closedUp = TRUE]
      BY <2>1 DEF Socks
    <3>2. sock' = [sock EXCEPT ![k] = [sock[k] EXCEPT !.closedUp = TRUE, !.up = sock[k].up]]
      BY <2>2, <3>1 DEF Close
    <3>3. client' = [client EXCEPT ![k] = [client[k] EXCEPT !.pc = "done"]]
      BY <2>2 DEF Close
    <3>4. QED
      BY <2>1, <2>2, <3>2, <3>3 DEF Close
  <2>3. CASE DecoderCrashes(k)
    <3>1. PICK n \in 0 .. Len(sock[k].up) :
            sock' = [sock EXCEPT ![k].closedUp = TRUE, ![k].up = SubSeq(@, 1, n)]
      BY <2>3 DEF DecoderCrashes
    <3> DEFINE up == SubSeq(sock[k].up, 1, n)
    <3>2. up \in Seq(Symbols)
      BY <2>1, AfterTyped
    <3>3. sock' = [sock EXCEPT ![k] = [sock[k] EXCEPT !.closedUp = TRUE, !.up = up]]
      BY <2>1, <3>1 DEF IInv, ServerTypes, Socks
    <3>4. client' = [client EXCEPT ![k] = [client[k] EXCEPT !.pc = "dead"]]
      BY <2>3 DEF DecoderCrashes
    <3> HIDE DEF up
    <3>5. QED
      BY <2>3, <3>2, <3>3, <3>4 DEF DecoderCrashes
  <2>4. CASE FirstReadFails(k)
    <3>1. [sock[k] EXCEPT !.closedUp = TRUE, !.up = sock[k].up] = [sock[k] EXCEPT !.closedUp = TRUE]
      BY <2>1 DEF Socks
    <3>2. sock' = [sock EXCEPT ![k] = [sock[k] EXCEPT !.closedUp = TRUE, !.up = sock[k].up]]
      BY <2>4, <3>1 DEF FirstReadFails
    <3>3. client' = [client EXCEPT ![k] = [client[k] EXCEPT !.pc = "dead"]]
      BY <2>4 DEF FirstReadFails
    <3>4. QED
      BY <2>1, <2>4, <3>2, <3>3 DEF FirstReadFails
  <2>5. QED
    BY <2>2, <2>3, <2>4
<1> DEFINE me == [client[k] EXCEPT !.pc = pc]
           s  == [sock[k] EXCEPT !.closedUp = TRUE, !.up = up]
<1>2. s \in Socks
  BY <1>1, ClientTyped DEF Socks
<1>3. /\ me \in Decoders /\ me.pc = pc /\ me.torn = client[k].torn
      /\ me.cache = client[k].cache
  <2>1. client[k] \in Decoders
    BY ClientTyped
  <2>2. pc \in {"done", "dead"}
    BY <1>1
  <2>3. QED
    BY <2>1, <2>2 DEF Decoders
<1> HIDE DEF me, s
<1>4. ~Relies(me) /\ me.pc \notin {"start", "read", "read more", "undefined"}
  BY <1>1, <1>3 DEF Relies
<1>5. /\ client' = [client EXCEPT ![k] = me] /\ sock' = [sock EXCEPT ![k] = s]
      /\ OnlySock /\ UNCHANGED backlog
  BY <1>1 DEF me, s
<1>6. QED
  BY <1>2, <1>3, <1>4, <1>5, ClientTyped, ClientStep

LEMMA AskKeeps ==
  ASSUME IInv, NEW k \in Clients, Ask(k)
  PROVE  IInv'
<1> DEFINE junk == [i \in 1 .. ReplySize |-> Junk]
<1>1. /\ client[k].pc = "ready" /\ OnlySock /\ UNCHANGED backlog
  BY DEF Ask, At
<1>2. PICK n \in NGrams :
        IF sock[k].closedDown
        THEN /\ client' = [client EXCEPT ![k].pc = "dead"]
             /\ sock' = [sock EXCEPT ![k].closedUp = TRUE]
        ELSE /\ client' = [client EXCEPT ![k].pc = "read", ![k].ngram = n,
                             ![k].asks = @ + 1, ![k].cnt = 0, ![k].res = junk]
             /\ sock' = [sock EXCEPT ![k].up = @ \o <<n, EOL>>]
  BY DEF Ask
<1>3. /\ client[k] \in Decoders /\ sock[k] \in Socks /\ client \in [Clients -> Decoders]
      /\ sock \in [Clients -> Socks]
  BY ClientTyped DEF IInv, ClientTypes, ServerTypes
<1>4. CASE sock[k].closedDown
  <2> DEFINE me == [client[k] EXCEPT !.pc = "dead"]
             s  == [sock[k] EXCEPT !.closedUp = TRUE]
  <2>1. client' = [client EXCEPT ![k] = me] /\ sock' = [sock EXCEPT ![k] = s]
    BY <1>2, <1>4
  <2>2. s \in Socks
    BY <1>3 DEF Socks
  <2>3. /\ me \in Decoders /\ me.pc = "dead" /\ me.torn = client[k].torn
        /\ me.cache = client[k].cache /\ ~Relies(me)
    BY <1>3 DEF Decoders, Relies
  <2> HIDE DEF me, s
  <2>4. QED
    BY <1>1, <2>1, <2>2, <2>3, ClientTyped, ClientStep
<1>5. CASE ~sock[k].closedDown
  <2> DEFINE asks == client[k].asks + 1
             me == [client[k] EXCEPT !.pc = "read", !.ngram = n, !.asks = asks,
                                     !.cnt = 0, !.res = junk]
             up == sock[k].up \o <<n, EOL>>
             s  == [sock[k] EXCEPT !.up = up]
  <2>1. client' = [client EXCEPT ![k] = me] /\ sock' = [sock EXCEPT ![k] = s]
    <3>1. client' = [client EXCEPT ![k] = me]
      BY <1>2, <1>5
    <3>2. sock' = [sock EXCEPT ![k] = s]
      BY <1>2, <1>5
    <3>3. QED
      BY <3>1, <3>2
  <2>2. up \in Seq(Symbols)
    <3>1. <<n, EOL>> \in Seq(Symbols)
      BY DEF Symbols
    <3>2. sock[k].up \in Seq(Symbols)
      BY <1>3 DEF Socks
    <3>3. QED
      BY <3>1, <3>2, ConcatProperties
  <2>3. junk \in Seq(ReplyBytes) /\ Len(junk) = ReplySize
    BY DEF ReplyBytes, Scores, Junk, ReplySize
  <2>4. asks \in Nat
    <3>1. client[k].asks \in Nat
      BY <1>3 DEF Decoders
    <3>2. QED
      BY <3>1
  <2> HIDE DEF up, junk, asks
  <2>5. /\ s \in Socks /\ s.up = up /\ s.down = sock[k].down
        /\ s.closedUp = sock[k].closedUp
    BY <1>3, <2>2 DEF Socks
  <2>6. /\ me \in Decoders /\ me.pc = "read" /\ me.ngram = n /\ me.cnt = 0 /\ me.res = junk
        /\ me.torn = client[k].torn /\ me.cache = client[k].cache
    <3>1. 0 \in 0 .. ReplySize - 1 /\ n \in NGrams
      BY <1>2 DEF ReplySize
    <3>2. QED
      BY <1>3, <2>3, <2>4, <3>1 DEF Decoders
  <2> HIDE DEF me, s
  <2>7. ASSUME Relies(me) PROVE Stream(fds, conns, s, k, me)
    <3>1. Relies(client[k])
      BY <1>1, <2>6, <2>7 DEF Relies
    <3>2. /\ ~sock[k].closedUp /\ Quiet(fds, conns, sock[k], k) /\ sock[k].down = <<>>
      BY <1>1, <3>1, ClientTyped DEF Stream
    <3>3. sock[k].up = <<>>
      BY <3>2 DEF Quiet
    <3>4. up = <<n, EOL>>
      <4>1. <<n, EOL>> \in Seq(Symbols)
        BY DEF Symbols
      <4>2. <<>> \o <<n, EOL>> = <<n, EOL>>
        BY <4>1, ConcatEmptySeq
      <4>3. QED
        BY <3>3, <4>2 DEF up
    <3>5. Requested(fds, conns, s, k, n)
      BY <2>5, <3>2, <3>4 DEF Requested, Quiet
    <3>6. QED
      BY <2>5, <2>6, <3>2, <3>5 DEF Stream
  <2>8. QED
    BY <1>1, <2>1, <2>3, <2>5, <2>6, <2>7, ClientTyped, ClientStep
<1>6. QED
  BY <1>4, <1>5

LEMMA StoredTyped ==
  ASSUME NEW k,
         sock[k].down \in Seq(ReplyBytes), client[k].res \in Seq(ReplyBytes),
         Len(client[k].res) = ReplySize, client[k].cnt \in 0 .. ReplySize - 1,
         NEW n \in 0 .. Len(sock[k].down), client[k].cnt + n <= ReplySize
  PROVE  /\ Stored(k, n) \in Seq(ReplyBytes) /\ Len(Stored(k, n)) = ReplySize
         /\ After(sock[k].down, n) \in Seq(ReplyBytes)
<1> DEFINE down == sock[k].down
           res  == client[k].res
           cnt  == client[k].cnt
<1>1. /\ down \in Seq(ReplyBytes) /\ res \in Seq(ReplyBytes) /\ Len(res) = ReplySize
      /\ cnt \in Nat /\ n \in Nat /\ n \in 0 .. Len(down)
  BY DEF ReplySize
<1>2. Stored(k, n) = [i \in 1 .. ReplySize |-> IF i \in cnt + 1 .. cnt + n
                                                THEN down[i - cnt] ELSE res[i]]
  BY DEF Stored
<1> HIDE DEF down, res, cnt
<1>3. ASSUME NEW i \in 1 .. ReplySize
      PROVE  (IF i \in cnt + 1 .. cnt + n THEN down[i - cnt] ELSE res[i]) \in ReplyBytes
  <2>1. i \in cnt + 1 .. cnt + n => i - cnt \in 1 .. Len(down)
    BY <1>1
  <2>2. QED
    BY <1>1, <2>1, ElementOfSeq
<1>4. Stored(k, n) \in [1 .. ReplySize -> ReplyBytes]
  BY <1>2, <1>3
<1>5. Stored(k, n) \in Seq(ReplyBytes) /\ Len(Stored(k, n)) = ReplySize
  <2>1. PICK f : f = Stored(k, n)
    OBVIOUS
  <2>2. f \in [1 .. ReplySize -> ReplyBytes] /\ ReplySize \in Nat
    BY <1>4, <2>1 DEF ReplySize
  <2>3. f \in Seq(ReplyBytes)
    BY <2>2, SeqDef
  <2>4. Len(f) = ReplySize
    <3>1. DOMAIN f = 1 .. ReplySize
      BY <2>2
    <3>2. QED
      BY <2>2, <2>3, <3>1, LenProperties
  <2>5. QED
    BY <2>1, <2>3, <2>4
<1>6. After(down, n) \in Seq(ReplyBytes)
  <2>1. down \in Seq(ReplyBytes) /\ n \in 0 .. Len(down)
    BY <1>1
  <2>2. QED
    BY ONLY <2>1, AfterTyped
<1>7. QED
  BY <1>5, <1>6 DEF down

\* What a read returns is there, and fits.
LEMMA ChunksTyped ==
  ASSUME IInv, NEW k \in Clients, client[k].pc \in {"read", "read more"}, NEW n \in Chunks(k)
  PROVE  /\ n \in 0 .. ReplySize /\ n \in 0 .. Len(sock[k].down)
         /\ client[k].cnt + n <= ReplySize
         /\ Stored(k, n) \in Seq(ReplyBytes) /\ Len(Stored(k, n)) = ReplySize
         /\ After(sock[k].down, n) \in Seq(ReplyBytes)
<1> DEFINE down == sock[k].down
           res  == client[k].res
           cnt  == client[k].cnt
<1>1. /\ down \in Seq(ReplyBytes) /\ Len(down) \in Nat
      /\ res \in Seq(ReplyBytes) /\ Len(res) = ReplySize
      /\ cnt \in 0 .. ReplySize - 1
  <2>1. client[k] \in Decoders /\ sock[k] \in Socks /\ Len(client[k].res) = ReplySize
    BY ClientTyped
  <2>2. down \in Seq(ReplyBytes)
    BY <2>1 DEF Socks
  <2>3. QED
    BY <2>1, <2>2, LenProperties DEF Decoders
<1>5. Len(down) \in Nat /\ cnt \in 0 .. ReplySize - 1
  BY <1>1
<1>2. CASE down # <<>>
  <2>1. n \in 1 .. Min({ReplySize - cnt, Len(down)})
    BY <1>2 DEF Chunks
  <2> HIDE DEF down, cnt
  <2>2. /\ Min({ReplySize - cnt, Len(down)}) \in Int
        /\ Min({ReplySize - cnt, Len(down)}) <= ReplySize - cnt
        /\ Min({ReplySize - cnt, Len(down)}) <= Len(down)
    <3>1. ReplySize - cnt \in Int /\ Len(down) \in Int
      BY ONLY <1>5 DEF ReplySize
    <3>2. QED
      BY <3>1, LeastOfTwo
  <2>3. n \in 0 .. ReplySize /\ n \in 0 .. Len(down) /\ cnt + n <= ReplySize
    BY ONLY <1>5, <2>1, <2>2 DEF ReplySize
  <2>4. QED
    BY <1>1, <2>3, StoredTyped DEF down, cnt
<1>3. CASE down = <<>>
  <2>1. n = 0
    BY <1>3 DEF Chunks
  <2> HIDE DEF down, cnt
  <2>3. n \in 0 .. ReplySize /\ n \in 0 .. Len(down) /\ cnt + n <= ReplySize
    BY ONLY <1>5, <2>1 DEF ReplySize
  <2>4. QED
    BY <1>1, <2>3, StoredTyped DEF down, cnt
<1>4. QED
  BY <1>2, <1>3

LEMMA ReadLoopTyped ==
  ASSUME NEW me \in Decoders, me.ngram \in NGrams, Len(me.res) = ReplySize
  PROVE  /\ ReadLoop(me) \in Decoders /\ ReadLoop(me).torn = me.torn
         /\ ReadLoop(me).pc \in {"ready", "undefined", "read more"}
         /\ ReadLoop(me).pc = "read more" =>
              ReadLoop(me).ngram = me.ngram /\ ReadLoop(me).res = me.res
         /\ me.cnt + me.r = ReplySize =>
              /\ ReadLoop(me).pc = "ready"
              /\ ReadLoop(me).cache = [me.cache EXCEPT ![me.ngram] = Value(me.res)]
<1> DEFINE cnt   == me.cnt + me.r
           ended == me.r = 0 \/ IsNewline(me.res[me.cnt + 1]) \/ cnt = ReplySize
           cache == [me.cache EXCEPT ![me.ngram] = Value(me.res)]
<1>1. cnt \in Nat /\ 0 \in 0 .. ReplySize /\ 0 \in 0 .. ReplySize - 1
  <2>1. me.cnt \in 0 .. ReplySize - 1 /\ me.r \in 0 .. ReplySize
    BY DEF Decoders
  <2>2. QED
    BY <2>1 DEF ReplySize
<1>2. cache \in [NGrams -> Scores \cup {Garbled}]
  <2>1. me.res \in Seq(ReplyBytes) /\ 1 \in 1 .. Len(me.res)
    <3>1. me.res \in Seq(ReplyBytes)
      BY DEF Decoders
    <3>2. 1 \in 1 .. Len(me.res)
      BY DEF ReplySize
    <3>3. QED
      BY <3>1, <3>2
  <2>2. me.res[1] \in ReplyBytes
    BY <2>1, ElementOfSeq
  <2>3. Value(me.res) \in Scores \cup {Garbled}
    BY <2>2 DEF Value, ReplyBytes
  <2>4. me.cache \in [NGrams -> Scores \cup {Garbled}]
    BY DEF Decoders
  <2>5. QED
    BY <2>3, <2>4
<1>3. <<>> \in Seq(ReplyBytes)
  OBVIOUS
<1>4. CASE ended
  <2>1. ReadLoop(me) = [me EXCEPT !.pc = "ready", !.cache = cache,
                                  !.ngram = None, !.res = <<>>, !.r = 0, !.cnt = 0]
    BY <1>4 DEF ReadLoop
  <2> HIDE DEF cache
  <2>2. /\ ReadLoop(me) \in Decoders /\ ReadLoop(me).torn = me.torn
        /\ ReadLoop(me).pc = "ready" /\ ReadLoop(me).cache = cache
    BY <1>1, <1>2, <1>3, <2>1 DEF Decoders
  <2>3. QED
    BY <2>2 DEF cache
<1>5. CASE ~ended /\ cnt > ReplySize
  <2>1. ReadLoop(me) = [me EXCEPT !.pc = "undefined", !.res = <<>>]
    BY <1>5 DEF ReadLoop
  <2>2. /\ ReadLoop(me) \in Decoders /\ ReadLoop(me).torn = me.torn
        /\ ReadLoop(me).pc = "undefined"
    BY <1>3, <2>1 DEF Decoders
  <2>3. QED
    BY <1>5, <2>2
<1>6. CASE ~ended /\ ~(cnt > ReplySize)
  <2>1. ReadLoop(me) = [me EXCEPT !.pc = "read more", !.cnt = cnt]
    BY <1>6 DEF ReadLoop
  <2>2. cnt \in 0 .. ReplySize - 1
    <3>1. cnt # ReplySize /\ ~(cnt > ReplySize)
      BY <1>6
    <3> HIDE DEF cnt
    <3>2. QED
      BY <1>1, <3>1 DEF ReplySize
  <2> HIDE DEF cnt
  <2>3. /\ ReadLoop(me) \in Decoders /\ ReadLoop(me).torn = me.torn
        /\ ReadLoop(me).pc = "read more"
        /\ ReadLoop(me).ngram = me.ngram /\ ReadLoop(me).res = me.res
    BY <2>1, <2>2 DEF Decoders
  <2>4. QED
    BY <1>6, <2>3 DEF cnt
<1>7. QED
  BY <1>4, <1>5, <1>6

\* A reply that is read by one call is read as what was sent.
LEMMA WholeReply ==
  ASSUME NEW k, NEW score \in Scores, client[k].cnt = 0,
         sock[k].down = Sent(score, ReplySize)
  PROVE  /\ Value(Stored(k, ReplySize)) = score
         /\ After(sock[k].down, ReplySize) = <<>>
<1>1. /\ sock[k].down \in Seq(ReplyBytes) /\ Len(sock[k].down) = ReplySize
      /\ \A i \in 1 .. ReplySize : sock[k].down[i] = <<score, i - 1>>
  <2>1. ReplySize \in 0 .. ReplySize /\ ReplySize - ReplySize = 0
    BY DEF ReplySize
  <2>2. /\ Sent(score, ReplySize) \in Seq(ReplyBytes)
        /\ Len(Sent(score, ReplySize)) = ReplySize
        /\ \A i \in 1 .. ReplySize : Sent(score, ReplySize)[i] = <<score, i - 1>>
    BY ONLY <2>1, score \in Scores, SentAndRest
  <2>3. QED
    BY <2>2
<1>2. Stored(k, ReplySize) =
        [i \in 1 .. ReplySize |-> IF i \in 0 + 1 .. 0 + ReplySize
                                  THEN sock[k].down[i - 0] ELSE client[k].res[i]]
  BY DEF Stored
<1>3. \A i \in 1 .. 4 : Stored(k, ReplySize)[i] = <<score, i - 1>>
  <2>1. ASSUME NEW i \in 1 .. 4 PROVE Stored(k, ReplySize)[i] = <<score, i - 1>>
    <3>1. i \in 1 .. ReplySize /\ i \in 0 + 1 .. 0 + ReplySize /\ i - 0 = i
      BY DEF ReplySize
    <3>2. Stored(k, ReplySize)[i] = sock[k].down[i]
      BY <1>2, <3>1
    <3>3. QED
      BY <1>1, <3>1, <3>2
  <2>2. QED
    BY <2>1
<1>4. Value(Stored(k, ReplySize)) = score
  <2>1. PICK res : res = Stored(k, ReplySize)
    OBVIOUS
  <2>2. \A i \in 1 .. 4 : res[i] = <<score, i - 1>>
    BY <1>3, <2>1
  <2>3. res[1][1] = score
    <3>1. 1 \in 1 .. 4
      OBVIOUS
    <3>2. res[1] = <<score, 1 - 1>>
      BY <2>2, <3>1
    <3>3. QED
      BY <3>2
  <2>4. Value(res) = score
    BY <2>2, <2>3 DEF Value
  <2>5. QED
    BY <2>1, <2>4
<1>5. After(sock[k].down, ReplySize) = <<>>
  <2>1. PICK s \in Seq(ReplyBytes) : s = sock[k].down /\ Len(s) = ReplySize
    BY <1>1
  <2>2. ReplySize \in 0 .. Len(s) /\ Len(s) - ReplySize = 0
    <3>1. Len(s) = ReplySize
      BY <2>1
    <3>2. QED
      BY ONLY <3>1 DEF ReplySize
  <2>3. After(s, ReplySize) \in Seq(ReplyBytes) /\ Len(After(s, ReplySize)) = 0
    BY <2>2, AfterTyped
  <2>4. After(s, ReplySize) = <<>>
    BY <2>3, Nothing
  <2>5. QED
    BY <2>1, <2>4
<1>6. QED
  BY <1>4, <1>5

\* A decoder that reads ReplySize bytes at once reads the reply.
LEMMA ReplyRead ==
  ASSUME IInv, NEW k \in Clients, Relies(client[k]), client[k].pc = "read",
         ReplySize \in Chunks(k)
  PROVE  /\ Quiet(fds, conns, sock[k], k) /\ client[k].cnt = 0 /\ ~sock[k].closedUp
         /\ sock[k].down = Sent(Score(client[k].ngram), ReplySize)
<1> DEFINE g == client[k].ngram
<1>1. /\ Stream(fds, conns, sock[k], k, client[k]) /\ g \in NGrams
  BY ClientTyped
<1>2. ReplySize \in 0 .. Len(sock[k].down)
  BY ChunksTyped
<1>3. Score(g) \in Scores
  BY <1>1 DEF Scores, Symbols
<1>4. ~Requested(fds, conns, sock[k], k, g) /\ ~HalfRead(fds, conns, sock[k], k, g)
  <2>1. sock[k].down # <<>>
    <3>1. ASSUME sock[k].down = <<>> PROVE FALSE
      <4>1. Len(sock[k].down) = 0
        BY <3>1
      <4>2. QED
        BY <1>2, <4>1 DEF ReplySize
    <3>2. QED
      BY <3>1
  <2>2. QED
    BY <2>1 DEF Requested, HalfRead
<1>5. ~Replying(fds, conns, sock[k], k, g)
  <2>1. ASSUME NEW m \in 0 .. ReplySize - 1, sock[k].down = Sent(Score(g), m) PROVE FALSE
    <3>1. m \in 0 .. ReplySize /\ m < ReplySize
      BY DEF ReplySize
    <3>2. Len(sock[k].down) = m
      BY <1>3, <2>1, <3>1, SentAndRest
    <3>3. QED
      BY <1>2, <3>1, <3>2 DEF ReplySize
  <2>2. QED
    BY <2>1 DEF Replying
<1>6. QED
  BY <1>1, <1>4, <1>5 DEF Stream, Replied

LEMMA FirstReadKeeps ==
  ASSUME IInv, NEW k \in Clients, FirstRead(k)
  PROVE  IInv'
<1>1. client[k].pc = "read" /\ OnlySock /\ UNCHANGED backlog
  BY DEF FirstRead, At
<1>2. PICK n \in Chunks(k) :
        /\ client' = [client EXCEPT ![k] =
             ReadLoop([client[k] EXCEPT !.r = n, !.res = Stored(k, n),
                                        !.torn = @ \/ n # ReplySize])]
        /\ sock' = [sock EXCEPT ![k].down = After(@, n)]
  BY DEF FirstRead
<1> DEFINE stored == Stored(k, n)
           left   == After(sock[k].down, n)
           torn   == client[k].torn \/ n # ReplySize
           read   == [client[k] EXCEPT !.r = n, !.res = stored, !.torn = torn]
           me     == ReadLoop(read)
           s      == [sock[k] EXCEPT !.down = left]
<1>3. client' = [client EXCEPT ![k] = me]
  BY <1>2
<1>4. sock' = [sock EXCEPT ![k] = s]
  BY <1>2
<1>5. /\ client[k] \in Decoders /\ sock[k] \in Socks /\ client[k].ngram \in NGrams
  BY <1>1, ClientTyped
<1>6. /\ n \in 0 .. ReplySize /\ stored \in Seq(ReplyBytes) /\ Len(stored) = ReplySize
      /\ left \in Seq(ReplyBytes)
  BY <1>1, <1>2, ChunksTyped
<1>7. n \in Chunks(k)
  BY <1>2
<1> HIDE DEF stored, left
<1>8. torn \in BOOLEAN
  OBVIOUS
<1>9. torn \/ (~client[k].torn /\ n = ReplySize)
  OBVIOUS
<1> HIDE DEF torn
<1>10. /\ read \in Decoders /\ read.r = n /\ read.res = stored /\ read.torn = torn
       /\ read.ngram = client[k].ngram /\ read.cnt = client[k].cnt
       /\ read.cache = client[k].cache
  BY <1>5, <1>6, <1>8 DEF Decoders
<1> HIDE DEF read
<1>11. /\ me \in Decoders /\ me.torn = torn
       /\ me.pc \in {"ready", "undefined", "read more"}
       /\ me.pc = "read more" => me.ngram = client[k].ngram /\ me.res = stored
       /\ client[k].cnt + n = ReplySize =>
            /\ me.pc = "ready"
            /\ me.cache = [client[k].cache EXCEPT ![client[k].ngram] = Value(stored)]
  BY <1>5, <1>6, <1>10, ReadLoopTyped
<1> HIDE DEF me
<1>12. s \in Socks /\ s.up = sock[k].up /\ s.down = left /\ s.closedUp = sock[k].closedUp
  BY <1>5, <1>6 DEF Socks
<1> HIDE DEF s
<1>13. CASE torn
  <2>1. ~Relies(me)
    BY <1>11, <1>13 DEF Relies
  <2>2. QED
    BY <1>1, <1>3, <1>4, <1>5, <1>6, <1>11, <1>12, <1>13, <2>1, ClientStep
<1>14. CASE ~client[k].torn /\ n = ReplySize
  <2> DEFINE g == client[k].ngram
  <2>1. Relies(client[k])
    BY <1>1, <1>14 DEF Relies
  <2>2. /\ Quiet(fds, conns, sock[k], k) /\ client[k].cnt = 0 /\ ~sock[k].closedUp
        /\ sock[k].down = Sent(Score(g), ReplySize)
    BY <1>1, <1>7, <1>14, <2>1, ReplyRead
  <2>3. Score(g) \in Scores
    BY <1>5 DEF Scores, Symbols
  <2>4. Value(stored) = Score(g) /\ left = <<>>
    BY <1>14, <2>2, <2>3, WholeReply DEF stored, left
  <2>5. /\ me.pc = "ready" /\ me.cache = [client[k].cache EXCEPT ![g] = Score(g)]
    <3>1. 0 + ReplySize = ReplySize
      BY DEF ReplySize
    <3>2. QED
      BY <1>11, <1>14, <2>2, <2>4, <3>1
  <2>6. Relies(me) => Stream(fds, conns, s, k, me)
    <3>1. Quiet(fds, conns, s, k) /\ s.down = <<>> /\ ~s.closedUp
      BY <1>12, <2>2, <2>4 DEF Quiet
    <3>2. QED
      BY <2>5, <3>1 DEF Stream
  <2>7. \A x \in NGrams : me.cache[x] \in {0, Score(x)}
    <3>1. \A x \in NGrams : client[k].cache[x] \in {0, Score(x)}
      BY <1>14, ClientTyped
    <3>2. client[k].cache \in [NGrams -> Scores \cup {Garbled}]
      BY <1>5 DEF Decoders
    <3>3. \A x \in NGrams : me.cache[x] = IF x = g THEN Score(g) ELSE client[k].cache[x]
      BY <2>5, <3>2
    <3>4. QED
      BY <3>1, <3>3
  <2>8. QED
    BY <1>1, <1>3, <1>4, <1>11, <1>12, <2>5, <2>6, <2>7, ClientStep
<1>15. QED
  BY <1>9, <1>13, <1>14

\* Only a decoder whose reply came in pieces reads again.
LEMMA ReadMoreKeeps ==
  ASSUME IInv, NEW k \in Clients, ReadMore(k)
  PROVE  IInv'
<1>1. client[k].pc = "read more" /\ OnlySock /\ UNCHANGED backlog
  BY DEF ReadMore, At
<1>2. PICK n \in Chunks(k) :
        /\ client' = [client EXCEPT ![k] =
             ReadLoop([client[k] EXCEPT !.res = Stored(k, n)])]
        /\ sock' = [sock EXCEPT ![k].down = After(@, n)]
  BY DEF ReadMore
<1> DEFINE stored == Stored(k, n)
           left   == After(sock[k].down, n)
           read   == [client[k] EXCEPT !.res = stored]
           me     == ReadLoop(read)
           s      == [sock[k] EXCEPT !.down = left]
<1>3. client' = [client EXCEPT ![k] = me] /\ sock' = [sock EXCEPT ![k] = s]
  BY <1>2
<1>4. /\ client[k] \in Decoders /\ sock[k] \in Socks /\ client[k].ngram \in NGrams
      /\ client[k].torn
  <2>1. ~client[k].torn => client[k].pc # "read more"
    BY ClientTyped
  <2>2. client[k].torn \in BOOLEAN
    BY ClientTyped DEF Decoders
  <2>3. QED
    BY <1>1, <2>1, <2>2, ClientTyped
<1>5. /\ stored \in Seq(ReplyBytes) /\ Len(stored) = ReplySize /\ left \in Seq(ReplyBytes)
  BY <1>1, <1>2, ChunksTyped
<1> HIDE DEF stored, left
<1>6. /\ read \in Decoders /\ read.res = stored /\ read.torn = client[k].torn
      /\ read.ngram = client[k].ngram
  BY <1>4, <1>5 DEF Decoders
<1> HIDE DEF read
<1>7. /\ me \in Decoders /\ me.torn /\ me.pc \in {"ready", "undefined", "read more"}
      /\ me.pc = "read more" => me.ngram = client[k].ngram /\ me.res = stored
  BY <1>4, <1>5, <1>6, ReadLoopTyped
<1> HIDE DEF me
<1>8. s \in Socks
  BY <1>4, <1>5 DEF Socks
<1> HIDE DEF s
<1>9. ~Relies(me)
  BY <1>7 DEF Relies
<1>10. QED
  BY <1>1, <1>3, <1>4, <1>5, <1>7, <1>8, <1>9, ClientStep

------------------------------------------------------------------------------
(****************************************************************************)
(* The theorems.                                                            *)
(****************************************************************************)
LEMMA Initially ==
  ASSUME Init
  PROVE  IInv
<1>0. /\ settings \in Settings
      /\ alive = TRUE /\ accepting = TRUE /\ backlog = <<>>
      /\ fds = [f \in Fds |-> None]
      /\ queue = [t \in Threads |-> <<>>] /\ pipe = [t \in Threads |-> 0]
      /\ last_thread = NoThread /\ notify = NoThread
      /\ conns = [c \in ConnIds |-> NewConn] /\ conn_structs = 0 /\ freeconns = <<>>
      /\ run = [t \in Threads |-> Idle]
      /\ sock = [k \in Clients |-> NewSock]
      /\ client = [k \in Clients |-> NewClient]
  BY DEF Init, ServerInit, NoThread
<1>1. settings.maxfds + settings.threads \in Nat
  BY <1>0, SettingsTyped
<1>2. NewConn \in Conns /\ NewConn.state = None /\ NewConn.event = None /\ ~InUse(NewConn)
  BY DEF NewConn, Conns, Scores, NoThread, InUse
<1>3. NewSock \in Socks /\ NewSock.up = <<>> /\ NewSock.down = <<>> /\ ~NewSock.closedUp
  BY DEF NewSock, Socks
<1>4. /\ NewClient \in Decoders /\ NewClient.pc = "start"
      /\ \A n \in NGrams : NewClient.cache[n] = 0
  <2>1. 0 \in 0 .. ReplySize /\ 0 \in 0 .. ReplySize - 1
    BY DEF ReplySize
  <2>2. [n \in NGrams |-> 0] \in [NGrams -> Scores \cup {Garbled}]
    BY DEF Scores
  <2>3. QED
    BY <2>1, <2>2 DEF NewClient, Decoders
<1>5. ServerTypes
  <2>1. <<>> \in Seq(Clients) /\ <<>> \in Seq(Fds) /\ <<>> \in Seq(ConnIds)
    OBVIOUS
  <2>2. /\ fds \in [Fds -> Clients \cup {None}] /\ queue \in [Threads -> Seq(Fds)]
        /\ pipe \in [Threads -> Nat] /\ conns \in [ConnIds -> Conns]
        /\ run \in [Threads -> ConnIds \cup {Idle, Listener}] /\ sock \in [Clients -> Socks]
    BY <1>0, <1>2, <1>3, <2>1
  <2>3. conn_structs \in 0 .. settings.maxfds + settings.threads
    BY <1>0, <1>1
  <2>4. QED
    BY <1>0, <2>1, <2>2, <2>3 DEF ServerTypes
<1>6. ClientTypes
  BY <1>0, <1>4 DEF ClientTypes
<1>7. Structures
  <2>1. 1 .. Len(freeconns) = {} /\ 1 .. conn_structs = {}
    <3>1. Len(freeconns) = 0
      BY <1>0
    <3>2. QED
      BY <1>0, <3>1
  <2>2. QED
    BY <1>0, <1>2, <2>1 DEF Structures
<1>8. Driven
  <2>1. Idle \notin ConnIds
    <3>1. ConnIds \subseteq Nat \ {0}
      BY <1>0, SettingsTyped
    <3>2. QED
      BY <3>1 DEF Idle
  <2>2. QED
    BY <1>0, <1>2, <2>1 DEF Driven, InUse, None
<1>9. Descriptors
  <2>1. \A t \in Threads : 1 .. Len(queue[t]) = {}
    <3>1. \A t \in Threads : Len(queue[t]) = 0
      BY <1>0
    <3>2. QED
      BY <3>1
  <2>2. (\A f \in Fds : fds[f] = None) /\ (\A c \in ConnIds : ~InUse(conns[c]))
    BY <1>0, <1>2
  <2>3. QED
    BY <2>1, <2>2 DEF Descriptors
<1>10. ClientsApart
  <2>1. 1 .. Len(backlog) = {}
    <3>1. Len(backlog) = 0
      BY <1>0
    <3>2. QED
      BY <3>1
  <2>2. \A f \in Fds : fds[f] = None
    BY <1>0
  <2>3. QED
    BY <2>1, <2>2, ServerAssumption DEF ClientsApart
<1>11. Streams
  <2>1. ASSUME NEW k \in Clients
        PROVE  Stream(fds, conns, sock[k], k, client[k]) /\ client[k].pc = "start"
    <3>1. DOMAIN conns = ConnIds /\ (\A c \in ConnIds : ~InUse(conns[c]))
      BY <1>0, <1>2
    <3>2. Quiet(fds, conns, sock[k], k)
      BY <1>0, <1>3, <3>1 DEF Quiet, Serves
    <3>3. client[k].pc = "start" /\ sock[k].down = <<>> /\ ~sock[k].closedUp
      BY <1>0, <1>3, <1>4
    <3>4. QED
      BY <3>2, <3>3 DEF Stream
  <2>2. QED
    BY <2>1 DEF Streams
<1>12. ScoresTrue
  BY <1>0, <1>4 DEF ScoresTrue
<1>13. QED
  BY <1>5, <1>6, <1>7, <1>8, <1>9, <1>10, <1>11, <1>12 DEF IInv

LEMMA NextKeeps ==
  ASSUME IInv, [Next]_vars
  PROVE  IInv'
<1>1. CASE Server \/ ServerCrashes
  BY <1>1, ServerKeeps
<1>2. CASE \E k \in Clients :
            Connect(k) \/ ConnectFails(k) \/ GetValue(k) \/ Close(k) \/ DecoderCrashes(k)
  <2>1. PICK k \in Clients :
          Connect(k) \/ ConnectFails(k) \/ GetValue(k) \/ Close(k) \/ DecoderCrashes(k)
    BY <1>2
  <2>2. CASE GetValue(k)
    BY <2>2, AskKeeps, FirstReadKeeps, ReadMoreKeeps, LeavingKeeps DEF GetValue
  <2>3. QED
    BY <2>1, <2>2, ConnectKeeps, ConnectFailsKeeps, LeavingKeeps
<1>3. CASE UNCHANGED vars
  <2>1. UNCHANGED <<settings, alive, accepting, backlog, fds, queue, pipe, last_thread,
                    notify, conns, conn_structs, freeconns, run, sock, client>>
    BY <1>3 DEF vars, serverVars
  <2>2. Threads' = Threads /\ Fds' = Fds /\ ConnIds' = ConnIds /\ Conns' = Conns
    BY <2>1, SameSets
  <2>3. ServerTypes' /\ ClientTypes'
    BY <2>1, <2>2 DEF IInv, ServerTypes, ClientTypes
  <2>4. Structures' /\ Driven' /\ Descriptors' /\ ClientsApart' /\ Streams' /\ ScoresTrue'
    BY <2>1, OwnersFrame DEF IInv
  <2>5. QED
    BY <2>3, <2>4 DEF IInv
<1>4. QED
  BY <1>1, <1>2, <1>3 DEF Next

\* The inductive invariant.
LEMMA Inductive == Spec => []IInv
<1>1. Init => IInv
  BY Initially
<1>2. IInv /\ [Next]_vars => IInv'
  BY NextKeeps
<1>3. QED
  BY <1>1, <1>2, PTL DEF Spec

\* A decoder whose replies came in one piece has, for each n-gram, the score
\* of that n-gram: whatever threads, structures and descriptors served it, and
\* whatever crashed meanwhile (LanguageModelRemote.cpp, GetValue; lmserver.c,
\* drive_machine).
THEOREM RepliesMatch == Spec => []ScoresTrue
<1>1. IInv => ScoresTrue
  BY DEF IInv
<1>2. QED
  BY <1>1, Inductive, PTL

\* A sequence that repeats nothing has as many elements as it is long.
LEMMA CountDistinct ==
  ASSUME NEW S, NEW s \in Seq(S),
         \A i, j \in 1 .. Len(s) : s[i] = s[j] => i = j
  PROVE  Cardinality(Range(s)) = Len(s)
<1> DEFINE D == 1 .. Len(s)
<1>1. Len(s) \in Nat /\ DOMAIN s = D
  BY LenProperties
<1>2. IsFiniteSet(D) /\ Cardinality(D) = Len(s)
  <2>1. 1 \in Int /\ Len(s) \in Int
    BY <1>1
  <2>2. /\ IsFiniteSet(D) /\ Cardinality(D) = IF 1 > Len(s) THEN 0 ELSE Len(s) - 1 + 1
    BY <2>1, FS_Interval
  <2>3. QED
    BY <1>1, <2>2
<1>3. Range(s) = {s[i] : i \in D}
  BY <1>1 DEF Range
<1> HIDE DEF D
<1>4. ExistsBijection(D, Range(s))
  <2> DEFINE g == [i \in D |-> s[i]]
  <2>1. \A i, j \in D : s[i] = s[j] => i = j
    BY DEF D
  <2>2. g \in Bijection(D, Range(s))
    BY <1>3, <2>1 DEF Bijection, Injection, Surjection, IsInjective
  <2>3. QED
    BY <2>2 DEF ExistsBijection
<1>5. QED
  BY <1>2, <1>4, FS_Bijection

LEMMA OwnedOnce ==
  ASSUME IInv
  PROVE  ConnsOwned
<1> DEFINE Open   == {f \in Fds : fds[f] # None}
           Used   == {c \in ConnIds : conns[c].state \notin {None, "closed"}}
           Closed == {c \in ConnIds : conns[c].state = "closed"}
           Queued == UNION {Range(queue[t]) : t \in Threads}
           FdsOf  == {conns[c].fd : c \in Used}
<1>1. /\ ServerTypes /\ Structures /\ Driven /\ Descriptors
  BY DEF IInv
<1>2. /\ IsFiniteSet(Fds) /\ IsFiniteSet(ConnIds)
      /\ conn_structs \in Nat /\ 1 .. conn_structs \subseteq ConnIds
  BY <1>1, SettingsTyped DEF ServerTypes, ConnIds
<1>3. \A c \in ConnIds : c \in Used <=> InUse(conns[c])
  BY DEF InUse
<1>4. \A f : f \in Queued <=> \E t \in Threads : \E i \in 1 .. Len(queue[t]) : queue[t][i] = f
  <2>1. \A t \in Threads : DOMAIN queue[t] = 1 .. Len(queue[t])
    BY <1>1, LenProperties DEF ServerTypes
  <2>2. QED
    BY <2>1 DEF Range
<1>5. \A t \in Threads : \A i \in 1 .. Len(queue[t]) : queue[t][i] \in Fds
  BY <1>1, ElementOfSeq DEF ServerTypes
<1> HIDE DEF Used, Queued
<1>6. Used \subseteq ConnIds
  BY DEF Used
<1>7. FdsOf \cup Queued = Open
  <2>1. \A f \in FdsOf : f \in Open
    BY <1>1, <1>3, <1>6 DEF Descriptors
  <2>2. \A f \in Queued : f \in Open
    BY <1>1, <1>4, <1>5 DEF Descriptors
  <2>3. ASSUME NEW f \in Open PROVE f \in FdsOf \cup Queued
    <3>1. CASE \E c \in ConnIds : InUse(conns[c]) /\ conns[c].fd = f
      BY <1>3, <3>1
    <3>2. CASE \E t \in Threads : \E i \in 1 .. Len(queue[t]) : queue[t][i] = f
      BY <1>4, <3>2
    <3>3. QED
      BY <1>1, <2>3, <3>1, <3>2 DEF Descriptors
  <2>4. QED
    BY <2>1, <2>2, <2>3
<1>8. FdsOf \cap Queued = {}
  <2>1. \A c \in Used : conns[c].fd \notin Queued
    BY <1>1, <1>3, <1>4, <1>6 DEF Descriptors
  <2>2. QED
    BY <2>1
<1>9. IsFiniteSet(Used) /\ IsFiniteSet(Open)
  BY <1>2, <1>6, FS_Subset
<1>10. IsFiniteSet(FdsOf) /\ Cardinality(FdsOf) = Cardinality(Used)
  <2> DEFINE g == [c \in Used |-> conns[c].fd]
  <2>1. \A c, d \in Used : conns[c].fd = conns[d].fd => c = d
    BY <1>1, <1>3, <1>6 DEF Descriptors
  <2>2. g \in Bijection(Used, FdsOf)
    BY <2>1 DEF Bijection, Injection, Surjection, IsInjective
  <2>3. ExistsBijection(Used, FdsOf)
    BY <2>2 DEF ExistsBijection
  <2> HIDE DEF FdsOf
  <2>4. QED
    BY <1>9, <2>3, FS_Bijection
<1>11. Cardinality(Used) + Cardinality(Queued) = Cardinality(Open)
  <2> HIDE DEF FdsOf, Open
  <2>1. IsFiniteSet(Queued)
    <3>1. Queued \subseteq Open
      BY <1>7
    <3>2. QED
      BY <1>9, <3>1, FS_Subset
  <2>2. Cardinality(FdsOf \cup Queued)
          = Cardinality(FdsOf) + Cardinality(Queued) - Cardinality(FdsOf \cap Queued)
    BY <1>10, <2>1, FS_Union
  <2>3. Cardinality(FdsOf \cap Queued) = 0
    BY <1>8, FS_EmptySet
  <2>4. Cardinality(FdsOf) \in Nat /\ Cardinality(Queued) \in Nat
    BY <1>10, <2>1, FS_CardinalityType
  <2>5. Cardinality(Open) = Cardinality(FdsOf) + Cardinality(Queued)
    <3>1. Cardinality(Open) = Cardinality(FdsOf \cup Queued)
      BY <1>7
    <3>2. QED
      BY ONLY <2>2, <2>3, <2>4, <3>1
  <2>6. QED
    BY <1>10, <2>5
<1>12. Cardinality(Range(freeconns)) = Len(freeconns)
  <2>1. freeconns \in Seq(ConnIds)
    BY <1>1 DEF ServerTypes
  <2>2. \A i, j \in 1 .. Len(freeconns) : freeconns[i] = freeconns[j] => i = j
    BY <1>1 DEF Structures
  <2>3. QED
    BY <2>1, <2>2, CountDistinct
<1>13. Range(freeconns) = (1 .. conn_structs) \ (Used \cup Closed)
  <2>1. \A x : x \in Range(freeconns) <=> \E i \in 1 .. Len(freeconns) : freeconns[i] = x
    <3>1. DOMAIN freeconns = 1 .. Len(freeconns)
      BY <1>1, LenProperties DEF ServerTypes
    <3>2. QED
      BY <3>1 DEF Range
  <2>2. \A c \in ConnIds : c \in Used \cup Closed <=> conns[c].state # None
    BY DEF Used, None
  <2>3. ASSUME NEW i \in 1 .. Len(freeconns)
        PROVE  freeconns[i] \in 1 .. conn_structs /\ freeconns[i] \notin Used \cup Closed
    <3>1. freeconns[i] \in ConnIds
      BY <1>1, ElementOfSeq DEF ServerTypes
    <3>2. freeconns[i] <= conn_structs /\ conns[freeconns[i]].state = None
      BY <1>1 DEF Structures
    <3>3. freeconns[i] \in Nat \ {0}
      BY <1>1, <3>1, SettingsTyped DEF ServerTypes
    <3>4. freeconns[i] \in 1 .. conn_structs
      BY <1>2, <3>2, <3>3
    <3>5. QED
      BY <2>2, <3>1, <3>2, <3>4
  <2>4. ASSUME NEW c \in 1 .. conn_structs, c \notin Used \cup Closed
        PROVE  \E i \in 1 .. Len(freeconns) : freeconns[i] = c
    <3>1. c \in ConnIds /\ conns[c].state = None
      BY <1>2, <2>2, <2>4
    <3>2. QED
      BY <1>1, <3>1 DEF Structures
  <2>5. QED
    BY <2>1, <2>3, <2>4
<1>14. QED
  BY <1>7, <1>11, <1>12, <1>13 DEF ConnsOwned, Used, Queued

\* At every time each open descriptor waits in one queue or belongs to one
\* connection, and each structure is in use, about to be freed, or once on the
\* free list (thread.c, conn_new, conn_close, conn_add_to_freelist).
THEOREM OneOwner == Spec => []ConnsOwned
<1>1. IInv => ConnsOwned
  BY OwnedOnce
<1>2. QED
  BY <1>1, Inductive, PTL

\* The structures never run out: conn_new finds one on the free list, or there
\* were never more than the descriptors and threads, each of which can hold one.
\* So the finite set ConnIds leaves no step of the server out.
THEOREM StructuresSuffice ==
  Spec => [](\A t \in Threads :
               queue[t] # <<>> /\ freeconns = <<>> => conn_structs + 1 \in ConnIds)
<1>1. IInv => \A t \in Threads :
                queue[t] # <<>> /\ freeconns = <<>> => conn_structs + 1 \in ConnIds
  BY RoomForOne DEF IInv
<1>2. QED
  BY <1>1, Inductive, PTL
==============================================================================

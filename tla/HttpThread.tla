----------------------------- MODULE HttpThread ------------------------------
(***************************************************************************)
(* One HTTP thread (core/legacy_core_net.cpp, src/rxhttpthread.cpp,        *)
(* src/rxhttpresdataprocess.cpp): its epoll loop, the connections in its   *)
(* container, their request and response state machines, the replies the   *)
(* capture manager posts, and the idle timers.                             *)
(*                                                                         *)
(* A turn of the loop takes the objects that are ready, runs the handler   *)
(* of each, erases those whose handler threw, and checks the timers.  One  *)
(* handler is one action, except that the messages of a channel batch are  *)
(* handled one by one: clients, the listener and the manager go on in      *)
(* between.                                                                *)
(*                                                                         *)
(* Data: a request is a sequence of parts, a response one head unit and    *)
(* BodyLen body units; a unit carries the client whose request it answers. *)
(***************************************************************************)
EXTENDS Naturals, Sequences, FiniteSetsExt

CONSTANTS Clients,   \* each opens one connection
          Request,   \* the parts each client sends: "head", "body"
          Kind,      \* the handler of each client's request: "start", "stop", "status"
          BodyLen,   \* units of a response body
          SockRoom,  \* units a client's socket holds until the client reads
          IdleTime,  \* ticks until the NONE_DATA timer expires
          Blank      \* the head after reset(): it answers nobody

ASSUME HttpAssumption ==
  /\ Request \in [Clients -> Seq({"head", "body"})]
  /\ \A c \in Clients : Request[c] # <<>> /\ Head(Request[c]) = "head"
  /\ Kind \in [Clients -> {"start", "stop", "status"}]
  /\ BodyLen \in Nat \ {0} /\ SockRoom \in Nat \ {0}
  /\ IdleTime \in Nat \ {0}
  /\ Blank \notin Clients
  /\ IsFiniteSet(Clients)

VARIABLES client,   \* each client: "new", "open", "fin" (it closed), "rst" (it reset),
                    \* "closed" (the thread has closed the connection)
          sent,     \* parts each client has sent
          unread,   \* parts sent and not yet read by the thread
          wire,     \* history: the units each client's socket has accepted
          held,     \* how many of them the client has not read
          conn,     \* the connections in _obj_map, by object id
          nextId,   \* _id_str._id
          mailbox,  \* the thread's channel
          batch,    \* messages taken out of the channel and not yet handled
          phase,    \* where the loop is: "wait" in epoll_wait, "events" after it
          ready,    \* objects epoll_wait returned and not yet processed
          doomed,   \* exp_list
          timers,   \* _timer_list[0], _timer_list[1]: <<ticks left, object id>>
          current,  \* _current
          asked,    \* requests the manager has not answered
          replied   \* history: replies the manager has posted to each client

clientVars == <<client, sent, unread, wire, held>>
loopVars == <<batch, phase, ready, doomed>>
timerVars == <<timers, current>>
managerVars == <<asked, replied>>
vars == <<clientVars, conn, nextId, mailbox, loopVars, timerVars, managerVars>>

Channel == 0   \* the channel's connection among the ready objects

Init ==
  /\ client = [c \in Clients |-> "new"]
  /\ sent = [c \in Clients |-> 0]
  /\ unread = [c \in Clients |-> <<>>]
  /\ wire = [c \in Clients |-> <<>>]
  /\ held = [c \in Clients |-> 0]
  /\ conn = [id \in {} |-> 0]
  /\ nextId = 1
  /\ mailbox = <<>> /\ batch = <<>>
  /\ phase = "wait"
  /\ ready = {} /\ doomed = {}
  /\ timers = [i \in {0, 1} |-> {}]
  /\ current = 0
  /\ asked = <<>>
  /\ replied = [c \in Clients |-> 0]
-----------------------------------------------------------------------------
(* Outside the thread. *)

\* accept in the listen thread, which posts NORMAL_MSG_CONNECT.
ClientConnects(c) ==
  /\ client[c] = "new"
  /\ client' = [client EXCEPT ![c] = "open"]
  /\ mailbox' = Append(mailbox, [op |-> "connect", client |-> c])
  /\ UNCHANGED <<sent, unread, wire, held, conn, nextId, loopVars, timerVars, managerVars>>

ClientSends(c) ==
  /\ client[c] = "open"
  /\ sent[c] < Len(Request[c])
  /\ sent' = [sent EXCEPT ![c] = @ + 1]
  /\ unread' = [unread EXCEPT ![c] = Append(@, Request[c][sent[c] + 1])]
  /\ UNCHANGED <<client, wire, held, conn, nextId, mailbox, loopVars, timerVars, managerVars>>

ClientReads(c) ==
  /\ client[c] = "open"
  /\ held[c] > 0
  /\ held' = [held EXCEPT ![c] = 0]
  /\ UNCHANGED <<client, sent, unread, wire, conn, nextId, mailbox, loopVars, timerVars, managerVars>>

ClientLeaves(c, how) ==
  /\ client[c] = "open" \/ (client[c] = "fin" /\ how = "rst")
  /\ client' = [client EXCEPT ![c] = how]
  /\ UNCHANGED <<sent, unread, wire, held, conn, nextId, mailbox, loopVars, timerVars, managerVars>>

\* The manager answers its oldest request (send_reply_to_http).
ManagerReplies ==
  /\ asked # <<>>
  /\ LET q == Head(asked)
     IN  /\ mailbox' = Append(mailbox, [op |-> "reply", id |-> q.id, client |-> q.client])
         /\ replied' = [replied EXCEPT ![q.client] = @ + 1]
  /\ asked' = Tail(asked)
  /\ UNCHANGED <<clientVars, conn, nextId, loopVars, timerVars>>

\* Time passes: reach_time comes closer for every timer not yet due.
Tick ==
  /\ \E t \in timers[0] \cup timers[1] : t[1] > 0
  /\ timers' = [i \in {0, 1} |->
                 {<<IF t[1] > 0 THEN t[1] - 1 ELSE 0, t[2]>> : t \in timers[i]}]
  /\ UNCHANGED <<clientVars, conn, nextId, mailbox, loopVars, current, managerVars>>
-----------------------------------------------------------------------------
(* A connection: real_send and the response side of http_res_process.  s is  *)
(* the connection r with the units sent so far in this handler.              *)

NoBuf == <<>>       \* _p_send_buf is NULL; <<b>> if it points to b
BodyOf(c) == [i \in 1..BodyLen |-> <<c, "body">>]

\* get_send_buf: the head, then the body; after the body send_finish resets.
Pull(s) ==
  IF s.r.buf # NoBuf THEN s
  ELSE IF s.r.status = "send_head" /\ ~s.r.pending
  THEN [s EXCEPT !.r.buf = <<<<<<s.r.head, "head">>>>>>, !.r.status = "send_body"]
  ELSE IF s.r.status = "send_body"
  THEN [s EXCEPT !.r.buf = <<s.r.body>>, !.r.body = <<>>,
                 !.r.status = "recv_head", !.r.head = Blank]
  ELSE s

\* Mutant: the socket's limit is ignored.
PushAll(s) ==
  IF s.r.buf \in {NoBuf, <<<<>>>>} THEN s
  ELSE [s EXCEPT !.out = @ \o s.r.buf[1], !.r.buf = NoBuf]

\* SEND: as much as the socket takes.  A buffer that has been sent is deleted;
\* one that was empty from the start is not, and stays in the way.
Push(s) ==
  IF s.r.buf \in {NoBuf, <<<<>>>>} THEN s
  ELSE LET data == s.r.buf[1]
           n == Min({Len(data), s.room})
       IN  [s EXCEPT !.out = @ \o SubSeq(data, 1, n),
                     !.room = @ - n,
                     !.r.buf = IF n = Len(data) THEN NoBuf
                               ELSE <<SubSeq(data, n + 1, Len(data))>>]

\* The loop of real_send: what is left of a buffer, a head, a body.  EPOLLOUT is
\* cleared on every way out of it, so only notice_send ever calls it.
RealSend(s) == Push(Pull(Push(Pull(Push(s)))))

\* SEND is called at all, and throws if the peer has reset the connection.
Sends(s) == Pull(s).r.buf \notin {NoBuf, <<<<>>>>}

\* notify_send_ready: change_http_status(SEND_HEAD), notice_send.
NotifySendReady(s) == RealSend([s EXCEPT !.r.status = "send_head"])

Sending(id) ==
  [r |-> conn[id], out |-> <<>>, room |-> SockRoom - held[conn[id].client]]

\* The handler of connection id is done with result s.
Sent(id, s) ==
  LET c == s.r.client
  IN  /\ conn' = [conn EXCEPT ![id] = s.r]
      /\ wire' = [wire EXCEPT ![c] = @ \o s.out]
      /\ held' = [held EXCEPT ![c] = @ + Len(s.out)]
-----------------------------------------------------------------------------
(* The request side. *)

CountOf(part, seq) == Cardinality({i \in DOMAIN seq : seq[i] = part})

Readable(id) ==
  LET c == conn[id].client IN unread[c] # <<>> \/ client[c] \in {"fin", "rst"}

\* Mutant: the connection does not note that the answer comes later.
AskManagerSynchronously(s) == s

\* perform has posted to the manager: the answer comes later.
AskManager(s) == [s EXCEPT !.r.pending = TRUE]

\* perform answers at once, and recv_finish announces a response once more after
\* msg_recv_finish has sent this one.
AnswerAtOnce(s) ==
  LET c == s.r.client
      answered == NotifySendReady([s EXCEPT !.r.head = c, !.r.body = BodyOf(c),
                                            !.r.pending = FALSE])
  IN  NotifySendReady(answered)

\* The body the client means to send: all its "body" parts.
BodySent(c) == [i \in 1..CountOf("body", Request[c]) |-> "body"]

\* perform: handle_stop looks at the head only; handle_start takes an absent body
\* for an empty set of parameters and answers at once if the JSON does not parse.
GoesToManager(r) ==
  \/ Kind[r.client] = "stop"
  \/ Kind[r.client] = "start" /\ r.recvBody \in {<<>>, BodySent(r.client)}

\* recv_finish and msg_recv_finish
RecvFinish(s) ==
  IF ~GoesToManager(s.r) THEN AnswerAtOnce(s)
  ELSE LET q == AskManager(s) IN IF q.r.pending THEN q ELSE NotifySendReady(q)

AfterHead(parts) ==
  SubSeq(parts, Min({i \in DOMAIN parts : parts[i] = "head"}) + 1, Len(parts))

\* process_recv_buf when a head is there or the status is RECV_BODY: everything
\* received is consumed, what follows the head is appended to recv_body_, and
\* CRxHttpResDataProcess calls any piece of a body complete, whatever its length.
Consumed(r, parts) ==
  [r EXCEPT !.status = "recv_body", !.parts = <<>>,
            !.recvBody = @ \o (IF r.status = "recv_head" THEN AfterHead(parts) ELSE parts)]

\* event_process on EPOLLIN: real_recv and process_recv_buf.
ConnReceives(id) ==
  LET r == conn[id]
      c == r.client
      parts == r.parts \o unread[c]
      s == [Sending(id) EXCEPT !.r = Consumed(r, parts)]
  IN  /\ phase = "events" /\ batch = <<>> /\ id \in ready
      /\ client[c] # "rst" /\ unread[c] # <<>>
      /\ r.status \in {"recv_head", "recv_body"}
      /\ ready' = ready \ {id}
      /\ unread' = [unread EXCEPT ![c] = <<>>]
      /\ \/ /\ r.status = "recv_head" /\ CountOf("head", parts) = 0
            /\ conn' = [conn EXCEPT ![id].parts = parts]
            /\ UNCHANGED <<wire, held, asked>>
         \/ /\ r.status = "recv_body" \/ CountOf("head", parts) > 0
            /\ Sent(id, RecvFinish(s))
            /\ asked' = IF GoesToManager(s.r)
                        THEN Append(asked, [id |-> id, client |-> c, body |-> s.r.recvBody])
                        ELSE asked
      /\ UNCHANGED <<client, sent, nextId, mailbox, batch, phase, doomed, timerVars, replied>>

\* The handler throws: the peer has reset or closed the connection, or data
\* arrives while a response is being sent.
ConnThrows(id) ==
  LET c == conn[id].client
  IN  /\ phase = "events" /\ batch = <<>> /\ id \in ready
      /\ \/ client[c] = "rst"
         \/ client[c] = "fin" /\ unread[c] = <<>>
         \/ unread[c] # <<>> /\ conn[id].status \in {"send_head", "send_body"}
      /\ ready' = ready \ {id}
      /\ doomed' = doomed \cup {id}
      /\ UNCHANGED <<clientVars, conn, nextId, mailbox, batch, phase, timerVars, managerVars>>
-----------------------------------------------------------------------------
(* The channel: the thread takes all that waits and handles it in order. *)

TakeBatch ==
  /\ phase = "events" /\ batch = <<>> /\ Channel \in ready
  /\ ready' = ready \ {Channel}
  /\ batch' = mailbox
  /\ mailbox' = <<>>
  /\ UNCHANGED <<clientVars, conn, nextId, phase, doomed, timerVars, managerVars>>

Receives(op) == batch # <<>> /\ Head(batch).op = op

\* Mutant: the smallest free object id is taken.
GenIdReusing == CHOOSE id \in 1..nextId : id \notin DOMAIN conn /\
                  \A other \in 1..(id - 1) : other \in DOMAIN conn

\* gen_id_str
GenId == nextId

\* handle_connect: the connection enters the container and its idle timer the
\* timer list that is current.
HandleConnect ==
  /\ Receives("connect")
  /\ LET new == [client |-> Head(batch).client, status |-> "recv_head", pending |-> FALSE,
                 parts |-> <<>>, recvBody |-> <<>>, buf |-> NoBuf, body |-> <<>>, head |-> Blank]
     IN  conn' = [id \in DOMAIN conn \cup {GenId} |-> IF id = GenId THEN new ELSE conn[id]]
  /\ timers' = [timers EXCEPT ![current] = @ \cup {<<IdleTime, GenId>>}]
  /\ nextId' = nextId + 1
  /\ batch' = Tail(batch)
  /\ UNCHANGED <<clientVars, mailbox, phase, ready, doomed, current, managerVars>>

\* Mutant: the connection goes on waiting for an answer.
AnsweredStillPending(q) ==
  [Sending(q.id) EXCEPT !.r.body = BodyOf(q.client), !.r.head = q.client,
                        !.r.status = "send_head"]

\* Mutant: the status skips the head.
AnsweredWithoutHead(q) ==
  [Sending(q.id) EXCEPT !.r.body = BodyOf(q.client), !.r.head = q.client,
                        !.r.pending = FALSE, !.r.status = "send_body"]

\* send_async_response for the reply q.
Answered(q) ==
  [Sending(q.id) EXCEPT !.r.body = BodyOf(q.client), !.r.head = q.client,
                        !.r.pending = FALSE, !.r.status = "send_head"]

\* NORMAL_MSG_HTTP_REPLY to a connection; one that is gone is not found.
HandleReply ==
  /\ Receives("reply")
  /\ LET q == Head(batch)
     IN  \/ /\ q.id \notin DOMAIN conn
            /\ UNCHANGED <<conn, wire, held>>
         \/ /\ q.id \in DOMAIN conn
            /\ ~(client[conn[q.id].client] = "rst" /\ Sends(Answered(q)))
            /\ Sent(q.id, RealSend(Answered(q)))
  /\ batch' = Tail(batch)
  /\ UNCHANGED <<client, sent, unread, nextId, mailbox, phase, ready, doomed, timerVars, managerVars>>

\* SEND throws out of the channel's handler: the rest of the batch is gone.  It
\* is the channel that epoll_wait reports, and the channel outlives its erasure.
HandleReplyThrows ==
  /\ Receives("reply")
  /\ LET q == Head(batch)
     IN  /\ q.id \in DOMAIN conn
         /\ client[conn[q.id].client] = "rst" /\ Sends(Answered(q))
         /\ conn' = [conn EXCEPT ![q.id] = Pull(Answered(q)).r]
  /\ batch' = <<>>
  /\ UNCHANGED <<clientVars, nextId, mailbox, phase, ready, doomed, timerVars, managerVars>>
-----------------------------------------------------------------------------
(* obj_process *)

\* destroy and erase: the connections leave _obj_map, which closes their sockets.
Erase(ids) ==
  LET gone == {conn[id].client : id \in ids \cap DOMAIN conn}
  IN  /\ conn' = [id \in DOMAIN conn \ ids |-> conn[id]]
      /\ client' = [c \in Clients |-> IF c \in gone /\ client[c] # "rst" THEN "closed"
                                      ELSE client[c]]
      /\ unread' = [c \in Clients |-> IF c \in gone THEN <<>> ELSE unread[c]]
      /\ held' = [c \in Clients |-> IF c \in gone THEN 0 ELSE held[c]]

\* epoll_wait returns what is ready, or nothing after its timeout.
EpollWait ==
  /\ phase = "wait"
  /\ ready' = {id \in DOMAIN conn : Readable(id)}
                \cup (IF mailbox # <<>> THEN {Channel} ELSE {})
  /\ phase' = "events"
  /\ UNCHANGED <<clientVars, conn, nextId, mailbox, batch, doomed, timerVars, managerVars>>

Due == {t \in timers[current] : t[1] = 0}

\* Mutant: the whole list is dropped once the timers that are due are handled.
TimersAfterDropping == [timers EXCEPT ![current] = {}]

\* check_timer: one of the two lists in each turn; only what was due leaves it.
TimersAfter == [timers EXCEPT ![current] = @ \ Due]

\* The end of a turn: the objects whose handler threw are erased, then the timers
\* are checked.  The idle timer of a live connection throws, and it is erased too.
EndOfTurn ==
  /\ phase = "events" /\ batch = <<>> /\ ready = {}
  /\ Erase(doomed \cup {t[2] : t \in Due})
  /\ doomed' = {}
  /\ timers' = TimersAfter
  /\ current' = 1 - current
  /\ phase' = "wait"
  /\ UNCHANGED <<sent, wire, nextId, mailbox, batch, ready, managerVars>>
-----------------------------------------------------------------------------
Loop ==
  \/ EpollWait \/ TakeBatch \/ HandleConnect \/ HandleReply \/ HandleReplyThrows
  \/ EndOfTurn
  \/ \E id \in DOMAIN conn : ConnReceives(id) \/ ConnThrows(id)

Next ==
  \/ \E c \in Clients : ClientConnects(c) \/ ClientSends(c) \/ ClientReads(c)
                          \/ ClientLeaves(c, "fin") \/ ClientLeaves(c, "rst")
  \/ ManagerReplies
  \/ Tick
  \/ Loop

Spec == Init /\ [][Next]_vars
-----------------------------------------------------------------------------
Units == (Clients \cup {Blank}) \X {"head", "body"}
ConnIds == 1..Cardinality(Clients)
Issued == 1..(nextId - 1)
Parts == {"head", "body"}
Connection ==
  [client : Clients, status : {"recv_head", "recv_body", "send_head", "send_body"},
   pending : BOOLEAN, parts : Seq(Parts), recvBody : Seq(Parts),
   buf : Seq(Seq(Units)), body : Seq(Units), head : Clients \cup {Blank}]
Message ==
  [op : {"connect"}, client : Clients] \cup [op : {"reply"}, id : Issued, client : Clients]
Question == [id : Issued, client : Clients, body : Seq(Parts)]

ClientsTyped ==
  /\ client \in [Clients -> {"new", "open", "fin", "rst", "closed"}]
  /\ sent \in [Clients -> Nat] /\ \A c \in Clients : sent[c] <= Len(Request[c])
  /\ unread \in [Clients -> Seq(Parts)]
  /\ wire \in [Clients -> Seq(Units)]
  /\ held \in [Clients -> 0..SockRoom]
ConnsTyped ==
  /\ nextId \in Nat \ {0} /\ nextId - 1 <= Cardinality(Clients)
  /\ DOMAIN conn \subseteq Issued
  /\ conn \in [DOMAIN conn -> Connection]
QueuesTyped ==
  /\ mailbox \in Seq(Message) /\ batch \in Seq(Message)
  /\ asked \in Seq(Question) /\ replied \in [Clients -> Nat]
LoopTyped ==
  /\ phase \in {"wait", "events"}
  /\ ready \subseteq ConnIds \cup {Channel} /\ doomed \subseteq ConnIds
  /\ timers \in [{0, 1} -> SUBSET ((0..IdleTime) \X Issued)]
  /\ current \in {0, 1}

\* Types: in particular a socket never holds more than it can, one id is issued
\* for each connection, and messages and timers name ids that were issued.
TypeOK == ClientsTyped /\ ConnsTyped /\ QueuesTyped /\ LoopTyped

\* A client only ever receives answers to its own request, although replies come
\* late, to connections that may be gone by then and succeeded by others.
OwnAnswersOnly ==
  \A c \in Clients : \A i \in DOMAIN wire[c] : wire[c][i][1] \in {c, Blank}

\* Every unit of w comes in its place: a body unit while the last head announces
\* more of them, everything else when all announced so far are there.
Ordered(w, c) ==
  \A n \in DOMAIN w :
    LET heads == CountOf(<<c, "head">>, SubSeq(w, 1, n - 1))
        bodies == CountOf(<<c, "body">>, SubSeq(w, 1, n - 1))
    IN  IF w[n] = <<c, "body">> THEN bodies < heads * BodyLen
                                ELSE bodies = heads * BodyLen

\* The client sends one request on its connection, as "Connection: close" in
\* every response asks it to.
OneRequest(c) == CountOf("head", Request[c]) = 1

\* What a client receives is a sequence of responses: no body unit without its
\* head before it, no more of them than the head announces, and nothing of a
\* later response before the earlier one is complete.  The limit to two replies
\* is needed: perform runs once for every segment of a stop request, and a third
\* reply that finds the head of the second still unsent puts its own head between
\* that head and its body.
StreamOrdered ==
  \A c \in Clients : OneRequest(c) /\ replied[c] <= 2 => Ordered(wire[c], c)

\* A request that only the manager can answer is not answered before the manager
\* has replied: each head such a client receives has a reply of its own.
NoEarlyAnswer ==
  \A c \in Clients : Kind[c] = "stop"
    => Cardinality({i \in DOMAIN wire[c] : wire[c][i][2] = "head"}) <= replied[c]

\* Every connection will be closed, by its client or by its idle timer: in each
\* turn its timer is in exactly one of the two lists, whichever was current when
\* it was added, and lists are checked in turn.
IdleTimerArmed ==
  \A id \in DOMAIN conn :
    Cardinality({i \in {0, 1} : \E t \in timers[i] : t[2] = id}) = 1

InRepliesOf(seq, id) == \E i \in DOMAIN seq : seq[i].op = "reply" /\ seq[i].id = id

\* A connection that waits for an answer has one under way: its request is with
\* the manager, or the reply is in the channel or in the batch being handled.
AnswerUnderWay ==
  \A id \in DOMAIN conn : conn[id].pending =>
    \/ \E i \in DOMAIN asked : asked[i].id = id
    \/ InRepliesOf(mailbox, id)
    \/ InRepliesOf(batch, id)

\* The same as long as no client has reset its connection.
AnswerUnderWayUntilReset == (\A c \in Clients : client[c] # "rst") => AnswerUnderWay
-----------------------------------------------------------------------------
(* What these properties rest on: an inductive invariant. *)

IsConnect(m) == m.op = "connect"
Connecting(q) == {m.client : m \in {msg \in Range(q) : IsConnect(msg)}}
ConnectsOnce(q) ==
  \A i, j \in DOMAIN q : IsConnect(q[i]) /\ IsConnect(q[j]) /\ q[i].client = q[j].client => i = j

Awaited == Connecting(mailbox) \cup Connecting(batch)
Opened == {c \in Clients : client[c] # "new"}

\* Each client that has connected has one connect message, or has had at most one
\* id (a throwing handler takes the rest of its batch along), and has at most one
\* connection.
OneConnectionEach ==
  /\ ConnectsOnce(mailbox) /\ ConnectsOnce(batch)
  /\ Connecting(mailbox) \cap Connecting(batch) = {}
  /\ Awaited \subseteq Opened
  /\ nextId - 1 <= Cardinality(Opened \ Awaited)
  /\ \A id \in DOMAIN conn : conn[id].client \in Opened \ Awaited
  /\ \A id, other \in DOMAIN conn : conn[id].client = conn[other].client => id = other

\* A question or a reply under way is about the client it started from, as long
\* as the connection with its id exists.
Fits(m) == m.id \in DOMAIN conn => conn[m.id].client = m.client
RepliesFit ==
  /\ \A m \in Range(asked) : Fits(m)
  /\ \A m \in Range(mailbox) \cup Range(batch) : m.op = "reply" => Fits(m)

\* What a connection has ready to send, and what was sent, is its own client's.
OwnUnits(c) == {c, Blank} \X {"head", "body"}
Own(r) ==
  /\ r.head \in {r.client, Blank}
  /\ r.body \in Seq({<<r.client, "body">>})
  /\ r.buf \in Seq(Seq(OwnUnits(r.client)))
OwnSent ==
  /\ \A id \in DOMAIN conn : Own(conn[id])
  /\ \A c \in Clients : wire[c] \in Seq(OwnUnits(c))

\* The heads a client that asks to stop a capture has received, those its
\* connection is about to send and the replies under way to it are no more than
\* the replies the manager has posted.
Count(q, S) == Cardinality({i \in DOMAIN q : q[i] \in S})
HeadUnits == (Clients \cup {Blank}) \X {"head"}
RepliesTo(c) == [op : {"reply"}, id : Nat, client : {c}]
HeadsDue(r) ==
  (IF r.status = "send_head" THEN 1 ELSE 0)
    + (IF r.buf = NoBuf THEN 0 ELSE Count(r.buf[1], HeadUnits))
HeadsAndReplies(c) ==
  Count(wire[c], HeadUnits) + Count(mailbox, RepliesTo(c)) + Count(batch, RepliesTo(c))
RepliesCounted ==
  \A c \in Clients : Kind[c] = "stop" =>
    /\ HeadsAndReplies(c) <= replied[c]
    /\ \A id \in DOMAIN conn : conn[id].client = c =>
         HeadsAndReplies(c) + HeadsDue(conn[id]) <= replied[c]

\* The inductive invariant of the HTTP thread.
HttpInv ==
  /\ TypeOK /\ OneConnectionEach /\ RepliesFit /\ OwnSent /\ RepliesCounted
  /\ IdleTimerArmed /\ AnswerUnderWayUntilReset

(* What StreamOrdered rests on. *)

\* Ordered, and the last response is complete.
Whole(w, c) ==
  Ordered(w, c) /\ CountOf(<<c, "body">>, w) = CountOf(<<c, "head">>, w) * BodyLen

\* What is left in the buffer, and what real_send would send after it if the
\* socket had room.  An empty buffer is in the way of everything.
Buffered(r) == IF r.buf = NoBuf THEN <<>> ELSE r.buf[1]
Stuck(r) == r.buf = <<<<>>>>
Behind(r) ==
  CASE r.status = "send_head" -> <<<<r.head, "head">>>> \o r.body
    [] r.status = "send_body" -> r.body
    [] OTHER -> <<>>
Ahead(r) == Buffered(r) \o Behind(r)

\* At most k more replies to c are handled while no more than two are posted, if
\* it asks nothing more.
QuestionsOf(c) == [id : Nat, client : {c}, body : Seq(Parts)]
Questions(c) == Count(asked, QuestionsOf(c))
Replies(c) == Count(mailbox, RepliesTo(c)) + Count(batch, RepliesTo(c))
AtMost(c, k) ==
  \/ Questions(c) + Replies(c) <= k
  \/ Replies(c) + 2 <= replied[c] + k

\* Nothing that c has sent is read, and nothing asked or sent for it.
Untouched(c) ==
  /\ unread[c] = SubSeq(Request[c], 1, sent[c])
  /\ wire[c] = <<>> /\ held[c] = 0
  /\ Questions(c) + Replies(c) = 0

Unread(c, r) ==
  Untouched(c) /\ r.status = "recv_head" /\ r.buf = NoBuf /\ r.parts = <<>> /\ r.recvBody = <<>>

\* The head of c's request has been read.
HeadRead(c, r) ==
  /\ sent[c] >= 1
  /\ \A i \in DOMAIN unread[c] : unread[c][i] # "head"
  /\ \A i \in DOMAIN r.parts : r.parts[i] # "head"

\* Every part read so far has been a reason to ask the manager, and none of its
\* replies has come.
Unanswered(c, r) ==
  /\ r.status = "recv_body" /\ r.buf = NoBuf /\ r.parts = <<>>
  /\ wire[c] = <<>> /\ held[c] = 0
  /\ HeadRead(c, r)
  /\ Len(r.recvBody) + Len(unread[c]) <= sent[c] - 1
  /\ Kind[c] # "status"
  /\ Kind[c] = "start" => /\ r.recvBody \in {<<>>, BodySent(c)}
                          /\ r.recvBody = <<>> => Questions(c) + Replies(c) <= 1

\* A first response has been sent or begun: c asks nothing more, the responses
\* come out whole, and a head waits for room only if no reply can overtake it.
Answering(c, r) ==
  /\ r.status # "recv_body"
  /\ HeadRead(c, r)
  /\ AtMost(c, 1)
  /\ \/ Stuck(r)
     \/ /\ Whole(wire[c] \o Ahead(r), c)
        /\ Whole(wire[c] \o Buffered(r), c) \/ AtMost(c, 0)

StreamSound(c) ==
  /\ Ordered(wire[c], c)
  /\ client[c] = "new" \/ c \in Awaited => Untouched(c)
  /\ \A id \in DOMAIN conn : conn[id].client = c /\ client[c] # "rst" =>
       \/ Unread(c, conn[id]) \/ Unanswered(c, conn[id]) \/ Answering(c, conn[id])

\* The inductive invariant of the streams.
StreamInv ==
  \A c \in Clients :
    Replies(c) <= replied[c] /\ (OneRequest(c) /\ replied[c] <= 2 => StreamSound(c))
=============================================================================

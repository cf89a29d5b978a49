----------------------------- MODULE MnlgProofs -----------------------------
(***************************************************************************)
(* Every answer is taken for its own request, every exchange is read to    *)
(* its end, and every way out frees what was set up: for any number of     *)
(* requests, any length of a dump, and however the clock runs.             *)
(***************************************************************************)
EXTENDS Mnlg, TLAPS

\* The last message of an answer, and the ones before it.
Ends == {"ack", "done", "failed", "error", "ENOENT"}
Types == Ends \cup {"data", "intr"}
Message == [type : Types, seq : Nat, req : Nat]

\* What is allocated at each label of the code; nothing else was freed.
Held == /\ misfreed = {}
        /\ pc \in {"malloc", "done", "failed"} => alloc = {}
        /\ pc \in {"malloc_buf", "err_buf_alloc"} => alloc = {"nlg"}
        /\ pc \in {"socket", "err_mnl_socket_open"} => alloc = {"nlg", "buf"}
        /\ pc \in Receiving \cup {"bind", "family", "ready", "acked", "out", "err_translate",
                                  "err_mnl_socket_bind"} => alloc = {"nlg", "buf", "nl"}

\* What is left of an answer to a request: its messages carry the request's
\* number, and only the last of them ends it.
Rest(q, number, r) ==
    /\ q \in Seq(Message) /\ q # << >>
    /\ \A j \in 1 .. Len(q) : q[j].seq = number /\ q[j].req = r
    /\ \A j \in 1 .. Len(q) : q[j].type \in Ends <=> j = Len(q)

\* The socket holds the rest of the answer while it is read.  It is empty
\* elsewhere, but for the labels an error leads to on the way to its close.
Exchange == /\ pc \in Receiving => Rest(queue, seq, req)
            /\ pc \notin Receiving \cup {"out", "err_translate", "err_mnl_socket_bind"}
                 => queue = << >>

IInv == TypeOK /\ Held /\ Exchange /\ NeverEproto

-----------------------------------------------------------------------------
\* A dump is any number of messages with data, perhaps a note that it was
\* interrupted, and one message that ends it.
LEMMA DumpShape ==
    ASSUME NEW n \in Nat, NEW last \in {<<"done">>, <<"failed">>, <<"intr", "done">>},
           NEW a, a = [j \in 1 .. n |-> "data"] \o last
    PROVE  /\ a \in Seq(Types) /\ Len(a) > 0
           /\ \A j \in 1 .. Len(a) : a[j] \in Ends <=> j = Len(a)
<1> DEFINE d == [j \in 1 .. n |-> "data"]
<1>1. d \in Seq(Types) /\ Len(d) = n /\ \A j \in 1 .. n : d[j] = "data"
  BY DEF Types
<1> HIDE DEF d
<1>2. CASE \E x \in {"done", "failed"} : last = <<x>>
  <2>1. PICK x \in {"done", "failed"} : last = <<x>>
    BY <1>2
  <2>2. Len(a) = n + 1 /\ a[n + 1] = x /\ \A j \in 1 .. n : a[j] = "data"
    BY <1>1, <2>1 DEF d
  <2>3. a \in Seq(Types)
    BY <1>1, <2>1 DEF d, Types, Ends
  <2> QED BY <2>2, <2>3 DEF Ends
<1>3. CASE last = <<"intr", "done">>
  <2>1. /\ Len(a) = n + 2 /\ a[n + 1] = "intr" /\ a[n + 2] = "done"
        /\ \A j \in 1 .. n : a[j] = "data"
    BY <1>1, <1>3 DEF d
  <2>2. a \in Seq(Types)
    BY <1>1, <1>3 DEF d, Types, Ends
  <2> QED BY <2>1, <2>2 DEF Ends
<1> QED BY <1>2, <1>3

\* Every answer of the kernel has one message that ends it, the last.
LEMMA AnswerShape ==
    ASSUME NEW type \in {"family", "set", "get"}, NEW a \in Answers(type)
    PROVE  /\ a \in Seq(Types) /\ Len(a) > 0
           /\ \A j \in 1 .. Len(a) : a[j] \in Ends <=> j = Len(a)
<1>0. MaxDump \in Nat
  BY BoundAssumption
<1>1. CASE a \in {<<"error">>, <<"ack">>, <<"ENOENT">>, <<"data", "ack">>}
  <2>1. CASE \E x \in Ends : a = <<x>>
    <3>1. PICK x \in Ends : a = <<x>>
      BY <2>1
    <3> QED BY <3>1 DEF Types
  <2>2. CASE a = <<"data", "ack">>
    <3>1. Len(a) = 2 /\ a[1] = "data" /\ a[2] = "ack"
      BY <2>2
    <3>2. a \in Seq(Types)
      BY <2>2 DEF Types, Ends
    <3> QED BY <3>1, <3>2 DEF Ends
  <2> QED BY <1>1, <2>1, <2>2 DEF Ends
<1>2. CASE \E n \in 0 .. MaxDump, last \in {<<"done">>, <<"failed">>, <<"intr", "done">>} :
              a = [j \in 1 .. n |-> "data"] \o last
  <2>1. PICK n \in 0 .. MaxDump, last \in {<<"done">>, <<"failed">>, <<"intr", "done">>} :
              a = [j \in 1 .. n |-> "data"] \o last
    BY <1>2
  <2>2. n \in Nat
    BY <1>0
  <2> QED BY <2>1, <2>2, DumpShape
<1>3. CASE type = "get"
  BY <1>1, <1>2, <1>3 DEF Answers
<1> QED BY <1>1, <1>3 DEF Answers

\* The empty socket holds a whole answer once a request is delivered.
LEMMA DeliverFills ==
    ASSUME NEW type \in {"family", "set", "get"}, Deliver(type),
           queue = << >>, clock \in Nat, req \in Nat
    PROVE  Rest(queue', clock, req + 1)
<1>1. PICK a \in Answers(type) :
         queue' = queue \o [j \in 1 .. Len(a) |-> [type |-> a[j], seq |-> clock, req |-> req + 1]]
  BY DEF Deliver
<1>2. /\ a \in Seq(Types) /\ Len(a) > 0
      /\ \A j \in 1 .. Len(a) : a[j] \in Ends <=> j = Len(a)
  BY AnswerShape
<1> DEFINE q == [j \in 1 .. Len(a) |-> [type |-> a[j], seq |-> clock, req |-> req + 1]]
<1>3. q \in Seq(Message) /\ Len(q) = Len(a)
  BY <1>2 DEF Message
<1>4. queue' = q
  BY <1>1, <1>3
<1> QED BY <1>2, <1>3, <1>4 DEF Rest

\* Reading one datagram: the verdict goes on only if there is more to read,
\* stops only at the last, and is never EPROTO.
LEMMA ReadOne ==
    ASSUME Rest(queue, seq, req), NEW e \in Callback(Head(queue))
    PROVE  /\ e # "EPROTO" /\ Tail(queue) \in Seq(Message)
           /\ e = "" => Rest(Tail(queue), seq, req)
           /\ e = "STOP" => Tail(queue) = << >>
<1>1. /\ queue \in Seq(Message) /\ Len(queue) \in Nat /\ Len(queue) > 0
      /\ Head(queue) = queue[1] /\ queue[1] \in Message
      /\ Tail(queue) \in Seq(Message) /\ Len(Tail(queue)) = Len(queue) - 1
      /\ \A j \in 1 .. Len(queue) - 1 : Tail(queue)[j] = queue[j + 1]
  BY DEF Rest
<1> DEFINE n == Len(queue)
<1>0. \A j \in 1 .. n : queue[j].seq = seq /\ queue[j].req = req /\ (queue[j].type \in Ends <=> j = n)
  BY DEF Rest
<1> HIDE DEF n
<1>2. n \in Nat /\ n > 0 /\ queue[1].seq = seq /\ (queue[1].type \in Ends <=> n = 1)
  <2>1. n \in Nat /\ n > 0 /\ 1 \in 1 .. n
    BY <1>1 DEF n
  <2> QED BY <1>0, <2>1
<1>3. queue[1].type \in Types
  BY <1>1 DEF Message
<1>4. /\ e # "EPROTO" /\ (e = "" => queue[1].type \notin Ends)
      /\ (e = "STOP" => queue[1].type \in Ends)
  BY <1>1, <1>2, <1>3 DEF Callback, Types, Ends
<1>5. ASSUME e = "" PROVE Rest(Tail(queue), seq, req)
  <2> DEFINE t == Tail(queue)
  <2>0. n # 1
    BY <1>2, <1>4, <1>5
  <2>1. n > 1
    BY <1>2, <2>0
  <2>2. t \in Seq(Message) /\ Len(t) = n - 1 /\ \A j \in 1 .. n - 1 : t[j] = queue[j + 1]
    BY <1>1 DEF n
  <2> HIDE DEF t
  <2>3. ASSUME NEW j \in 1 .. n - 1
        PROVE  t[j].seq = seq /\ t[j].req = req /\ (t[j].type \in Ends <=> j = n - 1)
    <3>1. j + 1 \in 1 .. n /\ t[j] = queue[j + 1] /\ (j + 1 = n <=> j = n - 1)
      BY <1>2, <2>2
    <3> QED BY <1>0, <3>1
  <2>4. t # << >>
    BY <1>2, <2>1, <2>2
  <2>5. Rest(t, seq, req)
    BY <2>2, <2>3, <2>4 DEF Rest
  <2> QED BY <2>5 DEF t
<1>6. ASSUME e = "STOP" PROVE Tail(queue) = << >>
  BY <1>1, <1>2, <1>4, <1>6 DEF n
<1> QED BY <1>1, <1>4, <1>5, <1>6

-----------------------------------------------------------------------------
LEMMA IInvInit == Init => IInv
<1> SUFFICES ASSUME Init PROVE IInv
  OBVIOUS
<1>0. MaxTime \in Nat
  BY BoundAssumption
<1>1. TypeOK
  <2>1. clock \in 0 .. MaxTime /\ seq \in 0 .. clock /\ req \in Nat
    <3>1. clock = 0 /\ seq = 0 /\ req = 0
      BY DEF Init
    <3> QED BY <1>0, <3>1
  <2>2. /\ pc = "malloc" /\ alloc \subseteq {"nlg", "buf", "nl"} /\ op \in {"set", "get"}
        /\ misfreed \subseteq {"nlg", "buf", "nl"}
    BY DEF Init
  <2> QED BY <2>1, <2>2 DEF TypeOK, Receiving
<1>2. Held /\ Exchange /\ NeverEproto
  BY DEF Init, Held, Exchange, NeverEproto, Receiving
<1> QED BY <1>1, <1>2 DEF IInv

\* The steps that neither send nor receive: each allocates or frees one thing
\* on its way to the next label, and leaves the socket as it is or closes it.
LEMMA QuietKeeps ==
    ASSUME IInv, \/ Malloc \/ Bind \/ Translate \/ Acked \/ Close
                 \/ ErrMnlSocketBind \/ ErrMnlSocketOpen \/ ErrBufAlloc
    PROVE  IInv'
<1> USE DEF IInv, TypeOK, Held, Exchange, NeverEproto, Receiving, Goto, Free
<1>1. CASE Malloc
  BY <1>1 DEF Malloc, Allocate
<1>2. CASE Bind
  BY <1>2 DEF Bind
<1>3. CASE Translate
  BY <1>3 DEF Translate
<1>4. CASE Acked
  BY <1>4 DEF Acked
<1>5. CASE Close
  BY <1>5 DEF Close
<1>6. CASE ErrMnlSocketBind
  BY <1>6 DEF ErrMnlSocketBind
<1>7. CASE ErrMnlSocketOpen
  BY <1>7 DEF ErrMnlSocketOpen
<1>8. CASE ErrBufAlloc
  BY <1>8 DEF ErrBufAlloc
<1> QED BY <1>1, <1>2, <1>3, <1>4, <1>5, <1>6, <1>7, <1>8

\* A request finds the socket empty: the answer before it was read to its end.
LEMMA RequestKeeps ==
    ASSUME IInv, NEW type \in {"family", "set", "get"}, NEW at, NEW next, NEW label,
           \/ at = "family" /\ next = "family_recv" /\ label = "err_mnl_socket_bind"
           \/ at = "ready" /\ next = "recv" /\ label = "out",
           Request(at, type, next, label)
    PROVE  IInv'
<1>1. /\ queue = << >> /\ alloc = {"nlg", "buf", "nl"}
      /\ clock \in 0 .. MaxTime /\ req \in Nat /\ pc = at
  BY DEF Request, IInv, TypeOK, Held, Exchange, Receiving
<1>2. MaxTime \in Nat /\ clock \in Nat
  BY <1>1, BoundAssumption
<1>3. /\ seq' = clock /\ UNCHANGED <<op, alloc, misfreed, clock>>
      /\ \/ Deliver(type) /\ req' = req + 1 /\ pc' = next /\ errno' = errno
         \/ req' = req /\ queue' = queue /\ pc' = label /\ errno' = "error"
  BY DEF Request, Goto
<1>4. TypeOK' /\ Held'
  BY <1>1, <1>2, <1>3 DEF IInv, TypeOK, Held, Receiving
<1>5. NeverEproto'
  BY <1>3 DEF IInv, NeverEproto
<1>6. CASE Deliver(type) /\ req' = req + 1 /\ pc' = next
  <2>1. Rest(queue', seq', req')
    BY <1>1, <1>2, <1>3, <1>6, DeliverFills
  <2> QED BY <1>4, <1>5, <1>6, <2>1 DEF IInv, Exchange, Receiving
<1>7. CASE queue' = queue /\ pc' = label
  BY <1>1, <1>4, <1>5, <1>7 DEF IInv, Exchange, Receiving
<1> QED BY <1>3, <1>6, <1>7

\* A round of mnlg_socket_recv_run.
LEMMA RecvKeeps ==
    ASSUME IInv, NEW at, NEW ok, NEW label,
           \/ at = "family_recv" /\ ok = "ready" /\ label = "err_translate"
           \/ at = "recv" /\ ok = "acked" /\ label = "out",
           RecvRun(at, ok, label)
    PROVE  IInv'
<1>1. pc = at /\ pc \in Receiving /\ Rest(queue, seq, req) /\ alloc = {"nlg", "buf", "nl"}
  BY DEF RecvRun, IInv, Held, Exchange, Receiving
<1>2. UNCHANGED <<op, alloc, misfreed, clock, seq, req>>
  BY DEF RecvRun
<1>3. ASSUME pc' \in {at, ok, label}, errno' # "EPROTO",
             pc' = at => Rest(queue', seq, req), pc' = ok => queue' = << >>
      PROVE  IInv'
  <2>1. TypeOK' /\ Held'
    BY <1>1, <1>2, <1>3 DEF IInv, TypeOK, Held, Receiving
  <2>2. Exchange'
    BY <1>2, <1>3 DEF Exchange, Receiving
  <2> QED BY <1>3, <2>1, <2>2 DEF IInv, NeverEproto
<1>4. CASE queue' = Tail(queue) /\ \E e \in Callback(Head(queue)) :
              \/ e = "" /\ UNCHANGED <<pc, errno>>
              \/ e = "STOP" /\ pc' = ok /\ UNCHANGED errno
              \/ e \notin {"", "STOP"} /\ pc' = label /\ errno' = e
  <2>1. PICK e \in Callback(Head(queue)) :
              \/ e = "" /\ UNCHANGED <<pc, errno>>
              \/ e = "STOP" /\ pc' = ok /\ UNCHANGED errno
              \/ e \notin {"", "STOP"} /\ pc' = label /\ errno' = e
    BY <1>4
  <2>2. /\ e # "EPROTO" /\ (e = "" => Rest(queue', seq, req))
        /\ (e = "STOP" => queue' = << >>)
    BY <1>1, <1>4, ReadOne
  <2>3. errno # "EPROTO"
    BY DEF IInv, NeverEproto
  <2> QED BY <1>1, <1>3, <2>1, <2>2, <2>3
<1>5. CASE pc' = label /\ errno' = "error"
  BY <1>3, <1>5
<1> QED BY <1>4, <1>5 DEF RecvRun, Goto

LEMMA IInvStep == IInv /\ [Next]_vars => IInv'
<1> SUFFICES ASSUME IInv, [Next]_vars PROVE IInv'
  OBVIOUS
<1>1. CASE \/ Malloc \/ Bind \/ Translate \/ Acked \/ Close
           \/ ErrMnlSocketBind \/ ErrMnlSocketOpen \/ ErrBufAlloc
  BY <1>1, QuietKeeps
<1>2. CASE Send
  <2>1. \/ Request("family", "family", "family_recv", "err_mnl_socket_bind")
        \/ Request("ready", "set", "recv", "out")
        \/ Request("ready", "get", "recv", "out")
    BY <1>2 DEF Send
  <2> QED BY <2>1, RequestKeeps
<1>3. CASE RecvFamily
  BY <1>3, RecvKeeps DEF RecvFamily
<1>4. CASE Recv
  BY <1>4, RecvKeeps DEF Recv
<1>5. CASE Tick
  <2>1. UNCHANGED <<pc, op, alloc, misfreed, seq, req, queue, errno>> /\ clock < MaxTime /\ clock' = clock + 1
    BY <1>5 DEF Tick
  <2>2. TypeOK'
    <3>1. MaxTime \in Nat
      BY BoundAssumption
    <3> QED BY <2>1, <3>1 DEF IInv, TypeOK, Receiving
  <2> QED BY <2>1, <2>2 DEF IInv, Held, Exchange, NeverEproto, Receiving
<1>6. CASE UNCHANGED vars
  BY <1>6 DEF vars, IInv, TypeOK, Held, Exchange, NeverEproto, Receiving
<1> QED BY <1>1, <1>2, <1>3, <1>4, <1>5, <1>6 DEF Next, Call

-----------------------------------------------------------------------------
LEMMA IInvAlways == Spec => []IInv
  BY IInvInit, IInvStep, PTL DEF Spec

\* The variables keep their types, and the socket is there wherever it is
\* used, after every failure of mnlg_socket_open too.
THEOREM TypeCorrect == Spec => []TypeOK
<1>1. IInv => TypeOK
  BY DEF IInv
<1> QED BY <1>1, IInvAlways, PTL

\* mnlg_socket_recv_run reads only answers to the request that was sent last,
\* however many requests one second numbers alike.
THEOREM OwnAnswerAlways == Spec => []OwnAnswer
<1>1. IInv => OwnAnswer
  BY DEF IInv, Exchange, Rest, OwnAnswer
<1> QED BY <1>1, IInvAlways, PTL

\* The number of an answer is never found wrong, however the clock runs.
THEOREM NeverEprotoAlways == Spec => []NeverEproto
<1>1. IInv => NeverEproto
  BY DEF IInv
<1> QED BY <1>1, IInvAlways, PTL

\* Every way out of mnlg_socket_open and of the calls that use the socket
\* frees what is there, never what is not, and leaves nothing in the socket.
THEOREM NothingLeaksAlways == Spec => []NothingLeaks
<1>1. IInv => NothingLeaks
  BY DEF IInv, Held, Exchange, NothingLeaks, Receiving
<1> QED BY <1>1, IInvAlways, PTL

\* A call that reads always has a datagram to read: the end of an answer is
\* never missed, however long the dump.
THEOREM NeverWaitsInVainAlways == Spec => []NeverWaitsInVain
<1>1. IInv => NeverWaitsInVain
  BY DEF IInv, Exchange, Rest, NeverWaitsInVain
<1> QED BY <1>1, IInvAlways, PTL
=============================================================================

--------------------------------- MODULE Mnlg ---------------------------------
(***************************************************************************)
(* The mnlg layer of wireguard.c: opening a generic netlink socket, which  *)
(* itself asks the kernel for the family id, and exchanging requests and   *)
(* answers over it.  Requests are numbered by time(NULL), so that those of *)
(* one second have the same number.  wg_set_device sends several requests  *)
(* over a socket, wg_get_device one that is answered by a dump.            *)
(***************************************************************************)
EXTENDS Integers, Sequences

CONSTANTS MaxRequest,  \* bound: messages wg_set_device sends
          MaxDump,     \* bound: messages of a dump
          MaxTime      \* bound: seconds that pass

ASSUME BoundAssumption == {MaxRequest, MaxDump, MaxTime} \subseteq Nat

VARIABLES pc, op,      \* the call: wg_set_device or wg_get_device
          alloc,       \* what is allocated: nlg, nlg->buf, nlg->nl
          misfreed,    \* history: what was freed without being there
          clock,       \* time(NULL)
          seq,         \* nlg->seq
          req,         \* requests sent over the socket
          queue,       \* messages in the socket, each with its request
          errno        \* what the call reports: "" while it goes well

vars == <<pc, op, alloc, misfreed, clock, seq, req, queue, errno>>

Goto(label) == pc' = label
Free(what) == alloc' = alloc \ what /\ misfreed' = misfreed \cup (what \ alloc)

-----------------------------------------------------------------------------
(* The kernel (external): its answers to a request, each in a datagram of  *)
(* its own, marked with the request's number and with the request itself.  *)

\* They carry the port of the socket and are never NLMSG_NOOP or NLMSG_OVERRUN.
Answers(type) ==
    LET dump(last) == {[j \in 1 .. n |-> "data"] \o last : n \in 0 .. MaxDump}
    IN  {<<"error">>} \cup
        CASE type = "family" -> {<<"data", "ack">>, <<"ENOENT">>}
          [] type = "set"    -> {<<"ack">>}
          [] type = "get"    -> dump(<<"done">>) \cup dump(<<"failed">>) \cup dump(<<"intr", "done">>)

Deliver(type) == \E answer \in Answers(type) :
    queue' = queue \o [j \in 1 .. Len(answer) |->
                         [type |-> answer[j], seq |-> clock, req |-> req + 1]]

-----------------------------------------------------------------------------
(* mnlg_socket_open.                                                       *)

\* An allocation: what comes next, or where its failure leads.
Allocate(at, what, next, label) ==
    /\ pc = at
    /\ \/ alloc' = alloc \cup {what} /\ Goto(next) /\ UNCHANGED errno
       \/ UNCHANGED alloc /\ Goto(label) /\ errno' = "ENOMEM"
    /\ UNCHANGED <<op, misfreed, clock, seq, req, queue>>

\* Mutant: the result of the second malloc is not looked at.
MallocUnchecked == \/ Allocate("malloc", "nlg", "malloc_buf", "failed")
                   \/ Allocate("malloc_buf", "buf", "socket", "socket")
                   \/ Allocate("socket", "nl", "bind", "err_mnl_socket_open")

\* Mutant: a failed open leads to the label that closes the socket.
MallocWrongLabel == \/ Allocate("malloc", "nlg", "malloc_buf", "failed")
                    \/ Allocate("malloc_buf", "buf", "socket", "err_buf_alloc")
                    \/ Allocate("socket", "nl", "bind", "err_mnl_socket_bind")

\* malloc of nlg and of nlg->buf; mnl_socket_open, which frees what it
\* allocated when socket fails.
Malloc == \/ Allocate("malloc", "nlg", "malloc_buf", "failed")
          \/ Allocate("malloc_buf", "buf", "socket", "err_buf_alloc")
          \/ Allocate("socket", "nl", "bind", "err_mnl_socket_open")

\* mnl_socket_bind: bind, getsockname and the checks of the address.
Bind == /\ pc = "bind"
        /\ \/ Goto("family") /\ UNCHANGED errno
           \/ Goto("err_mnl_socket_bind") /\ errno' = "error"
        /\ UNCHANGED <<op, alloc, misfreed, clock, seq, req, queue>>

\* The labels at the end: each frees one thing and falls through.
ErrMnlSocketBind == /\ pc = "err_mnl_socket_bind"
                    /\ Free({"nl"}) /\ queue' = << >>
                    /\ Goto("err_mnl_socket_open")
                    /\ UNCHANGED <<op, clock, seq, req, errno>>

ErrMnlSocketOpen == /\ pc = "err_mnl_socket_open"
                    /\ Free({"buf"}) /\ Goto("err_buf_alloc")
                    /\ UNCHANGED <<op, clock, seq, req, queue, errno>>

ErrBufAlloc == /\ pc = "err_buf_alloc"
               /\ Free({"nlg"}) /\ Goto("failed")
               /\ UNCHANGED <<op, clock, seq, req, queue, errno>>

-----------------------------------------------------------------------------
(* Requests.                                                               *)

\* Mutant: time(NULL) is called for the header and again for nlg->seq.
RequestTwoTimes(at, type, next, label) ==
    /\ pc = at
    /\ seq' \in {clock, clock + 1} \cap 0 .. MaxTime
    /\ clock' = seq'
    /\ \/ Deliver(type) /\ req' = req + 1 /\ Goto(next) /\ UNCHANGED errno
       \/ UNCHANGED <<queue, req>> /\ Goto(label) /\ errno' = "error"
    /\ UNCHANGED <<op, alloc, misfreed>>

\* __mnlg_msg_prepare and mnlg_socket_send: a request of a type, sent from
\* one label and answered at the next; a failure leads to a label.
Request(at, type, next, label) ==
    /\ pc = at
    /\ seq' = clock
    /\ \/ Deliver(type) /\ req' = req + 1 /\ Goto(next) /\ UNCHANGED errno
       \/ UNCHANGED <<queue, req>> /\ Goto(label) /\ errno' = "error"
    /\ UNCHANGED <<op, alloc, misfreed, clock>>

\* CTRL_CMD_GETFAMILY in mnlg_socket_open; WG_CMD_SET_DEVICE, as often as
\* wg_set_device has more to send; WG_CMD_GET_DEVICE.
Send == \/ Request("family", "family", "family_recv", "err_mnl_socket_bind")
        \/ op = "set" /\ Request("ready", "set", "recv", "out")
        \/ op = "get" /\ Request("ready", "get", "recv", "out")

\* Mutant: NLMSG_DONE is handled like NLMSG_NOOP.
CallbackDoneNoop(m) == CASE m.seq # seq -> {"EPROTO"}
                         [] m.seq = seq /\ m.type = "intr" -> {"EINTR"}
                         [] m.seq = seq /\ m.type = "data" -> {"", "error"}
                         [] m.seq = seq /\ m.type = "done" -> {""}
                         [] m.seq = seq /\ m.type = "ack" -> {"STOP"}
                         [] m.seq = seq /\ m.type \in {"error", "ENOENT", "failed"} -> {m.type}

\* What __mnl_cb_run makes of a message: "" to go on, STOP, or an errno, which
\* the end of a dump may carry too.  The data callbacks may find a message
\* faulty.
Callback(m) == CASE m.seq # seq -> {"EPROTO"}
                 [] m.seq = seq /\ m.type = "intr" -> {"EINTR"}
                 [] m.seq = seq /\ m.type = "data" -> {"", "error"}
                 [] m.seq = seq /\ m.type \in {"ack", "done"} -> {"STOP"}
                 [] m.seq = seq /\ m.type \in {"error", "ENOENT", "failed"} -> {m.type}

\* Mutant: mnlg_socket_recv_run reads one datagram only.
RecvRunOnce(at, ok, label) ==
    /\ pc = at
    /\ queue # << >> /\ queue' = Tail(queue)
    /\ \E e \in Callback(Head(queue)) :
          \/ e \in {"", "STOP"} /\ Goto(ok) /\ UNCHANGED errno
          \/ e \notin {"", "STOP"} /\ Goto(label) /\ errno' = e
    /\ UNCHANGED <<op, alloc, misfreed, clock, seq, req>>

\* A round of mnlg_socket_recv_run: the next datagram, or a failed recvmsg.
\* It ends at ok with STOP, and at the label with an error.
RecvRun(at, ok, label) ==
    /\ pc = at
    /\ \/ /\ queue # << >>
          /\ queue' = Tail(queue)
          /\ \E e \in Callback(Head(queue)) :
                \/ e = "" /\ UNCHANGED <<pc, errno>>
                \/ e = "STOP" /\ Goto(ok) /\ UNCHANGED errno
                \/ e \notin {"", "STOP"} /\ Goto(label) /\ errno' = e
       \/ /\ Goto(label) /\ errno' = "error"
          /\ UNCHANGED queue
    /\ UNCHANGED <<op, alloc, misfreed, clock, seq, req>>

\* In mnlg_socket_open ENOENT means that there is no such family.
RecvFamily == RecvRun("family_recv", "ready", "err_translate")

Translate == /\ pc = "err_translate"
             /\ errno' = IF errno = "ENOENT" THEN "EPROTONOSUPPORT" ELSE errno
             /\ Goto("err_mnl_socket_bind")
             /\ UNCHANGED <<op, alloc, misfreed, clock, seq, req, queue>>

Recv == RecvRun("recv", "acked", "out")

\* The caller sends more, or is done with the socket.
Acked == /\ pc = "acked"
         /\ \/ op = "set" /\ req <= MaxRequest /\ Goto("ready")
            \/ Goto("out")
         /\ UNCHANGED <<op, alloc, misfreed, clock, seq, req, queue, errno>>

\* mnlg_socket_close at the end of wg_set_device and wg_get_device.
Close == /\ pc = "out"
         /\ Free({"nl", "buf", "nlg"}) /\ queue' = << >>
         /\ Goto(IF errno = "" THEN "done" ELSE "failed")
         /\ UNCHANGED <<op, clock, seq, req, errno>>

Tick == /\ clock < MaxTime
        /\ clock' = clock + 1
        /\ UNCHANGED <<pc, op, alloc, misfreed, seq, req, queue, errno>>

-----------------------------------------------------------------------------
Init == /\ pc = "malloc" /\ op \in {"set", "get"}
        /\ alloc = {} /\ misfreed = {} /\ clock = 0 /\ seq = 0 /\ req = 0
        /\ queue = << >> /\ errno = ""

Call == \/ Malloc \/ Bind \/ Send \/ RecvFamily \/ Translate \/ Recv \/ Acked \/ Close
        \/ ErrMnlSocketBind \/ ErrMnlSocketOpen \/ ErrBufAlloc

Next == Call \/ Tick

Spec == Init /\ [][Next]_vars
-----------------------------------------------------------------------------
Receiving == {"family_recv", "recv"}

\* The variables keep their types; the socket is in place wherever it is used.
TypeOK == /\ op \in {"set", "get"} /\ alloc \subseteq {"nlg", "buf", "nl"} /\ misfreed \subseteq {"nlg", "buf", "nl"}
          /\ pc \in Receiving \cup {"malloc", "malloc_buf", "socket", "bind", "family",
                       "ready", "acked", "out", "err_translate", "err_mnl_socket_bind",
                       "err_mnl_socket_open", "err_buf_alloc", "done", "failed"}
          /\ pc \in Receiving \cup {"family", "ready", "acked", "out"} => alloc = {"nlg", "buf", "nl"}
          /\ clock \in 0 .. MaxTime /\ seq \in 0 .. clock /\ req \in Nat

\* An answer that mnlg_socket_recv_run can read belongs to the request that
\* was sent last, although its number may be that of an earlier one: every
\* exchange is read to its end before the next request.
OwnAnswer == pc \in Receiving => \A j \in DOMAIN queue : queue[j].req = req

\* The number of an answer is checked, and never turns out to be wrong, even
\* when the second changes between the request and the answer.
NeverEproto == errno # "EPROTO"

\* The labels and mnlg_socket_close free nothing that is not there, because it
\* was never set up or is freed already, and every path out of the calls has
\* freed all there was.
NothingLeaks == /\ misfreed = {}
                /\ pc \in {"done", "failed"} => alloc = {} /\ queue = << >>

\* mnlg_socket_recv_run finds the end of every answer: the call does not wait
\* for a datagram that never comes.
NeverWaitsInVain == pc \in Receiving => queue # << >>
=============================================================================

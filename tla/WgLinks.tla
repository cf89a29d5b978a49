------------------------------- MODULE WgLinks -------------------------------
(***************************************************************************)
(* wg_list_device_names, wg_add_device and wg_del_device (wireguard.c):    *)
(* requests to the kernel's link layer while other processes add and       *)
(* delete links too.  The links are numbered in the order of a dump.       *)
(***************************************************************************)
EXTENDS StringList, SequencesExt

CONSTANTS N,          \* names of links: 1 .. N
          Length,     \* Length[n]: strlen of name n
          MaxOom      \* bound: failed reallocs

ASSUME LinkAssumption == N \in Nat /\ Length \in [1 .. N -> Nat]
ASSUME BoundAssumption == MaxOom \in Nat

VARIABLES kind,               \* the kernel: what link n is, or "none"
          at, seen, snap,     \* the kernel's dump: links passed; whether the
                              \* links are the "same" as at its last message,
                              \* "changed", or there was "none"; all links at
                              \* its first message
          op, pc, ret,        \* the call
          buf, nl,            \* rtnl_buffer and the socket are allocated
          list, names,        \* the string list; *names, the result
          answer,             \* the kernel's answer to an add or a delete
          oom, cut            \* failed reallocs; the dump was interrupted

dump == <<at, seen, snap>>
vars == <<kind, dump, op, pc, ret, buf, nl, list, names, answer, oom, cut>>

Kinds == {"none", "wireguard", "other"}
Ops == {<<"list">>} \cup ({"add", "del"} \X (1 .. N))
NULL == << >>   \* no result: a result has a cell at least
EINTR == 4
ERR == 12    \* any other errno
None == 99   \* no answer yet

Links(k) == {n \in 1 .. N : k[n] # "none"}
Goto(label) == pc' = label

-----------------------------------------------------------------------------
(* The kernel (external).                                                  *)

\* Links come and go for ever.
LinksChange == seen' = IF seen = "same" THEN "changed" ELSE seen

Change(n) == /\ kind' = [kind EXCEPT ![n] = IF @ = "none" THEN "wireguard" ELSE "none"]
             /\ LinksChange
             /\ UNCHANGED <<at, snap, op, pc, ret, buf, nl, list, names, answer, oom, cut>>

\* RTM_NEWLINK with NLM_F_EXCL, or RTM_DELLINK, which does not look at the
\* kind of the link.
Execute(what, n) ==
    \/ /\ what = "add" /\ kind[n] = "none"
       /\ kind' = [kind EXCEPT ![n] = "wireguard"]
       /\ answer' = 0
    \/ /\ what = "del" /\ kind[n] # "none"
       /\ kind' = [kind EXCEPT ![n] = "none"]
       /\ answer' = 0
    \/ answer' = ERR /\ UNCHANGED kind

\* A message of the dump has NLM_F_DUMP_INTR.
DumpIntr == seen = "changed"

-----------------------------------------------------------------------------
\* rtnl_buffer, mnl_socket_open and mnl_socket_bind, each of which may fail.
Setup == /\ pc = "setup"
         /\ \/ buf' = FALSE /\ nl' = FALSE /\ ret' = -ERR /\ Goto("cleanup")
            \/ buf' = TRUE /\ nl' = FALSE /\ ret' = -ERR /\ Goto("cleanup")
            \/ buf' = TRUE /\ nl' = TRUE /\ ret' = -ERR /\ Goto("cleanup")
            \/ buf' = TRUE /\ nl' = TRUE /\ Goto("send") /\ UNCHANGED ret
         /\ UNCHANGED <<kind, dump, op, list, names, answer, oom, cut>>

\* mnl_socket_sendto: the kernel executes the request, or begins a dump.
Send == /\ pc = "send"
        /\ \/ /\ ret' = -ERR /\ Goto("cleanup")
              /\ UNCHANGED <<kind, dump, answer>>
           \/ /\ op[1] = "list"
              /\ at' = 0 /\ seen' = "none" /\ Goto("another")
              /\ UNCHANGED <<ret, kind, snap, answer>>
           \/ /\ op[1] # "list"
              /\ Execute(op[1], op[2]) /\ Goto("answer")
              /\ UNCHANGED <<ret, dump>>
        /\ UNCHANGED <<op, buf, nl, list, names, oom, cut>>

\* Mutant: the sign of the kernel's errno is not turned.
AnswerSign == /\ pc = "answer"
              /\ ret' \in {-ERR, -EINTR, answer}
              /\ Goto("cleanup")
              /\ UNCHANGED <<kind, dump, op, buf, nl, list, names, answer, oom, cut>>

\* add_del_iface: one recvmsg and mnl_cb_run.
Answer == /\ pc = "answer"
          /\ ret' \in {-ERR, -EINTR, -answer}
          /\ Goto("cleanup")
          /\ UNCHANGED <<kind, dump, op, buf, nl, list, names, answer, oom, cut>>

\* recvmsg fails at another:, or a signal interrupts it.
RecvFail == /\ pc = "another"
            /\ ret' \in {-ERR, -EINTR}
            /\ Goto("cleanup")
            /\ UNCHANGED <<kind, dump, op, buf, nl, list, names, answer, oom, cut>>

\* Mutant: links of every kind are listed.
IsListed(n) == kind[n] # "none"

\* parse_infomsg and parse_linkinfo: the link has a name and IFLA_INFO_KIND
\* "wireguard".
is_wireguard(n) == kind[n] = "wireguard"

\* string_list_add has to call realloc for link n.
Grows(n) == is_wireguard(n) /\ Length[n] > 0 /\ NoRoom(list, Length[n] + 1)

\* read_devices_cb on link n.
read_devices_cb(n) == IF is_wireguard(n) THEN string_list_add(list, n, Length[n] + 1) ELSE list

\* __mnl_cb_run on the message of the next link; MNL_CB_OK + 1 makes
\* fetch_device_names read another.  An interrupted dump ends with what there
\* is; a failed realloc is an error.
RecvLink ==
    /\ pc = "another"
    /\ \E n \in at + 1 .. N :
       /\ Links(kind) \cap (at + 1 .. n) = {n}
       /\ at' = n /\ seen' = "same"
       /\ snap' = IF seen = "none" THEN kind ELSE snap
       /\ \/ /\ DumpIntr
             /\ cut' = TRUE /\ ret' = 0 /\ Goto("cleanup")
             /\ UNCHANGED <<list, oom>>
          \/ /\ ~DumpIntr
             /\ list' = read_devices_cb(n)
             /\ UNCHANGED <<pc, ret, oom, cut>>
          \/ /\ ~DumpIntr /\ Grows(n) /\ oom < MaxOom
             /\ oom' = oom + 1 /\ ret' = -ERR /\ Goto("cleanup")
             /\ UNCHANGED <<list, cut>>
    /\ UNCHANGED <<kind, op, buf, nl, names, answer>>

\* Mutant: a dump that was interrupted is started again.
RecvDoneRetries ==
    /\ pc = "another"
    /\ Links(kind) \cap (at + 1 .. N) = {}
    /\ snap' = IF seen = "none" THEN kind ELSE snap
    /\ IF DumpIntr THEN list' = NewList /\ Goto("send") /\ UNCHANGED ret
       ELSE ret' = 0 /\ Goto("cleanup") /\ UNCHANGED list
    /\ UNCHANGED <<kind, at, seen, op, buf, nl, names, answer, oom, cut>>

\* NLMSG_DONE, which may have the flag too.
RecvDone == /\ pc = "another"
            /\ Links(kind) \cap (at + 1 .. N) = {}
            /\ snap' = IF seen = "none" THEN kind ELSE snap
            /\ cut' = DumpIntr
            /\ ret' = 0 /\ Goto("cleanup")
            /\ UNCHANGED <<kind, at, seen, op, buf, nl, list, names, answer, oom>>

\* What wg_list_device_names may return: NULL on an error, else the buffer, or
\* an empty string if there is none, for which strdup may fail.
Result == IF ret # 0 THEN {NULL}
          ELSE IF list.cap = 0 THEN {<<Nul>>, NULL} ELSE {list.buffer}

\* Mutant: wg_list_device_names does not free the list on an error.
CleanupKeepsList ==
    /\ pc = "cleanup"
    /\ buf' = FALSE /\ nl' = FALSE
    /\ Goto("done")
    /\ names' \in IF op[1] = "list" THEN Result ELSE {NULL}
    /\ UNCHANGED <<kind, dump, op, ret, list, answer, oom, cut>>

\* cleanup:, and the end of wg_list_device_names, which frees the list on an
\* error.
Cleanup == /\ pc = "cleanup"
           /\ buf' = FALSE /\ nl' = FALSE
           /\ Goto("done")
           /\ IF op[1] = "list"
              THEN /\ names' \in Result
                   /\ list' = IF ret # 0 THEN NewList ELSE list
              ELSE UNCHANGED <<names, list>>
           /\ UNCHANGED <<kind, dump, op, ret, answer, oom, cut>>

-----------------------------------------------------------------------------
Init == /\ kind \in [1 .. N -> Kinds]
        /\ at = 0 /\ seen = "none" /\ snap = kind
        /\ op \in Ops /\ pc = "setup" /\ ret = 0
        /\ buf = FALSE /\ nl = FALSE
        /\ list = NewList /\ names = NULL /\ answer = None
        /\ oom = 0 /\ cut = FALSE

Call == Setup \/ Send \/ Answer \/ RecvFail \/ RecvLink \/ RecvDone \/ Cleanup

Next == Call \/ \E n \in 1 .. N : Change(n)

Spec == Init /\ [][Next]_vars

\* The calling thread runs, and the kernel answers.
FairSpec == Spec /\ WF_vars(Call)
-----------------------------------------------------------------------------
\* The names of the WireGuard links among k, with their lengths, in the order
\* of a dump.
WgNames(k) ==
    LET upto[n \in 0 .. N] ==
          IF n = 0 THEN << >>
          ELSE IF k[n] = "wireguard" /\ Length[n] > 0
               THEN Append(upto[n - 1], [name |-> n, len |-> Length[n]])
               ELSE upto[n - 1]
    IN  upto[N]

\* The variables keep their types.
TypeOK == /\ kind \in [1 .. N -> Kinds] /\ snap \in [1 .. N -> Kinds]
          /\ at \in 0 .. N /\ seen \in {"none", "same", "changed"}
          /\ op \in Ops
          /\ pc \in {"setup", "send", "answer", "another", "cleanup", "done"}
          /\ ret \in {0, -EINTR, -ERR} /\ answer \in {0, ERR, None}
          /\ buf \in BOOLEAN /\ nl \in BOOLEAN /\ cut \in BOOLEAN
          /\ oom \in 0 .. MaxOom
          /\ list.len \in Nat /\ list.cap \in Nat

\* string_list_add writes inside the buffer and leaves the two terminators
\* behind the last name, whatever the names: first\0second\0...last\0\0.
DoubleNul == Terminated(list)

\* wg_for_each_device_name over the result visits the names the kernel had
\* when the dump began, each whole and once: all of them, or the first ones
\* if the links changed during the dump.
ListsSnapshot == pc = "done" /\ op[1] = "list" /\ names # NULL =>
    /\ IsPrefix(Walk(names), WgNames(snap))
    /\ ~cut => Walk(names) = WgNames(snap)

\* A call that returned has freed its buffer and closed its socket, and the
\* list lives on only as a result.
NothingLeaks == pc = "done" => ~buf /\ ~nl /\ (names = NULL => list = NewList)

\* Every call returns even if the links never stop changing: an interrupted
\* dump is not tried again, but ends with what there is.
Returns == <>(pc = "done")
=============================================================================

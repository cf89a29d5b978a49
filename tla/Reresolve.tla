------------------------------ MODULE Reresolve ------------------------------
(***************************************************************************)
(* reresolve-dns.sh ("sh"), reresolve-dns-loop.sh ("loop") and             *)
(* WireGuard-Reresolve.ps1 ("ps1"): read the configuration of an interface *)
(* line by line and give the peers without a recent handshake the present  *)
(* address of their endpoint's name.                                       *)
(***************************************************************************)
EXTENDS Integers, Sequences, FiniteSets

CONSTANTS Peer, Name,
          Home,       \* Home[p]: the name that follows the address of p
          Conf,       \* the lines, [key |-> ..., value |-> ...]
          Scripts,    \* the scripts to run, of "sh", "loop" and "ps1"
          Unreliable, \* names that perhaps never resolve
          Null,
          MaxMove,    \* bound: how often each name gets a new address
          MaxFail     \* bound: failures of wg set

ASSUME ConfAssumption == /\ Home \in [Peer -> Name] /\ Null \notin Peer \cup Name
                         /\ Scripts \subseteq {"sh", "loop", "ps1"} /\ Unreliable \subseteq Name
                         /\ Conf \in Seq([key : STRING, value : Peer \cup Name \cup {Null}])
ASSUME BoundAssumption == MaxMove \in [Name -> Nat] /\ MaxFail \in Nat

VARIABLES script, broken,          \* the script; names that do not resolve
          dns,                     \* the present address of each name
          endpoint, stale,         \* the interface: endpoints, old handshakes
          pc, at,                  \* the script, and the line it is at
          PEER_SECTION, PUBLIC_KEY, ENDPOINT,
          failed                   \* failures of wg set

chosen == <<script, broken>>
file == <<pc, at>>
section == <<PEER_SECTION, PUBLIC_KEY, ENDPOINT>>
vars == <<chosen, dns, endpoint, stale, file, section, failed>>

addr(name) == <<name, dns[name]>>
Line == Conf[at]
InSection == at <= Len(Conf) /\ Line.key \notin {"[Interface]", "[Peer]"}

-----------------------------------------------------------------------------
(* The network and the interface (external).                               *)

\* The host of a name gets another address.
Move(name) == /\ dns[name] < MaxMove[name]
              /\ dns' = [dns EXCEPT ![name] = @ + 1]
              /\ UNCHANGED <<chosen, endpoint, stale, file, section, failed>>

\* More than 135 seconds have passed since the last handshake.
Age(p) == /\ ~stale[p]
          /\ stale' = [stale EXCEPT ![p] = TRUE]
          /\ UNCHANGED <<chosen, dns, endpoint, file, section, failed>>

\* A handshake that the peer begins shows where it is.
Contact(p) == /\ endpoint' = [endpoint EXCEPT ![p] = addr(Home[p])]
              /\ stale' = [stale EXCEPT ![p] = FALSE]
              /\ UNCHANGED <<chosen, dns, file, section, failed>>

-----------------------------------------------------------------------------
\* A new process has empty variables.
Start == /\ pc = "idle"
         /\ pc' = "read" /\ at' = 1
         /\ PEER_SECTION' = FALSE /\ PUBLIC_KEY' = Null /\ ENDPOINT' = Null
         /\ UNCHANGED <<chosen, dns, endpoint, stale, failed>>

\* Mutant: the endpoint survives the end of its section.
ResetKeepsEndpoint(peer_section) ==
    PEER_SECTION' = peer_section /\ PUBLIC_KEY' = Null /\ UNCHANGED ENDPOINT

\* reset_peer_section, and PEER_SECTION after it.  Set-Variable of the ps1
\* script sets variables of the function itself, and the caller's stay.
reset_peer_section(peer_section) ==
    IF script = "ps1"
    THEN PEER_SECTION' = (peer_section \/ PEER_SECTION) /\ UNCHANGED <<PUBLIC_KEY, ENDPOINT>>
    ELSE PEER_SECTION' = peer_section /\ PUBLIC_KEY' = Null /\ ENDPOINT' = Null

\* case "$key".
ReadKey == /\ PUBLIC_KEY' = IF PEER_SECTION /\ Line.key = "PublicKey" THEN Line.value ELSE PUBLIC_KEY
           /\ ENDPOINT' = IF PEER_SECTION /\ Line.key = "Endpoint" THEN Line.value ELSE ENDPOINT

\* Mutant: process_peer is not called after the last line.
ReadNoLast == /\ pc = "read"
              /\ \/ /\ InSection
                    /\ ReadKey
                    /\ at' = at + 1
                    /\ UNCHANGED <<pc, PEER_SECTION>>
                 \/ /\ ~InSection
                    /\ pc' = IF at > Len(Conf) THEN "idle" ELSE "process_peer"
                    /\ UNCHANGED <<at, section>>
              /\ UNCHANGED <<chosen, dns, endpoint, stale, failed>>

\* One line; a header first closes the section before it.
Read == /\ pc = "read"
        /\ \/ /\ InSection
              /\ ReadKey
              /\ at' = at + 1
              /\ UNCHANGED <<pc, PEER_SECTION>>
           \/ /\ ~InSection
              /\ pc' = "process_peer"
              /\ UNCHANGED <<at, section>>
        /\ UNCHANGED <<chosen, dns, endpoint, stale, failed>>

\* The whole file has been read.
AtEnd == at > Len(Conf)

\* What follows process_peer: the section of the header, or the end of the run
\* (the loop script sleeps and calls it again).
Return == IF AtEnd
          THEN /\ pc' = IF script = "loop" THEN "sleep" ELSE "idle"
               /\ UNCHANGED at
          ELSE pc' = "read" /\ at' = at + 1

\* The early returns of process_peer; wg show tells the age of the handshake.
\* The ps1 script matches an array if there are several peers, which leaves
\* $matches alone: the test of the age throws, and the next line runs.
Due == /\ PEER_SECTION /\ PUBLIC_KEY # Null /\ ENDPOINT # Null
       /\ stale[PUBLIC_KEY] \/ (script = "ps1" /\ Cardinality(Peer) > 1)

Show == /\ pc = "process_peer"
        /\ IF Due THEN pc' = "wg set" /\ UNCHANGED <<at, section>>
           ELSE /\ Return
                /\ IF AtEnd THEN UNCHANGED section
                   ELSE reset_peer_section(Line.key = "[Peer]")
        /\ UNCHANGED <<chosen, dns, endpoint, stale, failed>>

\* wg set resolves the name and sets the endpoint.
Set == /\ pc = "wg set" /\ ENDPOINT \notin broken
       /\ endpoint' = [endpoint EXCEPT ![PUBLIC_KEY] = addr(ENDPOINT)]
       /\ Return
       /\ reset_peer_section(~AtEnd /\ Line.key = "[Peer]")
       /\ UNCHANGED <<chosen, dns, stale, failed>>

\* wg set fails: set -e ends the shell scripts.
SetFails == /\ pc = "wg set"
            /\ IF ENDPOINT \in broken THEN UNCHANGED failed
               ELSE failed < MaxFail /\ failed' = failed + 1
            /\ IF script = "ps1"
               THEN Return /\ reset_peer_section(~AtEnd /\ Line.key = "[Peer]")
               ELSE pc' = "idle" /\ UNCHANGED <<at, section>>
            /\ UNCHANGED <<chosen, dns, endpoint, stale>>

\* The loop script wakes up.
Wake == /\ pc = "sleep"
        /\ pc' = "process_peer"
        /\ UNCHANGED <<chosen, at, dns, endpoint, stale, section, failed>>

-----------------------------------------------------------------------------
Init == /\ script \in Scripts /\ broken \in SUBSET Unreliable
        /\ dns = [n \in Name |-> 0]
        /\ endpoint = [p \in Peer |-> Null] /\ stale = [p \in Peer |-> TRUE]
        /\ pc = "idle" /\ at = 1
        /\ PEER_SECTION = FALSE /\ PUBLIC_KEY = Null /\ ENDPOINT = Null
        /\ failed = 0

Run == Start \/ Read \/ Show \/ Set \/ Wake

Next == \/ Run \/ SetFails
        \/ \E n \in Name : Move(n)
        \/ \E p \in Peer : Age(p) \/ Contact(p)

Spec == Init /\ [][Next]_vars

\* The script runs again and again, and time passes: a handshake gets old once
\* the peer is somewhere else.
FairSpec == /\ Spec /\ WF_vars(Run \/ SetFails)
            /\ \A p \in Peer : WF_vars(Age(p) /\ endpoint[p] # addr(Home[p]))

-----------------------------------------------------------------------------
\* The variables keep their types.
TypeOK == /\ dns \in [Name -> Nat] /\ stale \in [Peer -> BOOLEAN]
          /\ endpoint \in [Peer -> (Name \X Nat) \cup {Null}]
          /\ pc \in {"idle", "read", "process_peer", "wg set", "sleep"}
          /\ at \in 1 .. Len(Conf) + 1
          /\ PEER_SECTION \in BOOLEAN
          /\ PUBLIC_KEY \in Peer \cup {Null} /\ ENDPOINT \in Name \cup {Null}
          /\ failed \in 0 .. MaxFail
          /\ pc = "wg set" => PUBLIC_KEY # Null /\ ENDPOINT # Null

\* A peer is only ever pointed at its own host, in whatever order the sections
\* and their lines come and whichever of them have no Endpoint: what the
\* translation to PowerShell takes over from the shell scripts.
OnlyOwnHost == \A p \in Peer : endpoint[p] # Null => endpoint[p][1] = Home[p]

\* The shell scripts, also the one that calls process_peer after the file has
\* been read, do not carry a key or an endpoint from one section to the next.
OwnEndpoint == script # "ps1" => OnlyOwnHost

\* The peers whose section has an Endpoint that resolves.
Followed == {p \in Peer : Home[p] \notin broken /\ \E n \in 1 .. Len(Conf) :
                             Conf[n] = [key |-> "Endpoint", value |-> Home[p]]}

\* When the address of a name changes, the interface gets it in the end from
\* the cron script, if all names resolve, and from the PowerShell script,
\* which goes on after a wg set that failed, in any case.  Not stated are: the
\* cron script with a name that never resolves, where set -e ends every run
\* before the sections after it, although reresolve-dns/README:4-6 makes no
\* exception; and the loop script, which never reads the file again.
Updates == (script = "sh" /\ broken = {}) \/ script = "ps1" =>
               \A p \in Peer : []<>(p \in Followed => endpoint[p] = addr(Home[p]))
=============================================================================

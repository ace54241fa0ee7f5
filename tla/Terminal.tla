-------------------------------- MODULE Terminal -------------------------------
(***************************************************************************)
(* The web terminal (common/consumers.py): one consumer per WebSocket, an   *)
(* SSH connection behind it, and a reader that carries the shell's output   *)
(* back.  Logins and readers take their threads from the event loop's one   *)
(* pool, first come first served, and a reader keeps its thread.            *)
(*                                                                          *)
(* The server hands a consumer its events one at a time, so that a browser  *)
(* that leaves during connect() is noticed when connect() is done, unless   *)
(* the server loses patience first and cancels it.                          *)
(***************************************************************************)
EXTENDS Naturals, Sequences, FiniteSets

CONSTANTS
    Sessions,   \* WebSockets
    Pool        \* threads of the event loop's executor

VARIABLES
    handler,    \* how far each consumer has come
    left,       \* sessions whose browser has gone, or asked to be disconnected
    ssh,        \* the SSH connection of each session...
    chan,       \* ... and its channel, as the consumer knows it
    running,    \* the consumer's flag _running
    thread,     \* what runs in the pool for each session
    queue,      \* sessions whose login or reader waits for a thread, in order
    told,       \* sessions told that their shell is gone
    shellless   \* history: logins that failed once the connection was up

vars == <<handler, left, ssh, chan, running, thread, queue, told, shellless>>

--------------------------------------------------------------------------------
\* Threads at work; a login goes on when its consumer has been cancelled.
Holders == {s \in Sessions : thread[s] \in {"login", "reader"}}
Free == Cardinality(Holders) < Pool
Queued(s) == \E n \in 1..Len(queue) : queue[n] = s
InConnect(s) == handler[s] \in {"waiting", "announcing"}

Init ==
    /\ handler = [s \in Sessions |-> "new"]
    /\ left = {}
    /\ ssh = [s \in Sessions |-> "none"]
    /\ chan = [s \in Sessions |-> "none"]
    /\ running = {}
    /\ thread = [s \in Sessions |-> "none"]
    /\ queue = <<>>
    /\ told = {}
    /\ shellless = {}

Goto(s, state) == handler' = [handler EXCEPT ![s] = state]

--------------------------------------------------------------------------------
(* connect() *)

\* Nobody is logged in, or the host, or its first address, does not exist.
Reject(s) ==
    /\ handler[s] = "new"
    /\ Goto(s, "rejected")
    /\ UNCHANGED <<left, ssh, chan, running, thread, queue, told, shellless>>

Accept(s) ==
    /\ handler[s] = "new"
    /\ Goto(s, "waiting")
    /\ queue' = Append(queue, s)
    /\ UNCHANGED <<left, ssh, chan, running, thread, told, shellless>>

\* A free thread takes the next piece of work: the login of a consumer that
\* waits for it, or the reader of one that has announced the connection.
StartThread ==
    /\ queue # <<>>
    /\ Free
    /\ LET s == Head(queue) IN
       thread' = [thread EXCEPT ![s] = IF handler[s] = "waiting" THEN "login" ELSE "reader"]
    /\ queue' = Tail(queue)
    /\ UNCHANGED <<handler, left, ssh, chan, running, told, shellless>>

\* _connect_ssh returns to a consumer that still waits for it, or to nobody.
LoginSucceeds(s) ==
    /\ thread[s] = "login"
    /\ thread' = [thread EXCEPT ![s] = "none"]
    /\ ssh' = [ssh EXCEPT ![s] = "open"]
    /\ IF handler[s] = "waiting"
       THEN chan' = [chan EXCEPT ![s] = "open"] /\ Goto(s, "announcing")
       ELSE UNCHANGED <<chan, handler>>
    /\ UNCHANGED <<left, running, queue, told, shellless>>

\* When no shell can be opened the connection made before stays open, and only
\* the function that has just raised knows it.
LoginFails(s) ==
    /\ thread[s] = "login"
    /\ thread' = [thread EXCEPT ![s] = "none"]
    /\ \/ UNCHANGED <<ssh, shellless>>
       \/ ssh' = [ssh EXCEPT ![s] = "open"] /\ shellless' = shellless \cup {s}
    /\ IF handler[s] = "waiting" THEN Goto(s, "failed") ELSE UNCHANGED handler
    /\ UNCHANGED <<left, chan, running, queue, told>>

Announce(s) ==
    /\ handler[s] = "announcing"
    /\ Goto(s, "open")
    /\ running' = running \cup {s}
    /\ queue' = Append(queue, s)
    /\ UNCHANGED <<left, ssh, chan, thread, told, shellless>>

\* The queue without s, which never waits in it twice.
Without(s) ==
    LET n == CHOOSE n \in 1..Len(queue) : queue[n] = s
    IN  SubSeq(queue, 1, n - 1) \o SubSeq(queue, n + 1, Len(queue))

\* The server cancels a consumer that has not come back to its disconnect
\* event; work not yet begun leaves the pool's queue.
Cancel(s) ==
    /\ s \in left
    /\ InConnect(s)
    /\ Goto(s, "cancelled")
    /\ queue' = IF Queued(s) THEN Without(s) ELSE queue
    /\ UNCHANGED <<left, ssh, chan, running, thread, told, shellless>>

--------------------------------------------------------------------------------
(* The reader, the remote end and the browser *)

\* Data, EOF and silence: only what ends the loop is a step of its own.
EndReader(s) ==
    /\ thread[s] = "reader"
    /\ s \notin running \/ chan[s] # "open"
    /\ thread' = [thread EXCEPT ![s] = "none"]
    /\ told' = IF s \in running THEN told \cup {s} ELSE told
    /\ UNCHANGED <<handler, left, ssh, chan, running, queue, shellless>>

ShellExits(s) ==
    /\ chan[s] = "open"
    /\ chan' = [chan EXCEPT ![s] = "eof"]
    /\ UNCHANGED <<handler, left, ssh, running, thread, queue, told, shellless>>

Leave(s) ==
    /\ handler[s] # "new" /\ s \notin left
    /\ left' = left \cup {s}
    /\ UNCHANGED <<handler, ssh, chan, running, thread, queue, told, shellless>>

CloseIfShellBug(s) ==
    IF chan[s] = "open"
    THEN chan' = [chan EXCEPT ![s] = "closed"] /\ ssh' = [ssh EXCEPT ![s] = "closed"]
    ELSE UNCHANGED <<chan, ssh>>

CloseAll(s) ==
    /\ chan' = [chan EXCEPT ![s] = IF @ = "none" THEN @ ELSE "closed"]
    /\ ssh' = [ssh EXCEPT ![s] = IF chan[s] = "none" THEN @ ELSE "closed"]

DisconnectForgottenBug(s) ==
    /\ s \in left
    /\ handler[s] \in {"open", "failed", "rejected"}
    /\ Goto(s, "over")
    /\ UNCHANGED <<left, ssh, chan, running, thread, queue, told, shellless>>

\* disconnect(): a rejected consumer has none of these attributes and raises,
\* to no effect.
Disconnect(s) ==
    /\ s \in left
    /\ handler[s] \in {"open", "failed", "rejected"}
    /\ running' = running \ {s}
    /\ CloseAll(s)
    /\ Goto(s, "over")
    /\ UNCHANGED <<left, thread, queue, told, shellless>>

Next ==
    \/ StartThread
    \/ \E s \in Sessions :
        \/ Reject(s)
        \/ Accept(s)
        \/ LoginSucceeds(s)
        \/ LoginFails(s)
        \/ Announce(s)
        \/ Cancel(s)
        \/ EndReader(s)
        \/ ShellExits(s)
        \/ Leave(s)
        \/ Disconnect(s)

Spec == Init /\ [][Next]_vars

\* The event loop and the pool go on, a login ends within its timeout, and
\* every user leaves in the end; shells may run for ever.
Fairness ==
    /\ WF_vars(StartThread)
    /\ \A s \in Sessions :
        /\ WF_vars(LoginSucceeds(s) \/ LoginFails(s))
        /\ WF_vars(Announce(s))
        /\ WF_vars(EndReader(s))
        /\ WF_vars(Leave(s))
        /\ WF_vars(Disconnect(s))

FairSpec == Spec /\ Fairness

--------------------------------------------------------------------------------
(* Properties *)

TypeOK ==
    /\ handler \in [Sessions -> {"new", "waiting", "announcing", "open", "failed", "rejected",
                                 "cancelled", "over"}]
    /\ left \subseteq Sessions
    /\ ssh \in [Sessions -> {"none", "open", "closed"}]
    /\ chan \in [Sessions -> {"none", "open", "eof", "closed"}]
    /\ running \subseteq Sessions
    /\ thread \in [Sessions -> {"none", "login", "reader"}]
    /\ queue \in Seq(Sessions)
    /\ told \subseteq Sessions
    /\ shellless \subseteq Sessions

\* Whatever connect() and disconnect() met on the way, a session that is over
\* leaves no SSH connection behind, except the one whose shell was refused and
\* the one whose consumer was cancelled while the connection was being made.
NoOrphanConnection ==
    \A s \in Sessions : handler[s] = "over" /\ ssh[s] = "open" => s \in shellless

\* The pool is not used up by sessions that are over: as long as users leave in
\* the end, whoever waits for a thread gets one, or gives up.
ThreadsComeBack ==
    \A s \in Sessions : Queued(s) ~> ~Queued(s)
================================================================================

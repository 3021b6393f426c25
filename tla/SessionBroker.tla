---------------------------- MODULE SessionBroker ----------------------------
(***************************************************************************)
(* finn-session (src/session/main.cpp), the unix socket it listens on, and *)
(* SessionClient (src/session/client.cpp), through which the shell and     *)
(* `finn-session --list | --launch' call it.                               *)
(*                                                                         *)
(* The broker is one thread: it accepts a connection, reads one line,      *)
(* answers, closes, and accepts the next.  Whoever it reads from holds up  *)
(* everybody else and its own end.  systemd starts it again when it failed *)
(* (Restart=on-failure); anybody may start a second one by hand.           *)
(*                                                                         *)
(* A request is its kind; the catalogue, and with it the reason of a       *)
(* refusal, is left to chance.  A reply of several lines is one step: a    *)
(* caller that sees only a part of one fails as if it had seen none.       *)
(***************************************************************************)
EXTENDS Naturals, Sequences

CONSTANTS
  Service,      \* the broker of finn-session.service
  Manual,       \* brokers started by hand
  Clients,      \* the callers: a process makes one call at a time
  Others,       \* those of another user: root
  Backlog,      \* listen(listen_fd, 16)
  None          \* nothing, nobody

Brokers == {Service} \cup Manual
Requests == {"list", "launch", "quit", "long"}   \* "long": over 4096 bytes
Stale == "stale"                \* a socket whose broker has died

ASSUME ClientsAssumption == Others \subseteq Clients /\ None \notin Clients
ASSUME BrokersAssumption == {None, Stale} \cap Brokers = {} /\ None # Stale
ASSUME BacklogAssumption == Backlog \in Nat

VARIABLES
  phase,        \* phase[b]: where b is in run_server
  running,      \* g_running of b, which starts as 1
  path,         \* what session_socket_path() names: whose socket, or None
  backlog,      \* backlog[b]: connections b has not accepted
  serving,      \* serving[b]: the connection b has accepted
  answer,       \* answer[b]: the reply b is about to write
  stage,        \* stage[c]: where c is in SessionClient, or how it returned
  request,      \* request[c]: what c calls for
  line,         \* line[c]: the line of c is in its connection
  reply,        \* reply[c]: the reply that is in the connection
  started,      \* started[c]: programs posix_spawn started for this call
  hung          \* clients that were stopped before they sent their line

brokerVars == <<phase, running, path, backlog, serving, answer>>
clientVars == <<stage, request, line, reply, hung>>
vars == <<brokerVars, clientVars, started>>

Looping == {"loop", "poll", "read", "handle", "reply"}
Listening(b) == phase[b] \in Looping
Calling(c) == stage[c] \in {"connected", "sent"}

(* The broker's end of the connection of c is open.                        *)
HeldBy(c, b) ==
  serving[b] = c \/ \E i \in DOMAIN backlog[b] : backlog[b][i] = c
Held(c) == \E b \in Brokers : HeldBy(c, b)

Results == {"ok", "err", "lost"}

(* What there was of the last call of c goes with its connection.          *)
Forget(c) ==
  /\ line' = [line EXCEPT ![c] = FALSE]
  /\ reply' = [reply EXCEPT ![c] = None]
  /\ started' = [started EXCEPT ![c] = 0]

----------------------------------------------------------------------------
(* SessionClient::list and launch.                                         *)

(* connect: the kernel queues the connection, or blocks on a full backlog. *)
Call(c, r) ==
  /\ stage[c] \in Results
  /\ ~Held(c)
  /\ c \in Others => r = "list"     \* no matter: it is not read
  /\ \E b \in Brokers :
       /\ path = b
       /\ Listening(b)
       /\ Len(backlog[b]) <= Backlog
       /\ backlog' = [backlog EXCEPT ![b] = Append(@, c)]
  /\ stage' = [stage EXCEPT ![c] = "connected"]
  /\ request' = [request EXCEPT ![c] = r]
  /\ Forget(c)
  /\ UNCHANGED <<phase, running, path, serving, answer, hung>>

(* "cannot reach finn-session".                                            *)
CallFails(c) ==
  /\ stage[c] \in Results
  /\ ~Held(c)
  /\ \A b \in Brokers : path = b => ~Listening(b)
  /\ stage' = [stage EXCEPT ![c] = "err"]
  /\ request' = [request EXCEPT ![c] = "list"]
  /\ Forget(c)
  /\ UNCHANGED <<brokerVars, hung>>

Send(c) ==
  /\ stage[c] = "connected"
  /\ c \notin hung
  /\ Held(c)
  /\ stage' = [stage EXCEPT ![c] = "sent"]
  /\ line' = [line EXCEPT ![c] = TRUE]
  /\ UNCHANGED <<brokerVars, request, reply, hung, started>>

(* A call returns: its connection is closed.                               *)
Return(c, result) ==
  /\ stage' = [stage EXCEPT ![c] = result]
  /\ request' = [request EXCEPT ![c] = "list"]
  /\ Forget(c)
  /\ UNCHANGED <<brokerVars, hung>>

(* "cannot send": the broker has closed the connection.                    *)
SendFails(c) ==
  /\ stage[c] = "connected"
  /\ c \notin hung
  /\ ~Held(c)
  /\ Return(c, "err")

Receive(c) ==
  /\ stage[c] = "sent"
  /\ reply[c] # None
  /\ Return(c, reply[c])

(* "no reply from finn-session", or a list that ended early.               *)
ReceiveNothing(c) ==
  /\ stage[c] = "sent"
  /\ reply[c] = None
  /\ ~Held(c)
  /\ Return(c, "lost")

(* The caller is killed; what it sent stays in the connection.             *)
Kill(c) ==
  /\ Calling(c)
  /\ stage' = [stage EXCEPT ![c] = "lost"]
  /\ hung' = hung \ {c}
  /\ \/ Held(c) /\ UNCHANGED <<request, line, reply, started>>
     \/ ~Held(c) /\ Forget(c) /\ request' = [request EXCEPT ![c] = "list"]
  /\ UNCHANGED brokerVars

(* The caller is stopped between connect and write, for good.              *)
Hang(c) ==
  /\ stage[c] = "connected"
  /\ hung' = hung \cup {c}
  /\ UNCHANGED <<brokerVars, stage, request, line, reply, started>>

----------------------------------------------------------------------------
(* run_server.                                                             *)

PrepareKeeping(b) ==                \* mutant: a stale socket is not unlinked
  /\ phase[b] \in {"off", "failed"}
  /\ phase' = [phase EXCEPT ![b] = "prepared"]
  /\ UNCHANGED <<running, path, backlog, serving, answer, clientVars, started>>

(* prepare_socket: whatever socket is there is unlinked, dangling or not.  *)
Prepare(b) ==
  /\ phase[b] \in {"off", "failed"}
  /\ phase' = [phase EXCEPT ![b] = "prepared"]
  /\ path' = None
  /\ UNCHANGED <<running, backlog, serving, answer, clientVars, started>>

(* bind, listen and the signal handlers.                                   *)
Bind(b) ==
  /\ phase[b] = "prepared"
  /\ path = None
  /\ phase' = [phase EXCEPT ![b] = "loop"]
  /\ path' = b
  /\ UNCHANGED <<running, backlog, serving, answer, clientVars, started>>

BindFails(b) ==
  /\ phase[b] = "prepared"
  /\ path # None
  /\ phase' = [phase EXCEPT ![b] = "failed"]
  /\ UNCHANGED <<running, path, backlog, serving, answer, clientVars, started>>

LoopForever(b) ==                   \* mutant: g_running is not looked at
  /\ phase[b] = "loop"
  /\ phase' = [phase EXCEPT ![b] = "poll"]
  /\ UNCHANGED <<running, path, backlog, serving, answer, clientVars, started>>

(* while (g_running != 0); the connections that wait are closed with it.   *)
Loop(b) ==
  /\ phase[b] = "loop"
  /\ \/ /\ running[b]
        /\ phase' = [phase EXCEPT ![b] = "poll"]
        /\ UNCHANGED backlog
     \/ /\ ~running[b]
        /\ phase' = [phase EXCEPT ![b] = "closing"]
        /\ backlog' = [backlog EXCEPT ![b] = <<>>]
  /\ UNCHANGED <<running, path, serving, answer, clientVars, started>>

(* poll timed out, or was interrupted.                                     *)
PollAgain(b) ==
  /\ phase[b] = "poll"
  /\ backlog[b] = <<>> \/ ~running[b]
  /\ phase' = [phase EXCEPT ![b] = "loop"]
  /\ UNCHANGED <<running, path, backlog, serving, answer, clientVars, started>>

(* poll or accept fails for good: run_server ends, and ends well.          *)
AcceptFails(b) ==
  /\ phase[b] = "poll"
  /\ phase' = [phase EXCEPT ![b] = "closing"]
  /\ backlog' = [backlog EXCEPT ![b] = <<>>]
  /\ UNCHANGED <<running, path, serving, answer, clientVars, started>>

AcceptAnyone(b) ==                  \* mutant: no SO_PEERCRED
  /\ phase[b] = "poll"
  /\ backlog[b] # <<>>
  /\ backlog' = [backlog EXCEPT ![b] = Tail(@)]
  /\ serving' = [serving EXCEPT ![b] = Head(backlog[b])]
  /\ phase' = [phase EXCEPT ![b] = "read"]
  /\ UNCHANGED <<running, path, answer, clientVars, started>>

(* accept4; a caller of another user (SO_PEERCRED) is closed at once.      *)
Accept(b) ==
  /\ phase[b] = "poll"
  /\ backlog[b] # <<>>
  /\ backlog' = [backlog EXCEPT ![b] = Tail(@)]
  /\ LET c == Head(backlog[b]) IN
       \/ /\ c \notin Others
          /\ serving' = [serving EXCEPT ![b] = c]
          /\ phase' = [phase EXCEPT ![b] = "read"]
       \/ /\ c \in Others
          /\ phase' = [phase EXCEPT ![b] = "loop"]
          /\ UNCHANGED serving
  /\ UNCHANGED <<running, path, answer, clientVars, started>>

(* read_line, which a signal does not end.                                 *)
ReadLine(b) ==
  /\ phase[b] = "read"
  /\ line[serving[b]] /\ request[serving[b]] # "long"
  /\ phase' = [phase EXCEPT ![b] = "handle"]
  /\ UNCHANGED <<running, path, backlog, serving, answer, clientVars, started>>

ReadPastTheEnd(b) ==                \* mutant: read tries again on a count of 0
  /\ phase[b] = "read"
  /\ line[serving[b]] /\ request[serving[b]] = "long"
  /\ phase' = [phase EXCEPT ![b] = "loop"]
  /\ serving' = [serving EXCEPT ![b] = None]
  /\ UNCHANGED <<running, path, backlog, answer, clientVars, started>>

(* It fails: the caller has gone without a word, or does not end.          *)
ReadFails(b) ==
  /\ phase[b] = "read"
  /\ \/ line[serving[b]] /\ request[serving[b]] = "long"
     \/ ~line[serving[b]] /\ stage[serving[b]] # "connected"
  /\ phase' = [phase EXCEPT ![b] = "loop"]
  /\ serving' = [serving EXCEPT ![b] = None]
  /\ UNCHANGED <<running, path, backlog, answer, clientVars, started>>

HandleUnchecked(b) ==               \* mutant: posix_spawn's result is not looked at
  /\ phase[b] = "handle"
  /\ \/ /\ request[serving[b]] = "launch"
        /\ started' = [started EXCEPT ![serving[b]] = @ + 1]
     \/ UNCHANGED started
  /\ answer' = [answer EXCEPT ![b] = "ok"]
  /\ phase' = [phase EXCEPT ![b] = "reply"]
  /\ UNCHANGED <<running, path, backlog, serving, clientVars>>

(* handle_request.  A launch starts the program and is OK, or it is        *)
(* refused, by launch_reply or, if the command went since, by posix_spawn. *)
Handle(b) ==
  /\ phase[b] = "handle"
  /\ phase' = [phase EXCEPT ![b] = "reply"]
  /\ \/ /\ request[serving[b]] = "launch"
        /\ started' = [started EXCEPT ![serving[b]] = @ + 1]
        /\ answer' = [answer EXCEPT ![b] = "ok"]
     \/ /\ request[serving[b]] # "quit"
        /\ answer' = [answer EXCEPT ![b] = "err"]
        /\ UNCHANGED started
     \/ /\ request[serving[b]] # "launch"
        /\ answer' = [answer EXCEPT ![b] = "ok"]
        /\ UNCHANGED started
  /\ UNCHANGED <<running, path, backlog, serving, clientVars>>

(* write_all, whose result is not looked at, QUIT, and close.              *)
Reply(b) ==
  /\ phase[b] = "reply"
  /\ phase' = [phase EXCEPT ![b] = "loop"]
  /\ reply' = [reply EXCEPT ![serving[b]] = answer[b]]
  /\ running' = [running EXCEPT ![b] = @ /\ request[serving[b]] # "quit"]
  /\ serving' = [serving EXCEPT ![b] = None]
  /\ answer' = [answer EXCEPT ![b] = None]
  /\ UNCHANGED <<path, backlog, stage, request, line, hung, started>>

UnlinkNothing(b) ==                 \* mutant: the socket is left behind
  /\ phase[b] = "closing"
  /\ phase' = [phase EXCEPT ![b] = "gone"]
  /\ path' = IF path = b THEN Stale ELSE path
  /\ running' = [running EXCEPT ![b] = TRUE]
  /\ UNCHANGED <<backlog, serving, answer, clientVars, started>>

(* The unlink at the end, of whatever is there; run_server returns 0.      *)
Unlink(b) ==
  /\ phase[b] = "closing"
  /\ phase' = [phase EXCEPT ![b] = "gone"]
  /\ path' = None
  /\ running' = [running EXCEPT ![b] = TRUE]
  /\ UNCHANGED <<backlog, serving, answer, clientVars, started>>

(* SIGTERM or SIGINT.                                                      *)
Terminate(b) ==
  /\ Listening(b)
  /\ running[b]
  /\ running' = [running EXCEPT ![b] = FALSE]
  /\ UNCHANGED <<phase, path, backlog, serving, answer, clientVars, started>>

(* b dies; its socket stays behind.                                        *)
Crash(b) ==
  /\ Listening(b) \/ phase[b] = "closing"
  /\ phase' = [phase EXCEPT ![b] = "failed"]
  /\ path' = IF path = b THEN Stale ELSE path
  /\ backlog' = [backlog EXCEPT ![b] = <<>>]
  /\ serving' = [serving EXCEPT ![b] = None]
  /\ answer' = [answer EXCEPT ![b] = None]
  /\ running' = [running EXCEPT ![b] = TRUE]
  /\ UNCHANGED <<clientVars, started>>

----------------------------------------------------------------------------
Init ==
  /\ phase = [b \in Brokers |-> "off"]
  /\ running = [b \in Brokers |-> TRUE]
  /\ path \in {None, Stale}
  /\ backlog = [b \in Brokers |-> <<>>]
  /\ serving = [b \in Brokers |-> None]
  /\ answer = [b \in Brokers |-> None]
  /\ stage = [c \in Clients |-> "lost"]
  /\ request = [c \in Clients |-> "list"]
  /\ line = [c \in Clients |-> FALSE]
  /\ reply = [c \in Clients |-> None]
  /\ started = [c \in Clients |-> 0]
  /\ hung = {}

Returns(c) == Send(c) \/ SendFails(c) \/ Receive(c) \/ ReceiveNothing(c)

ClientStep(c) ==
  \/ \E r \in Requests : Call(c, r)
  \/ CallFails(c)
  \/ Returns(c)
  \/ Kill(c)
  \/ Hang(c)

(* What a broker does of itself once it has begun.                         *)
Runs(b) ==
  \/ Bind(b)
  \/ BindFails(b)
  \/ Loop(b)
  \/ PollAgain(b)
  \/ Accept(b)
  \/ ReadLine(b)
  \/ ReadFails(b)
  \/ Handle(b)
  \/ Reply(b)
  \/ Unlink(b)

BrokerStep(b) ==
  \/ Prepare(b)
  \/ Runs(b)
  \/ AcceptFails(b)
  \/ Terminate(b)
  \/ Crash(b)

Next ==
  \/ \E c \in Clients : ClientStep(c)
  \/ \E b \in Brokers : BrokerStep(b)

(* The processes are scheduled, and systemd starts the service at boot and *)
(* when it failed.  None for the start of the calls and of manual brokers, *)
(* for signals, and for a caller that is stopped.                          *)
BrokerIsScheduled(b) == WF_vars(Runs(b))
CallerIsScheduled(c) == WF_vars(Returns(c))
Fairness ==
  /\ WF_vars(Prepare(Service))
  /\ \A b \in Brokers : BrokerIsScheduled(b)
  /\ \A c \in Clients : CallerIsScheduled(c)

Spec == Init /\ [][Next]_vars /\ Fairness

----------------------------------------------------------------------------
(* Properties.                                                             *)

(* Every variable keeps its shape.                                         *)
TypeOK ==
  /\ phase \in [Brokers -> Looping \cup
                 {"off", "prepared", "closing", "gone", "failed"}]
  /\ running \in [Brokers -> BOOLEAN]
  /\ path \in Brokers \cup {None, Stale}
  /\ \A b \in Brokers :
       /\ backlog[b] \in Seq(Clients)
       /\ Len(backlog[b]) <= Backlog + 1
       /\ serving[b] \in IF phase[b] \in {"read", "handle", "reply"}
                           THEN Clients \ Others ELSE {None}
  /\ answer \in [Brokers -> {"ok", "err", None}]
  /\ stage \in [Clients -> Results \cup {"connected", "sent"}]
  /\ request \in [Clients -> Requests]
  /\ line \in [Clients -> BOOLEAN]
  /\ reply \in [Clients -> {"ok", "err", None}]
  /\ started \in [Clients -> Nat]
  /\ hung \subseteq Clients

(* A broker that is the only one is the one callers find: while it accepts *)
(* connections the path is its socket, through crashes and restarts, and   *)
(* when it ends well it leaves no socket behind.  (A second broker takes   *)
(* the path from the first and, on its way out, from everybody.)           *)
Alone(b) == \A d \in Brokers \ {b} : phase[d] = "off"
Reachable ==
  \A b \in Brokers :
    Alone(b) =>
      /\ Listening(b) => path = b
      /\ phase[b] = "gone" => path = None

(* What callers are promised, whatever dies or is terminated and however   *)
(* many brokers there are: at most one program per call, OK exactly when   *)
(* it was started, an ERR exactly when it was not.                         *)
Promise == INSTANCE LaunchService WITH
  stage <- [c \in Clients |->
              IF stage[c] \in Results THEN stage[c] ELSE "waiting"],
  asked <- [c \in Clients |-> request[c] = "launch"],
  open <- [c \in Clients |-> Held(c)]
KeepsPromise == Promise!Spec

(* A call that got through returns, whoever else calls, is killed, or ends *)
(* the broker: the shell, which calls from the thread that draws, does not *)
(* freeze.  The exception is a caller that connects and then says nothing. *)
CallsReturn ==
  \A c \in Clients : Calling(c) ~> ~Calling(c) \/ hung # {}

(* After QUIT or SIGTERM the broker ends, with the same exception.         *)
Stops ==
  \A b \in Brokers :
    Listening(b) /\ ~running[b] ~> ~Listening(b) \/ hung # {}

(* finn-session.service (Restart=on-failure): a broker that died comes     *)
(* back and listens, over the socket that is left behind.                  *)
Recovers ==
  phase[Service] = "failed" ~> Listening(Service) \/ ~Alone(Service)
=============================================================================

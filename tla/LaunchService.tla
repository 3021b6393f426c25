---------------------------- MODULE LaunchService ----------------------------
(***************************************************************************)
(* What finn-session promises the programs that call it                    *)
(* (src/session/client.hpp): a call starts at most one program; a call     *)
(* that returns OK did what it asked for and a call that returns an ERR    *)
(* did nothing.  Only "no reply from finn-session" leaves the caller in    *)
(* the dark: the program may have been started, and may yet be.            *)
(* SessionBroker implements this.                                          *)
(***************************************************************************)
EXTENDS Naturals

CONSTANT Clients

VARIABLES
  stage,        \* stage[c]: the call of c is "waiting", or how it returned
  asked,        \* asked[c]: whether c asks for a launch
  open,         \* open[c]: the service has the request
  started       \* started[c]: how many programs the call started

vars == <<stage, asked, open, started>>

Results == {"ok", "err", "lost"}

(* The service gets the request, or cannot be reached.                     *)
Call(c) ==
  /\ stage[c] # "waiting" /\ ~open[c]
  /\ \E launch, reached \in BOOLEAN :
       /\ asked' = [asked EXCEPT ![c] = launch]
       /\ open' = [open EXCEPT ![c] = reached]
       /\ stage' = [stage EXCEPT ![c] = IF reached THEN "waiting" ELSE "err"]
  /\ started' = [started EXCEPT ![c] = 0]

Start(c) ==
  /\ open[c] /\ asked[c] /\ started[c] = 0
  /\ started' = [started EXCEPT ![c] = 1]
  /\ UNCHANGED <<stage, asked, open>>

(* The service is done with some of its requests: one, or all if it ends.  *)
Finish(done) ==
  /\ \A c \in done : open[c]
  /\ open' = [c \in Clients |-> open[c] /\ c \notin done]
  /\ UNCHANGED <<stage, asked, started>>

(* What a call that is over did is no longer counted.                      *)
Return(c, result) ==
  /\ stage[c] = "waiting"
  /\ result = "ok" => ~open[c] /\ (asked[c] => started[c] = 1)
  /\ result = "err" => ~open[c] /\ started[c] = 0
  /\ stage' = [stage EXCEPT ![c] = result]
  /\ started' = [started EXCEPT ![c] = IF open[c] THEN @ ELSE 0]
  /\ asked' = [asked EXCEPT ![c] = @ /\ open[c]]
  /\ UNCHANGED open

Init ==
  /\ stage = [c \in Clients |-> "lost"]
  /\ asked = [c \in Clients |-> FALSE]
  /\ open = [c \in Clients |-> FALSE]
  /\ started = [c \in Clients |-> 0]

Next ==
  \/ \E c \in Clients :
       \/ Call(c)
       \/ Start(c)
       \/ \E result \in Results : Return(c, result)
  \/ \E done \in SUBSET Clients : Finish(done)

Spec == Init /\ [][Next]_vars
=============================================================================

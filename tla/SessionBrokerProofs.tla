------------------------- MODULE SessionBrokerProofs -------------------------
(***************************************************************************)
(* finn-session keeps its promise to its callers, for any number of them   *)
(* and of brokers, whatever dies.                                          *)
(*                                                                         *)
(* The argument: the broker's ends of the connections are disjoint, so     *)
(* what one broker does with a call no other can do as well; the program   *)
(* of a call is started after its line is read and before its connection   *)
(* is closed; and what is answered is what was done.                       *)
(***************************************************************************)
EXTENDS SessionBroker, TLAPS

Elems(s) == {s[i] : i \in DOMAIN s}
Distinct(s) == \A i, j \in DOMAIN s : s[i] = s[j] => i = j

LEMMA AppendElems ==
  ASSUME NEW S, NEW s \in Seq(S), NEW e \in S
  PROVE  /\ Append(s, e) \in Seq(S)
         /\ Len(Append(s, e)) = Len(s) + 1
         /\ Elems(Append(s, e)) = Elems(s) \cup {e}
         /\ Distinct(s) /\ e \notin Elems(s) => Distinct(Append(s, e))
<1> DEFINE t == Append(s, e)
<1>1. /\ t \in Seq(S) /\ Len(t) = Len(s) + 1 /\ Len(s) \in Nat
      /\ DOMAIN t = 1 .. Len(s) + 1 /\ DOMAIN s = 1 .. Len(s)
      /\ \A i \in 1 .. Len(s) : t[i] = s[i]
      /\ t[Len(s) + 1] = e
  OBVIOUS
<1> HIDE DEF t
<1>2. Elems(t) = Elems(s) \cup {e}
  BY <1>1 DEF Elems
<1>3. ASSUME Distinct(s), e \notin Elems(s)
      PROVE  Distinct(t)
  BY <1>1, <1>3 DEF Elems, Distinct
<1> QED
  BY <1>1, <1>2, <1>3 DEF t

LEMMA TailElems ==
  ASSUME NEW S, NEW s \in Seq(S), s # <<>>
  PROVE  /\ Tail(s) \in Seq(S)
         /\ Len(Tail(s)) = Len(s) - 1
         /\ Len(s) \in Nat
         /\ Head(s) \in S /\ Head(s) \in Elems(s)
         /\ Elems(Tail(s)) \subseteq Elems(s)
         /\ Distinct(s) => /\ Distinct(Tail(s))
                           /\ Elems(Tail(s)) = Elems(s) \ {Head(s)}
<1> DEFINE t == Tail(s)
<1>1. /\ t \in Seq(S) /\ Len(t) = Len(s) - 1 /\ Len(s) \in Nat \ {0}
      /\ DOMAIN t = 1 .. Len(s) - 1 /\ DOMAIN s = 1 .. Len(s)
      /\ \A i \in 1 .. Len(s) - 1 : t[i] = s[i + 1]
      /\ Head(s) = s[1] /\ Head(s) \in S
  OBVIOUS
<1> HIDE DEF t
<1>2. Head(s) \in Elems(s) /\ Elems(t) \subseteq Elems(s)
  <2>1. 1 \in 1 .. Len(s) /\ \A i \in 1 .. Len(s) - 1 : i + 1 \in 1 .. Len(s)
    BY <1>1
  <2>2. Head(s) \in Elems(s)
    BY <1>1, <2>1 DEF Elems
  <2>3. \A i \in DOMAIN t : t[i] \in Elems(s)
    BY <1>1, <2>1 DEF Elems
  <2> QED
    BY <2>2, <2>3 DEF Elems
<1>3. ASSUME Distinct(s)
      PROVE  Distinct(t)
  <2> SUFFICES ASSUME NEW i \in 1 .. Len(s) - 1, NEW j \in 1 .. Len(s) - 1,
                      t[i] = t[j]
               PROVE  i = j
    BY <1>1 DEF Distinct
  <2>1. s[i + 1] = s[j + 1] /\ i + 1 \in DOMAIN s /\ j + 1 \in DOMAIN s
    BY <1>1
  <2>2. i + 1 = j + 1
    BY <1>3, <2>1 DEF Distinct
  <2> QED
    BY <2>2
<1>4. ASSUME Distinct(s)
      PROVE  Elems(t) = Elems(s) \ {Head(s)}
  <2>1. ASSUME NEW x \in Elems(t)
        PROVE  x # Head(s)
    BY <1>1, <1>4 DEF Elems, Distinct
  <2>2. ASSUME NEW x \in Elems(s), x # Head(s)
        PROVE  x \in Elems(t)
    <3>1. PICK i \in 1 .. Len(s) : x = s[i]
      BY <1>1 DEF Elems
    <3>2. i - 1 \in 1 .. Len(s) - 1 /\ t[i - 1] = x
      BY <1>1, <2>2, <3>1
    <3> QED
      BY <1>1, <3>2 DEF Elems
  <2> QED
    BY <1>2, <2>1, <2>2
<1> QED
  BY <1>1, <1>2, <1>3, <1>4 DEF t

LEMMA EmptyElems ==
  /\ Elems(<<>>) = {} /\ Distinct(<<>>)
  /\ \A S : <<>> \in Seq(S)
  /\ Len(<<>>) = 0
BY DEF Elems, Distinct

----------------------------------------------------------------------------
(* The invariant.                                                          *)

Shapes ==
  /\ backlog \in [Brokers -> Seq(Clients)]
  /\ serving \in [Brokers -> (Clients \ Others) \cup {None}]
  /\ TypeOK

(* A connection is accepted once, by one broker.                           *)
Apart ==
  /\ \A b \in Brokers : Distinct(backlog[b]) /\ serving[b] \notin Elems(backlog[b])
  /\ \A c \in Clients : \A b, d \in Brokers : HeldBy(c, b) /\ HeldBy(c, d) => b = d

(* The answer a is what became of the call of c.                           *)
Answers(a, c) ==
  /\ a = "ok" => (request[c] = "launch" => started[c] = 1)
  /\ a = "err" => started[c] = 0

CallerKnows(c) ==
  /\ stage[c] = "connected" => ~line[c] /\ reply[c] = None /\ started[c] = 0
  /\ reply[c] # None => ~Held(c) /\ Answers(reply[c], c)

BrokerKnows(b) ==
  /\ \A c \in Elems(backlog[b]) : started[c] = 0
  /\ phase[b] \in {"read", "handle"} => started[serving[b]] = 0
  /\ phase[b] \in {"handle", "reply"} => line[serving[b]]
  /\ phase[b] = "reply" => Answers(answer[b], serving[b])

Known ==
  /\ \A c \in Clients : CallerKnows(c)
  /\ \A b \in Brokers : BrokerKnows(b)

Invariant == Shapes /\ Apart /\ Known

LEMMA HeldByElems ==
  \A c, b : HeldBy(c, b) <=> serving[b] = c \/ c \in Elems(backlog[b])
BY DEF HeldBy, Elems

LEMMA HeldByElemsPrime ==
  \A c, b : HeldBy(c, b)' <=> serving'[b] = c \/ c \in Elems(backlog'[b])
BY DEF HeldBy, Elems

LEMMA InvariantInit == Init => Invariant
<1> SUFFICES ASSUME Init
             PROVE  Invariant
  OBVIOUS
<1>1. Shapes
  BY EmptyElems, BacklogAssumption
     DEF Init, Shapes, TypeOK, Results, Looping, Requests
<1>2. Apart
  BY HeldByElems, EmptyElems, ClientsAssumption DEF Init, Apart
<1>3. Known
  BY EmptyElems DEF Init, Known, CallerKnows, BrokerKnows
<1> QED
  BY <1>1, <1>2, <1>3 DEF Invariant

----------------------------------------------------------------------------
(* Steps that only let go of connections, or take one that waits.          *)

LEMMA FewerHeld ==
  ASSUME Invariant, Shapes', UNCHANGED <<clientVars, started>>,
         \A d \in Brokers : /\ Distinct(backlog'[d])
                            /\ serving'[d] \notin Elems(backlog'[d])
                            /\ Elems(backlog'[d]) \subseteq Elems(backlog[d]),
         \A c \in Clients, d \in Brokers :
           serving'[d] = c => HeldBy(c, d),
         \A d \in Brokers :
           /\ phase'[d] \in {"read", "handle"} => started[serving'[d]] = 0
           /\ phase'[d] \in {"handle", "reply"} => line[serving'[d]]
           /\ phase'[d] = "reply" => Answers(answer'[d], serving'[d])
  PROVE  /\ Invariant'
         /\ \A c \in Clients, d \in Brokers : HeldBy(c, d)' => HeldBy(c, d)
<1> USE DEF Invariant
<1>1. \A c \in Clients, d \in Brokers : HeldBy(c, d)' => HeldBy(c, d)
  BY HeldByElems, HeldByElemsPrime
<1>2. Apart'
  BY <1>1 DEF Apart
<1>3. \A c \in Clients : Held(c)' => Held(c)
  BY <1>1 DEF Held
<1>4. \A a, c : Answers(a, c)' <=> Answers(a, c)
  BY DEF Answers, clientVars
<1>5. \A c \in Clients : CallerKnows(c)'
  BY <1>3 DEF Known, CallerKnows, Answers, clientVars
<1>6. \A d \in Brokers : BrokerKnows(d)'
  BY DEF Known, BrokerKnows, Answers, clientVars
<1> QED
  BY <1>1, <1>2, <1>5, <1>6 DEF Known

(* b does something that is not about a connection.                        *)
Quiet(b) ==
  \/ Prepare(b) \/ Bind(b) \/ BindFails(b) \/ PollAgain(b) \/ Unlink(b)
  \/ Terminate(b)
  \/ Loop(b) /\ running[b]

LEMMA QuietFrame ==
  ASSUME NEW b \in Brokers, Invariant, Quiet(b)
  PROVE  /\ UNCHANGED <<backlog, serving, answer, clientVars, started>>
         /\ Shapes'
         /\ \A d \in Brokers : \/ phase'[d] = phase[d]
                               \/ phase'[d] \notin {"read", "handle", "reply"}
<1> USE DEF Invariant, Shapes, TypeOK, Looping, clientVars
<1>1. CASE Prepare(b)
  BY <1>1 DEF Prepare
<1>2. CASE Bind(b)
  BY <1>2 DEF Bind
<1>3. CASE BindFails(b)
  BY <1>3 DEF BindFails
<1>4. CASE PollAgain(b)
  BY <1>4 DEF PollAgain
<1>5. CASE Unlink(b)
  BY <1>5 DEF Unlink
<1>6. CASE Terminate(b)
  BY <1>6 DEF Terminate, Listening
<1>7. CASE Loop(b) /\ running[b]
  BY <1>7 DEF Loop
<1> QED
  BY <1>1, <1>2, <1>3, <1>4, <1>5, <1>6, <1>7 DEF Quiet

LEMMA QuietKeeps ==
  ASSUME NEW b \in Brokers, Invariant, Quiet(b)
  PROVE  Invariant'
<1>1. /\ UNCHANGED <<backlog, serving, answer, clientVars, started>>
      /\ Shapes'
      /\ \A d \in Brokers : \/ phase'[d] = phase[d]
                            \/ phase'[d] \notin {"read", "handle", "reply"}
  BY QuietFrame
<1>2. \A d \in Brokers :
        /\ phase'[d] \in {"read", "handle"} => started[serving'[d]] = 0
        /\ phase'[d] \in {"handle", "reply"} => line[serving'[d]]
        /\ phase'[d] = "reply" => Answers(answer'[d], serving'[d])
  BY <1>1 DEF Invariant, Known, BrokerKnows
<1>3. \A d \in Brokers : /\ Distinct(backlog'[d])
                         /\ serving'[d] \notin Elems(backlog'[d])
                         /\ Elems(backlog'[d]) \subseteq Elems(backlog[d])
  BY <1>1 DEF Invariant, Apart
<1>4. \A c \in Clients, d \in Brokers : serving'[d] = c => HeldBy(c, d)
  BY <1>1, HeldByElems
<1> QED
  BY <1>1, <1>2, <1>3, <1>4, FewerHeld

(* b closes every connection it holds.                                     *)
Closes(b) == (Loop(b) /\ ~running[b]) \/ AcceptFails(b) \/ Crash(b)

LEMMA ServesNobody ==
  ASSUME Shapes, NEW b \in Brokers, serving[b] = None
  PROVE  serving = [serving EXCEPT ![b] = None]
BY DEF Shapes

LEMMA ClosesFrame ==
  ASSUME NEW b \in Brokers, Invariant, Closes(b)
  PROVE  /\ UNCHANGED <<clientVars, started>>
         /\ Shapes'
         /\ phase'[b] \notin {"read", "handle", "reply"}
         /\ backlog' = [backlog EXCEPT ![b] = <<>>]
         /\ serving' = [serving EXCEPT ![b] = None]
         /\ \A d \in Brokers \ {b} : phase'[d] = phase[d] /\ answer'[d] = answer[d]
<1>1. ASSUME ~Crash(b)
      PROVE  serving' = [serving EXCEPT ![b] = None]
  <2>1. serving[b] = None /\ serving' = serving
    BY <1>1 DEF Closes, Loop, AcceptFails, Invariant, Shapes, TypeOK
  <2> QED
    BY <2>1, ServesNobody DEF Invariant
<1> USE EmptyElems, BacklogAssumption
    DEF Invariant, Shapes, TypeOK, Looping, clientVars
<1>2. CASE ~Crash(b) /\ Loop(b) /\ ~running[b]
  <2>1. /\ phase' = [phase EXCEPT ![b] = "closing"]
        /\ backlog' = [backlog EXCEPT ![b] = <<>>]
        /\ UNCHANGED <<running, path, answer, clientVars, started>>
    BY <1>2 DEF Loop
  <2>2. serving' = [serving EXCEPT ![b] = None]
    BY <1>1, <1>2
  <2> QED
    BY <2>1, <2>2
<1>3. CASE ~Crash(b) /\ AcceptFails(b)
  BY <1>1, <1>3 DEF AcceptFails
<1>4. CASE Crash(b)
  BY <1>4 DEF Crash
<1> QED
  BY <1>2, <1>3, <1>4 DEF Closes

LEMMA ClosesKeeps ==
  ASSUME NEW b \in Brokers, Invariant, Closes(b)
  PROVE  /\ Invariant'
         /\ \A c \in Clients, d \in Brokers :
              HeldBy(c, d)' <=> HeldBy(c, d) /\ d # b
<1> USE DEF Invariant
<1>1. /\ UNCHANGED <<clientVars, started>>
      /\ Shapes'
      /\ phase'[b] \notin {"read", "handle", "reply"}
      /\ backlog' = [backlog EXCEPT ![b] = <<>>]
      /\ serving' = [serving EXCEPT ![b] = None]
      /\ \A d \in Brokers \ {b} : phase'[d] = phase[d] /\ answer'[d] = answer[d]
  BY ClosesFrame
<1>2. /\ backlog'[b] = <<>> /\ serving'[b] = None
      /\ \A d \in Brokers \ {b} : backlog'[d] = backlog[d] /\ serving'[d] = serving[d]
  BY <1>1 DEF Shapes
<1>3. \A d \in Brokers : /\ Distinct(backlog'[d])
                         /\ serving'[d] \notin Elems(backlog'[d])
                         /\ Elems(backlog'[d]) \subseteq Elems(backlog[d])
  BY <1>2, EmptyElems DEF Apart
<1>4. \A c \in Clients, d \in Brokers : serving'[d] = c => HeldBy(c, d)
  BY <1>2, HeldByElems, ClientsAssumption
<1>5. \A d \in Brokers :
        /\ phase'[d] \in {"read", "handle"} => started[serving'[d]] = 0
        /\ phase'[d] \in {"handle", "reply"} => line[serving'[d]]
        /\ phase'[d] = "reply" => Answers(answer'[d], serving'[d])
  BY <1>1, <1>2 DEF Known, BrokerKnows
<1>6. \A c \in Clients, d \in Brokers : HeldBy(c, d)' <=> HeldBy(c, d) /\ d # b
  BY <1>2, HeldByElems, HeldByElemsPrime, EmptyElems, ClientsAssumption
<1> QED
  BY <1>1, <1>3, <1>4, <1>5, <1>6, FewerHeld

LEMMA AcceptKeeps ==
  ASSUME NEW b \in Brokers, Invariant, Accept(b)
  PROVE  /\ Invariant'
         /\ Head(backlog[b]) \in Clients
         /\ HeldBy(Head(backlog[b]), b)
         /\ \A c \in Clients, d \in Brokers :
              HeldBy(c, d)' <=> HeldBy(c, d) /\ (c = Head(backlog[b]) => c \notin Others)
<1> USE DEF Invariant
<1> DEFINE first == Head(backlog[b])
<1>1. /\ backlog[b] \in Seq(Clients) /\ backlog[b] # <<>>
      /\ Distinct(backlog[b])
      /\ serving[b] = None
      /\ backlog' = [backlog EXCEPT ![b] = Tail(backlog[b])]
      /\ UNCHANGED <<running, path, answer, clientVars, started>>
  BY DEF Shapes, TypeOK, Apart, Accept
<1>2. /\ Tail(backlog[b]) \in Seq(Clients)
      /\ Len(Tail(backlog[b])) = Len(backlog[b]) - 1
      /\ Len(backlog[b]) \in Nat
      /\ first \in Clients /\ first \in Elems(backlog[b])
      /\ Distinct(Tail(backlog[b]))
      /\ Elems(Tail(backlog[b])) = Elems(backlog[b]) \ {first}
  BY <1>1, TailElems
<1>3. /\ backlog'[b] = Tail(backlog[b])
      /\ \A d \in Brokers \ {b} : backlog'[d] = backlog[d]
  BY <1>1 DEF Shapes
<1>4. \/ /\ first \notin Others
         /\ serving' = [serving EXCEPT ![b] = first]
         /\ phase' = [phase EXCEPT ![b] = "read"]
      \/ /\ first \in Others
         /\ serving' = [serving EXCEPT ![b] = None]
         /\ phase' = [phase EXCEPT ![b] = "loop"]
  <2>1. serving = [serving EXCEPT ![b] = None]
    BY <1>1, ServesNobody
  <2> QED
    BY <2>1 DEF Accept
<1> HIDE DEF first
<1>5. /\ serving'[b] = IF first \in Others THEN None ELSE first
      /\ phase'[b] = IF first \in Others THEN "loop" ELSE "read"
      /\ \A d \in Brokers \ {b} : serving'[d] = serving[d] /\ phase'[d] = phase[d]
  BY <1>4 DEF Shapes, TypeOK
<1>6. Shapes'
  <2>1. /\ backlog' \in [Brokers -> Seq(Clients)]
        /\ serving' \in [Brokers -> (Clients \ Others) \cup {None}]
    BY <1>1, <1>2, <1>4 DEF Shapes
  <2>2. phase' \in [Brokers -> Looping \cup
                     {"off", "prepared", "closing", "gone", "failed"}]
    BY <1>4 DEF Shapes, TypeOK, Looping
  <2>3. \A d \in Brokers :
          /\ backlog'[d] \in Seq(Clients)
          /\ Len(backlog'[d]) <= Backlog + 1
          /\ serving'[d] \in IF phase'[d] \in {"read", "handle", "reply"}
                               THEN Clients \ Others ELSE {None}
    <3> TAKE d \in Brokers
    <3>1. /\ backlog[d] \in Seq(Clients) /\ Len(backlog[d]) <= Backlog + 1
          /\ serving[d] \in IF phase[d] \in {"read", "handle", "reply"}
                              THEN Clients \ Others ELSE {None}
      BY DEF Shapes, TypeOK
    <3>2. CASE d = b
      <4>1. Len(Tail(backlog[b])) <= Backlog + 1
        BY <1>2, <3>1, <3>2, BacklogAssumption
      <4> QED
        BY <1>2, <1>3, <1>5, <3>2, <4>1
    <3>3. CASE d # b
      BY <1>3, <1>5, <3>1, <3>3
    <3> QED
      BY <3>2, <3>3
  <2> QED
    BY <1>1, <2>1, <2>2, <2>3 DEF Shapes, TypeOK, clientVars
<1>7. \A d \in Brokers : /\ Distinct(backlog'[d])
                         /\ serving'[d] \notin Elems(backlog'[d])
                         /\ Elems(backlog'[d]) \subseteq Elems(backlog[d])
  BY <1>1, <1>2, <1>3, <1>5 DEF Apart
<1>8. \A c \in Clients, d \in Brokers : serving'[d] = c => HeldBy(c, d)
  BY <1>2, <1>5, HeldByElems, ClientsAssumption
<1>9. \A d \in Brokers :
        /\ phase'[d] \in {"read", "handle"} => started[serving'[d]] = 0
        /\ phase'[d] \in {"handle", "reply"} => line[serving'[d]]
        /\ phase'[d] = "reply" => Answers(answer'[d], serving'[d])
  <2>1. phase'[b] = "read" => started[serving'[b]] = 0
    BY <1>2, <1>5 DEF Known, BrokerKnows
  <2>2. phase'[b] \notin {"handle", "reply"}
    BY <1>5
  <2>3. \A d \in Brokers \ {b} : answer'[d] = answer[d]
    BY <1>1
  <2> QED
    BY <1>5, <2>1, <2>2, <2>3 DEF Known, BrokerKnows
<1>10. HeldBy(first, b) /\ \A d \in Brokers : HeldBy(first, d) => d = b
  BY <1>2, HeldByElems DEF Apart
<1>11. \A c \in Clients, d \in Brokers :
         HeldBy(c, d)' <=> HeldBy(c, d) /\ (c = first => c \notin Others)
  <2> TAKE c \in Clients, d \in Brokers
  <2>1. CASE d = b
    BY <2>1, <1>1, <1>2, <1>3, <1>5, HeldByElems, HeldByElemsPrime, ClientsAssumption
  <2>2. CASE d # b
    BY <2>2, <1>3, <1>5, <1>10, HeldByElems, HeldByElemsPrime
  <2> QED
    BY <2>1, <2>2
<1>12. Invariant'
  BY <1>1, <1>6, <1>7, <1>8, <1>9, FewerHeld
<1> QED
  BY <1>2, <1>10, <1>11, <1>12 DEF first

(* b reads: either it has the line, or it closes the connection.           *)
LEMMA ReadKeeps ==
  ASSUME NEW b \in Brokers, Invariant, ReadLine(b) \/ ReadFails(b)
  PROVE  /\ Invariant'
         /\ serving[b] \in Clients
         /\ \A c \in Clients, d \in Brokers :
              HeldBy(c, d)' <=> HeldBy(c, d) /\ (c = serving[b] => ReadLine(b))
<1> USE DEF Invariant
<1>1. /\ UNCHANGED <<running, path, backlog, answer, clientVars, started>>
      /\ phase[b] = "read" /\ serving[b] \in Clients
      /\ started[serving[b]] = 0
  BY ClientsAssumption
     DEF ReadLine, ReadFails, Shapes, TypeOK, Known, BrokerKnows
<1>2. \/ /\ ReadLine(b) /\ line[serving[b]]
         /\ phase' = [phase EXCEPT ![b] = "handle"]
         /\ serving' = serving
      \/ /\ ~ReadLine(b)
         /\ phase' = [phase EXCEPT ![b] = "loop"]
         /\ serving' = [serving EXCEPT ![b] = None]
  BY DEF ReadLine, ReadFails
<1>3. /\ serving'[b] = IF ReadLine(b) THEN serving[b] ELSE None
      /\ phase'[b] = IF ReadLine(b) THEN "handle" ELSE "loop"
      /\ \A d \in Brokers \ {b} : serving'[d] = serving[d] /\ phase'[d] = phase[d]
  BY <1>2 DEF Shapes, TypeOK
<1>4. Shapes'
  <2>1. serving' \in [Brokers -> (Clients \ Others) \cup {None}]
    BY <1>2 DEF Shapes
  <2>2. phase' \in [Brokers -> Looping \cup
                     {"off", "prepared", "closing", "gone", "failed"}]
    BY <1>2 DEF Shapes, TypeOK, Looping
  <2>3. \A d \in Brokers :
          serving'[d] \in IF phase'[d] \in {"read", "handle", "reply"}
                            THEN Clients \ Others ELSE {None}
    BY <1>1, <1>3 DEF Shapes, TypeOK
  <2> QED
    BY <1>1, <2>1, <2>2, <2>3 DEF Shapes, TypeOK, clientVars
<1>5. \A d \in Brokers : /\ Distinct(backlog'[d])
                         /\ serving'[d] \notin Elems(backlog'[d])
                         /\ Elems(backlog'[d]) \subseteq Elems(backlog[d])
  <2>1. None \notin Elems(backlog[b])
    BY ClientsAssumption DEF Elems, Shapes
  <2> QED
    BY <1>1, <1>3, <2>1 DEF Apart
<1>6. \A c \in Clients, d \in Brokers : serving'[d] = c => HeldBy(c, d)
  BY <1>3, HeldByElems, ClientsAssumption
<1>7. \A d \in Brokers :
        /\ phase'[d] \in {"read", "handle"} => started[serving'[d]] = 0
        /\ phase'[d] \in {"handle", "reply"} => line[serving'[d]]
        /\ phase'[d] = "reply" => Answers(answer'[d], serving'[d])
  BY <1>1, <1>2, <1>3 DEF Known, BrokerKnows
<1>8. \A d \in Brokers : HeldBy(serving[b], d) => d = b
  BY <1>1, HeldByElems DEF Apart
<1>9. \A c \in Clients, d \in Brokers :
        HeldBy(c, d)' <=> HeldBy(c, d) /\ (c = serving[b] => ReadLine(b))
  <2> TAKE c \in Clients, d \in Brokers
  <2>1. CASE d = b
    BY <2>1, <1>1, <1>3, HeldByElems, HeldByElemsPrime, ClientsAssumption DEF Apart
  <2>2. CASE d # b
    BY <2>2, <1>1, <1>3, <1>8, HeldByElems, HeldByElemsPrime
  <2> QED
    BY <2>1, <2>2
<1>10. Invariant'
  BY <1>1, <1>4, <1>5, <1>6, <1>7, FewerHeld
<1> QED
  BY <1>1, <1>9, <1>10

----------------------------------------------------------------------------
(* The steps that act on the call a broker serves.                         *)

(* What is known of the call that b handles or answers.                    *)
LEMMA ServingFacts ==
  ASSUME NEW b \in Brokers, Invariant, phase[b] \in {"handle", "reply"}
  PROVE  /\ serving[b] \in Clients
         /\ Held(serving[b]) /\ HeldBy(serving[b], b)
         /\ line[serving[b]] /\ stage[serving[b]] # "connected"
         /\ reply[serving[b]] = None
         /\ \A d \in Brokers : serving[b] \notin Elems(backlog[d])
         /\ \A d \in Brokers : HeldBy(serving[b], d) => d = b
<1> USE DEF Invariant
<1>1. serving[b] \in Clients /\ line[serving[b]]
  BY DEF Shapes, TypeOK, Known, BrokerKnows
<1>2. HeldBy(serving[b], b)
  BY HeldByElems
<1>3. Held(serving[b])
  BY <1>2 DEF Held
<1>4. \A d \in Brokers : HeldBy(serving[b], d) => d = b
  BY <1>1, <1>2 DEF Apart
<1>5. \A d \in Brokers : serving[b] \notin Elems(backlog[d])
  BY <1>4, HeldByElems DEF Apart
<1>6. stage[serving[b]] # "connected" /\ reply[serving[b]] = None
  BY <1>1, <1>3 DEF Known, CallerKnows
<1> QED
  BY <1>1, <1>2, <1>3, <1>4, <1>5, <1>6

(* A launch that is started is OK and one that is not is an ERR.           *)
LEMMA HandleEffect ==
  ASSUME NEW b \in Brokers, Invariant, Handle(b)
  PROVE  /\ phase[b] = "handle" /\ phase' = [phase EXCEPT ![b] = "reply"]
         /\ UNCHANGED <<running, path, backlog, serving, clientVars>>
         /\ \E a \in {"ok", "err"} :
              /\ answer' = [answer EXCEPT ![b] = a]
              /\ Answers(a, serving[b])'
         /\ started' \in [Clients -> Nat]
         /\ \A c \in Clients : c # serving[b] => started'[c] = started[c]
         /\ \/ started' = started
            \/ /\ request[serving[b]] = "launch"
               /\ started[serving[b]] = 0
               /\ started' = [started EXCEPT ![serving[b]] = 1]
<1> USE DEF Invariant
<1>1. /\ phase[b] = "handle" /\ phase' = [phase EXCEPT ![b] = "reply"]
      /\ UNCHANGED <<running, path, backlog, serving, clientVars>>
  BY DEF Handle
<1>2. /\ serving[b] \in Clients /\ started[serving[b]] = 0
      /\ started \in [Clients -> Nat]
  BY <1>1, ServingFacts DEF Shapes, TypeOK, Known, BrokerKnows
<1>3. CASE /\ request[serving[b]] = "launch"
           /\ started' = [started EXCEPT ![serving[b]] = @ + 1]
           /\ answer' = [answer EXCEPT ![b] = "ok"]
  <2>1. started' = [started EXCEPT ![serving[b]] = 1]
    BY <1>2, <1>3
  <2>2. Answers("ok", serving[b])'
    BY <1>1, <1>2, <2>1 DEF Answers
  <2> QED
    BY <1>1, <1>2, <1>3, <2>1, <2>2
<1>4. CASE /\ answer' = [answer EXCEPT ![b] = "err"]
           /\ UNCHANGED started
  <2>1. Answers("err", serving[b])'
    BY <1>1, <1>2, <1>4 DEF Answers
  <2> QED
    BY <1>1, <1>2, <1>4, <2>1
<1>5. CASE /\ request[serving[b]] # "launch"
           /\ answer' = [answer EXCEPT ![b] = "ok"]
           /\ UNCHANGED started
  <2>1. Answers("ok", serving[b])'
    BY <1>1, <1>2, <1>5 DEF Answers, clientVars
  <2> QED
    BY <1>1, <1>2, <1>5, <2>1
<1> QED
  BY <1>3, <1>4, <1>5 DEF Handle

LEMMA HandleKeeps ==
  ASSUME NEW b \in Brokers, Invariant, Handle(b)
  PROVE  Invariant'
<1> USE DEF Invariant
<1>1. PICK a \in {"ok", "err"} :
        /\ answer' = [answer EXCEPT ![b] = a]
        /\ Answers(a, serving[b])'
  BY HandleEffect
<1>2. /\ phase[b] = "handle" /\ phase' = [phase EXCEPT ![b] = "reply"]
      /\ UNCHANGED <<running, path, backlog, serving, clientVars>>
      /\ started' \in [Clients -> Nat]
      /\ \A c \in Clients : c # serving[b] => started'[c] = started[c]
  BY HandleEffect
<1>3. /\ serving[b] \in Clients /\ stage[serving[b]] # "connected"
      /\ reply[serving[b]] = None /\ line[serving[b]]
      /\ \A d \in Brokers : serving[b] \notin Elems(backlog[d])
      /\ \A d \in Brokers : HeldBy(serving[b], d) => d = b
  BY <1>2, ServingFacts
<1>4. Shapes'
  <2>1. answer' \in [Brokers -> {"ok", "err", None}]
    BY <1>1 DEF Shapes, TypeOK
  <2>2. phase' \in [Brokers -> Looping \cup
                     {"off", "prepared", "closing", "gone", "failed"}]
    BY <1>2 DEF Shapes, TypeOK, Looping
  <2>3. \A d \in Brokers :
          serving'[d] \in IF phase'[d] \in {"read", "handle", "reply"}
                            THEN Clients \ Others ELSE {None}
    BY <1>2 DEF Shapes, TypeOK
  <2> QED
    BY <1>2, <2>1, <2>2, <2>3 DEF Shapes, TypeOK, clientVars
<1>5. Apart'
  BY <1>2, HeldByElems, HeldByElemsPrime DEF Apart
<1>6. \A c \in Clients : CallerKnows(c)'
  <2>1. \A c \in Clients : Held(c)' <=> Held(c)
    BY <1>2, HeldByElems, HeldByElemsPrime DEF Held
  <2>2. CallerKnows(serving[b])'
    BY <1>2, <1>3 DEF CallerKnows, clientVars
  <2>3. ASSUME NEW c \in Clients, c # serving[b]
        PROVE  CallerKnows(c)'
    <3>1. CallerKnows(c) /\ started'[c] = started[c]
      BY <1>2, <2>3 DEF Known
    <3>2. /\ stage'[c] = stage[c] /\ line'[c] = line[c] /\ reply'[c] = reply[c]
          /\ request'[c] = request[c]
      BY <1>2 DEF clientVars
    <3> QED
      BY <2>1, <3>1, <3>2 DEF CallerKnows, Answers
  <2>4. serving' = serving
    BY <1>2
  <2> QED
    BY <2>2, <2>3, <2>4
<1>7. \A d \in Brokers : BrokerKnows(d)'
  <2> TAKE d \in Brokers
  <2>1. \A c \in Elems(backlog[d]) : c \in Clients /\ started'[c] = 0
    <3>1. \A c \in Elems(backlog[d]) : c \in Clients
      BY DEF Elems, Shapes
    <3>2. \A c \in Elems(backlog[d]) : c # serving[b] /\ started[c] = 0
      BY <1>3 DEF Known, BrokerKnows
    <3> QED
      BY <1>2, <3>1, <3>2
  <2>2. CASE d = b
    <3>1. phase'[b] = "reply" /\ answer'[b] = a
      BY <1>1, <1>2 DEF Shapes, TypeOK
    <3> QED
      BY <1>1, <1>2, <1>3, <2>1, <2>2, <3>1 DEF BrokerKnows, clientVars
  <2>3. CASE d # b
    <3>1. phase'[d] = phase[d] /\ answer'[d] = answer[d]
      BY <1>1, <1>2, <2>3 DEF Shapes, TypeOK
    <3>2. serving[d] # serving[b]
      BY <1>3, <2>3, HeldByElems
    <3>3. phase[d] \in {"read", "handle", "reply"} => serving[d] \in Clients
      BY DEF Shapes, TypeOK
    <3>4. phase[d] \in {"read", "handle", "reply"}
            => started'[serving[d]] = started[serving[d]]
      BY <1>2, <3>2, <3>3
    <3> QED
      BY <1>2, <2>1, <3>1, <3>4 DEF Known, BrokerKnows, Answers, clientVars
  <2> QED
    BY <2>2, <2>3
<1> QED
  BY <1>4, <1>5, <1>6, <1>7 DEF Known

(* Once it is answered nobody holds the call any more.                     *)
LEMMA ReplyFrees ==
  ASSUME NEW b \in Brokers, Invariant, Reply(b)
  PROVE  /\ serving[b] \in Clients
         /\ \A c \in Clients, d \in Brokers :
              HeldBy(c, d)' <=> HeldBy(c, d) /\ c # serving[b]
<1> USE DEF Invariant
<1>1. /\ phase[b] = "reply" /\ backlog' = backlog
      /\ serving' = [serving EXCEPT ![b] = None]
  BY DEF Reply
<1>2. /\ serving[b] \in Clients
      /\ \A d \in Brokers : serving[b] \notin Elems(backlog[d])
      /\ \A d \in Brokers : HeldBy(serving[b], d) => d = b
  BY <1>1, ServingFacts
<1>3. serving'[b] = None /\ \A d \in Brokers \ {b} : serving'[d] = serving[d]
  BY <1>1 DEF Shapes
<1> SUFFICES ASSUME NEW c \in Clients, NEW d \in Brokers
             PROVE  HeldBy(c, d)' <=> HeldBy(c, d) /\ c # serving[b]
  BY <1>2
<1>4. CASE d = b
  BY <1>1, <1>2, <1>3, <1>4, HeldByElems, HeldByElemsPrime, ClientsAssumption
<1>5. CASE d # b
  BY <1>1, <1>2, <1>3, <1>5, HeldByElems, HeldByElemsPrime
<1> QED
  BY <1>4, <1>5

LEMMA ReplyKeeps ==
  ASSUME NEW b \in Brokers, Invariant, Reply(b)
  PROVE  Invariant'
<1> USE DEF Invariant
<1> DEFINE served == serving[b]
<1>1. /\ phase[b] = "reply" /\ phase' = [phase EXCEPT ![b] = "loop"]
      /\ reply' = [reply EXCEPT ![served] = answer[b]]
      /\ serving' = [serving EXCEPT ![b] = None]
      /\ answer' = [answer EXCEPT ![b] = None]
      /\ running' = [running EXCEPT ![b] = @ /\ request[served] # "quit"]
      /\ UNCHANGED <<path, backlog, stage, request, line, hung, started>>
  BY DEF Reply
<1>2. /\ served \in Clients /\ stage[served] # "connected"
      /\ \A c \in Clients, d \in Brokers :
              HeldBy(c, d)' <=> HeldBy(c, d) /\ c # served
  BY <1>1, ServingFacts, ReplyFrees
<1>3. Answers(answer[b], served)
  BY <1>1 DEF Known, BrokerKnows
<1> HIDE DEF served
<1>4. /\ serving'[b] = None /\ phase'[b] = "loop"
      /\ \A d \in Brokers \ {b} : /\ serving'[d] = serving[d]
                                  /\ phase'[d] = phase[d]
                                  /\ answer'[d] = answer[d]
  BY <1>1 DEF Shapes, TypeOK
<1>5. Shapes'
  <2>1. running' \in [Brokers -> BOOLEAN]
    BY <1>1 DEF Shapes, TypeOK
  <2>2. phase' \in [Brokers -> Looping \cup
                     {"off", "prepared", "closing", "gone", "failed"}]
    BY <1>1 DEF Shapes, TypeOK, Looping
  <2>3. \A d \in Brokers :
          serving'[d] \in IF phase'[d] \in {"read", "handle", "reply"}
                            THEN Clients \ Others ELSE {None}
    BY <1>4 DEF Shapes, TypeOK
  <2>4. reply' \in [Clients -> {"ok", "err", None}]
    BY <1>1, <1>2 DEF Shapes, TypeOK
  <2>5. /\ answer' \in [Brokers -> {"ok", "err", None}]
        /\ serving' \in [Brokers -> (Clients \ Others) \cup {None}]
    BY <1>1 DEF Shapes, TypeOK
  <2> QED
    BY <1>1, <2>1, <2>2, <2>3, <2>4, <2>5 DEF Shapes, TypeOK
<1>6. Apart'
  <2>1. \A d \in Brokers : serving'[d] \notin Elems(backlog'[d])
    <3>1. None \notin Elems(backlog[b])
      BY ClientsAssumption DEF Elems, Shapes
    <3> QED
      BY <1>1, <1>4, <3>1 DEF Apart
  <2> QED
    BY <1>1, <1>2, <2>1 DEF Apart
<1>7. \A c \in Clients : CallerKnows(c)'
  <2> TAKE c \in Clients
  <2>1. Held(c)' <=> Held(c) /\ c # served
    BY <1>2 DEF Held
  <2>2. CallerKnows(c)
    BY DEF Known
  <2>3. request'[c] = request[c] /\ started'[c] = started[c]
    BY <1>1
  <2>4. CASE c = served
    <3>1. reply'[c] = answer[b]
      BY <1>1, <1>2, <2>4 DEF Shapes, TypeOK
    <3>2. Answers(reply[c], c)'
      BY <1>3, <2>3, <2>4, <3>1 DEF Answers
    <3> QED
      BY <1>1, <1>2, <2>1, <2>4, <3>2 DEF CallerKnows
  <2>5. CASE c # served
    <3>1. reply'[c] = reply[c]
      BY <1>1, <2>5 DEF Shapes, TypeOK
    <3> QED
      BY <1>1, <2>1, <2>2, <2>3, <2>5, <3>1 DEF CallerKnows, Answers
  <2> QED
    BY <2>4, <2>5
<1>8. \A d \in Brokers : BrokerKnows(d)'
  BY <1>1, <1>4 DEF Known, BrokerKnows, Answers
<1> QED
  BY <1>5, <1>6, <1>7, <1>8 DEF Known

----------------------------------------------------------------------------
(* The steps of a caller.                                                  *)

(* While a broker holds the call of c, c can change neither what it asked  *)
(* for nor what is in the connection.                                      *)
LEMMA CallerKeeps ==
  ASSUME NEW c \in Clients, Invariant, Shapes',
         UNCHANGED <<phase, backlog, serving, answer>>,
         \A x \in Clients \ {c} :
           /\ stage'[x] = stage[x] /\ request'[x] = request[x]
           /\ line'[x] = line[x] /\ reply'[x] = reply[x]
           /\ started'[x] = started[x],
         Held(c) => /\ started'[c] = started[c] /\ request'[c] = request[c]
                    /\ line[c] => line'[c],
         CallerKnows(c)'
  PROVE  /\ Invariant'
         /\ \A x \in Clients : Held(x)' <=> Held(x)
<1> USE DEF Invariant
<1>1. \A x \in Clients, d \in Brokers : HeldBy(x, d)' <=> HeldBy(x, d)
  BY HeldByElems, HeldByElemsPrime
<1>2. \A x \in Clients : Held(x)' <=> Held(x)
  BY <1>1 DEF Held
<1>3. Apart'
  BY <1>1 DEF Apart
<1>4. \A x \in Clients : CallerKnows(x)'
  <2>1. ASSUME NEW x \in Clients \ {c}
        PROVE  CallerKnows(x)'
    BY <1>2 DEF Known, CallerKnows, Answers
  <2> QED
    BY <2>1
<1>5. \A d \in Brokers : BrokerKnows(d)'
  <2> TAKE d \in Brokers
  <2>1. \A x \in Clients : HeldBy(x, d) =>
          /\ started'[x] = started[x] /\ request'[x] = request[x]
          /\ line[x] => line'[x]
    BY DEF Held
  <2>2. \A x \in Elems(backlog[d]) : x \in Clients /\ HeldBy(x, d)
    BY HeldByElems DEF Elems, Shapes
  <2>3. phase[d] \in {"read", "handle", "reply"} =>
          serving[d] \in Clients /\ HeldBy(serving[d], d)
    BY HeldByElems DEF Shapes, TypeOK
  <2> QED
    BY <2>1, <2>2, <2>3 DEF Known, BrokerKnows, Answers
<1> QED
  BY <1>2, <1>3, <1>4, <1>5 DEF Known

LEMMA ForgetFrame ==
  ASSUME NEW c \in Clients, Invariant, Forget(c)
  PROVE  /\ line'[c] = FALSE /\ reply'[c] = None /\ started'[c] = 0
         /\ line' \in [Clients -> BOOLEAN]
         /\ reply' \in [Clients -> {"ok", "err", None}]
         /\ started' \in [Clients -> Nat]
         /\ \A x \in Clients \ {c} : /\ line'[x] = line[x]
                                     /\ reply'[x] = reply[x]
                                     /\ started'[x] = started[x]
BY DEF Invariant, Shapes, TypeOK, Forget

(* A call that returns, one that cannot be made, and one that is given up  *)
(* once no broker holds it.                                                *)
LEMMA OverKeeps ==
  ASSUME NEW c \in Clients, NEW result \in Results, Invariant, ~Held(c),
         stage' = [stage EXCEPT ![c] = result],
         request' = [request EXCEPT ![c] = "list"],
         Forget(c), brokerVars' = brokerVars, hung' \subseteq hung
  PROVE  Invariant' /\ \A x \in Clients : Held(x)' <=> Held(x)
<1>1. /\ line'[c] = FALSE /\ reply'[c] = None /\ started'[c] = 0
      /\ line' \in [Clients -> BOOLEAN]
      /\ reply' \in [Clients -> {"ok", "err", None}]
      /\ started' \in [Clients -> Nat]
      /\ \A x \in Clients \ {c} : /\ line'[x] = line[x]
                                  /\ reply'[x] = reply[x]
                                  /\ started'[x] = started[x]
  BY ForgetFrame
<1>2. \A x \in Clients \ {c} : stage'[x] = stage[x] /\ request'[x] = request[x]
  BY DEF Invariant, Shapes, TypeOK
<1>3. Shapes'
  <2>1. /\ stage' \in [Clients -> Results \cup {"connected", "sent"}]
        /\ request' \in [Clients -> Requests]
    BY DEF Invariant, Shapes, TypeOK, Requests
  <2> QED
    BY <1>1, <2>1 DEF Invariant, Shapes, TypeOK, brokerVars
<1>4. CallerKnows(c)'
  BY <1>1 DEF CallerKnows
<1> QED
  BY <1>1, <1>2, <1>3, <1>4, CallerKeeps DEF brokerVars

LEMMA ReturnsKeep ==
  ASSUME NEW c \in Clients, Invariant,
         CallFails(c) \/ SendFails(c) \/ Receive(c) \/ ReceiveNothing(c)
  PROVE  Invariant' /\ \A x \in Clients : Held(x)' <=> Held(x)
<1>1. CASE CallFails(c)
  BY <1>1, OverKeeps DEF CallFails, Results
<1>2. CASE SendFails(c)
  BY <1>2, OverKeeps DEF SendFails, Return, Results
<1>3. CASE Receive(c)
  <2>1. ~Held(c) /\ reply[c] \in Results
    BY <1>3 DEF Receive, Invariant, Known, CallerKnows, Shapes, TypeOK, Results
  <2> QED
    BY <1>3, <2>1, OverKeeps DEF Receive, Return
<1>4. CASE ReceiveNothing(c)
  BY <1>4, OverKeeps DEF ReceiveNothing, Return, Results
<1> QED
  BY <1>1, <1>2, <1>3, <1>4

LEMMA SendKeeps ==
  ASSUME NEW c \in Clients, Invariant, Send(c)
  PROVE  Invariant' /\ \A x \in Clients : Held(x)' <=> Held(x)
<1>1. /\ stage' = [stage EXCEPT ![c] = "sent"] /\ line' = [line EXCEPT ![c] = TRUE]
      /\ UNCHANGED <<brokerVars, request, reply, hung, started>>
      /\ stage[c] = "connected"
  BY DEF Send
<1>2. Shapes'
  <2>1. stage' \in [Clients -> Results \cup {"connected", "sent"}]
    BY <1>1 DEF Invariant, Shapes, TypeOK
  <2>2. line' \in [Clients -> BOOLEAN]
    BY <1>1 DEF Invariant, Shapes, TypeOK
  <2> QED
    BY <1>1, <2>1, <2>2 DEF Invariant, Shapes, TypeOK, brokerVars
<1>3. /\ stage'[c] = "sent" /\ line'[c]
      /\ \A x \in Clients \ {c} : stage'[x] = stage[x] /\ line'[x] = line[x]
  BY <1>1 DEF Invariant, Shapes, TypeOK
<1>4. CallerKnows(c)'
  BY <1>1, <1>3 DEF Invariant, Known, CallerKnows
<1> QED
  BY <1>1, <1>2, <1>3, <1>4, CallerKeeps DEF brokerVars

LEMMA HangKeeps ==
  ASSUME NEW c \in Clients, Invariant, Hang(c)
  PROVE  Invariant' /\ \A x \in Clients : Held(x)' <=> Held(x)
<1>1. /\ hung' = hung \cup {c}
      /\ UNCHANGED <<brokerVars, stage, request, line, reply, started>>
  BY DEF Hang
<1>2. Shapes'
  BY <1>1 DEF Invariant, Shapes, TypeOK, brokerVars
<1>3. CallerKnows(c)'
  <2>1. Held(c)' <=> Held(c)
    BY <1>1 DEF Held, HeldBy, brokerVars
  <2> QED
    BY <1>1, <2>1 DEF Invariant, Known, CallerKnows, Answers
<1> QED
  BY <1>1, <1>2, <1>3, CallerKeeps DEF brokerVars

LEMMA KillKeeps ==
  ASSUME NEW c \in Clients, Invariant, Kill(c)
  PROVE  Invariant' /\ \A x \in Clients : Held(x)' <=> Held(x)
<1>1. /\ stage' = [stage EXCEPT ![c] = "lost"] /\ hung' = hung \ {c}
      /\ UNCHANGED brokerVars
  BY DEF Kill
<1>2. CASE Held(c)
  <2>1. UNCHANGED <<request, line, reply, started>>
    BY <1>2 DEF Kill
  <2>2. Shapes'
    <3>1. stage' \in [Clients -> Results \cup {"connected", "sent"}]
      BY <1>1 DEF Invariant, Shapes, TypeOK, Results
    <3> QED
      BY <1>1, <2>1, <3>1 DEF Invariant, Shapes, TypeOK, brokerVars
  <2>3. /\ stage'[c] = "lost"
        /\ \A x \in Clients \ {c} : stage'[x] = stage[x]
    BY <1>1 DEF Invariant, Shapes, TypeOK
  <2>4. CallerKnows(c)'
    <3>1. reply[c] = None
      BY <1>2 DEF Invariant, Known, CallerKnows
    <3> QED
      BY <2>1, <2>3, <3>1 DEF CallerKnows
  <2> QED
    BY <1>1, <2>1, <2>2, <2>3, <2>4, CallerKeeps DEF brokerVars
<1>3. CASE ~Held(c)
  <2>1. Forget(c) /\ request' = [request EXCEPT ![c] = "list"]
    BY <1>3 DEF Kill
  <2> QED
    BY <1>1, <1>3, <2>1, OverKeeps DEF Results
<1> QED
  BY <1>2, <1>3

(* The new connection waits in one backlog, and nowhere else.              *)
LEMMA CallKeeps ==
  ASSUME NEW c \in Clients, NEW r \in Requests, Invariant, Call(c, r)
  PROVE  /\ Invariant'
         /\ \A x \in Clients : Held(x)' <=> Held(x) \/ x = c
<1> USE DEF Invariant
<1>1. /\ stage' = [stage EXCEPT ![c] = "connected"]
      /\ request' = [request EXCEPT ![c] = r]
      /\ Forget(c) /\ ~Held(c)
      /\ UNCHANGED <<phase, running, path, serving, answer, hung>>
  BY DEF Call
<1>2. PICK b \in Brokers :
        /\ Len(backlog[b]) <= Backlog
        /\ backlog' = [backlog EXCEPT ![b] = Append(backlog[b], c)]
  BY DEF Call
<1>3. /\ line'[c] = FALSE /\ reply'[c] = None /\ started'[c] = 0
      /\ line' \in [Clients -> BOOLEAN]
      /\ reply' \in [Clients -> {"ok", "err", None}]
      /\ started' \in [Clients -> Nat]
      /\ \A x \in Clients \ {c} : /\ line'[x] = line[x]
                                  /\ reply'[x] = reply[x]
                                  /\ started'[x] = started[x]
  BY <1>1, ForgetFrame
<1>4. /\ stage'[c] = "connected"
      /\ \A x \in Clients \ {c} : stage'[x] = stage[x] /\ request'[x] = request[x]
  BY <1>1 DEF Shapes, TypeOK
<1>5. \A d \in Brokers : serving[d] # c /\ c \notin Elems(backlog[d])
  BY <1>1, HeldByElems DEF Held
<1>6. backlog[b] \in Seq(Clients) /\ Distinct(backlog[b])
  BY DEF Shapes, Apart
<1>7. /\ Append(backlog[b], c) \in Seq(Clients)
      /\ Len(Append(backlog[b], c)) = Len(backlog[b]) + 1
      /\ Elems(Append(backlog[b], c)) = Elems(backlog[b]) \cup {c}
      /\ Distinct(Append(backlog[b], c))
  BY <1>5, <1>6, AppendElems
<1>8. /\ backlog'[b] = Append(backlog[b], c)
      /\ \A d \in Brokers \ {b} : backlog'[d] = backlog[d]
  BY <1>2 DEF Shapes
<1>9. Shapes'
  <2>1. /\ stage' \in [Clients -> Results \cup {"connected", "sent"}]
        /\ request' \in [Clients -> Requests]
    BY <1>1 DEF Shapes, TypeOK
  <2>2. backlog' \in [Brokers -> Seq(Clients)]
    BY <1>2, <1>7 DEF Shapes
  <2>3. Len(backlog[b]) \in Nat
    BY <1>6
  <2>4. \A d \in Brokers : Len(backlog'[d]) <= Backlog + 1
    BY <1>2, <1>7, <1>8, <2>3, BacklogAssumption DEF Shapes, TypeOK
  <2> QED
    BY <1>1, <1>3, <2>1, <2>2, <2>4 DEF Shapes, TypeOK
<1>10. \A x \in Clients, d \in Brokers :
         HeldBy(x, d)' <=> HeldBy(x, d) \/ (x = c /\ d = b)
  <2> TAKE x \in Clients, d \in Brokers
  <2>1. CASE d = b
    BY <1>1, <1>7, <1>8, <2>1, HeldByElems, HeldByElemsPrime
  <2>2. CASE d # b
    BY <1>1, <1>8, <2>2, HeldByElems, HeldByElemsPrime
  <2> QED
    BY <2>1, <2>2
<1>11. \A x \in Clients : Held(x)' <=> Held(x) \/ x = c
  BY <1>10 DEF Held
<1>12. Apart'
  <2>1. \A d \in Brokers : Distinct(backlog'[d]) /\ serving'[d] \notin Elems(backlog'[d])
    BY <1>1, <1>5, <1>7, <1>8 DEF Apart
  <2>2. \A d \in Brokers : ~HeldBy(c, d)
    BY <1>1 DEF Held
  <2> QED
    BY <1>10, <2>1, <2>2 DEF Apart
<1>13. \A x \in Clients : CallerKnows(x)'
  <2>1. CallerKnows(c)'
    BY <1>3 DEF CallerKnows
  <2>2. ASSUME NEW x \in Clients, x # c
        PROVE  CallerKnows(x)'
    BY <1>3, <1>4, <1>11, <2>2 DEF Known, CallerKnows, Answers
  <2> QED
    BY <2>1, <2>2
<1>14. \A d \in Brokers : BrokerKnows(d)'
  <2> TAKE d \in Brokers
  <2>1. \A x \in Elems(backlog[d]) : x \in Clients /\ started'[x] = started[x]
    BY <1>3, <1>5 DEF Elems, Shapes
  <2>2. \A x \in Elems(backlog'[d]) : started'[x] = 0
    <3>1. \A x \in Elems(backlog[d]) : started'[x] = 0
      BY <2>1 DEF Known, BrokerKnows
    <3>2. Elems(backlog'[d]) \subseteq Elems(backlog[d]) \cup {c}
      BY <1>7, <1>8
    <3> QED
      BY <1>3, <3>1, <3>2
  <2>3. phase[d] \in {"read", "handle", "reply"} =>
          serving[d] \in Clients \ {c}
    BY <1>5 DEF Shapes, TypeOK
  <2> QED
    BY <1>1, <1>3, <1>4, <2>2, <2>3 DEF Known, BrokerKnows, Answers
<1> QED
  BY <1>9, <1>11, <1>12, <1>13, <1>14 DEF Known

----------------------------------------------------------------------------
(* What holds in every state.                                              *)

LEMMA InvariantStep == Invariant /\ [Next]_vars => Invariant'
<1> SUFFICES ASSUME Invariant, [Next]_vars
             PROVE  Invariant'
  OBVIOUS
<1>1. CASE UNCHANGED vars
  BY <1>1 DEF vars, brokerVars, clientVars, Invariant, Shapes, TypeOK, Apart,
     Distinct, Elems, HeldBy, Held, Known, CallerKnows, BrokerKnows, Answers
<1>2. ASSUME NEW c \in Clients, ClientStep(c)
      PROVE  Invariant'
  BY <1>2, CallKeeps, ReturnsKeep, SendKeeps, KillKeeps, HangKeeps
     DEF ClientStep, Returns
<1>3. ASSUME NEW b \in Brokers, BrokerStep(b)
      PROVE  Invariant'
  <2>1. CASE Quiet(b)
    BY <2>1, QuietKeeps
  <2>2. CASE Closes(b)
    BY <2>2, ClosesKeeps
  <2>3. CASE Loop(b)
    BY <2>1, <2>2, <2>3 DEF Quiet, Closes
  <2> QED
    BY <1>3, <2>1, <2>2, <2>3, AcceptKeeps, ReadKeeps, HandleKeeps, ReplyKeeps
       DEF BrokerStep, Runs, Quiet, Closes
<1> QED
  BY <1>1, <1>2, <1>3 DEF Next

LEMMA InvariantAlways == Spec => []Invariant
BY InvariantInit, InvariantStep, PTL DEF Spec

(* Every variable keeps its shape; the backlog never overflows, and only   *)
(* callers of the broker's own user are ever read from.                    *)
THEOREM TypeCorrect == Spec => []TypeOK
<1>1. Invariant => TypeOK
  BY DEF Invariant, Shapes
<1> QED
  BY <1>1, InvariantAlways, PTL

(* However many brokers run and die, a connection waits once, in one       *)
(* queue, or is served by one broker (the accept loop of run_server).      *)
THEOREM ServedByOne == Spec => []Apart
<1>1. Invariant => Apart
  BY DEF Invariant
<1> QED
  BY <1>1, InvariantAlways, PTL

(* A reply in a connection, or about to be written, tells what the call    *)
(* did, and a call that waits or is being read has done nothing yet        *)
(* (handle_request and its reply).                                         *)
THEOREM RepliesAreTrue == Spec => []Known
<1>1. Invariant => Known
  BY DEF Invariant
<1> QED
  BY <1>1, InvariantAlways, PTL

(* A broker that is the only one there was is the one callers find, for as *)
(* long as it accepts connections, and it leaves no socket behind.         *)
THEOREM AloneIsReachable == Spec => []Reachable
<1>1. Init => Reachable
  BY DEF Init, Reachable, Listening, Looping
<1>2. Invariant /\ Reachable /\ [Next]_vars => Reachable'
  <2> SUFFICES ASSUME Invariant, Reachable, [Next]_vars, NEW b \in Brokers, Alone(b)'
               PROVE  /\ Listening(b)' => path' = b
                      /\ phase'[b] = "gone" => path' = None
    BY DEF Reachable
  <2> USE DEF Listening, Looping
  <2>1. phase \in [Brokers -> Looping \cup
                    {"off", "prepared", "closing", "gone", "failed"}]
    BY DEF Invariant, Shapes, TypeOK
  <2>2. CASE UNCHANGED <<phase, path>>
    BY <2>2 DEF Reachable, Alone
  <2>3. ASSUME NEW c \in Clients, ClientStep(c)
        PROVE  UNCHANGED <<phase, path>>
    BY <2>3 DEF ClientStep, Returns, Call, CallFails, Send, SendFails, Receive,
       ReceiveNothing, Return, Kill, Hang, brokerVars
  <2>4. ASSUME NEW d \in Brokers, BrokerStep(d)
        PROVE  /\ phase'[d] # "off"
               /\ \A e \in Brokers \ {d} : phase'[e] = phase[e]
    BY <2>1, <2>4 DEF BrokerStep, Runs, Prepare, Bind, BindFails, Loop, PollAgain,
       AcceptFails, Accept, ReadLine, ReadFails, Handle, Reply, Unlink, Terminate,
       Crash
  <2>5. CASE BrokerStep(b)
    <3>1. Alone(b)
      BY <2>4, <2>5 DEF Alone
    <3>2. /\ Listening(b) => path = b
          /\ phase[b] = "gone" => path = None
      BY <3>1 DEF Reachable
    <3> QED
      BY <2>1, <2>5, <3>2 DEF BrokerStep, Runs, Prepare, Bind, BindFails, Loop,
         PollAgain, AcceptFails, Accept, ReadLine, ReadFails, Handle, Reply, Unlink,
         Terminate, Crash
  <2>6. \A d \in Brokers \ {b} : ~BrokerStep(d)
    BY <2>4 DEF Alone
  <2> QED
    BY <2>2, <2>3, <2>5, <2>6 DEF Next, vars, brokerVars
<1> QED
  BY <1>1, <1>2, InvariantAlways, PTL DEF Spec

----------------------------------------------------------------------------
(* What the callers see: every step is one of LaunchService, or none.      *)

callStage == [c \in Clients |->
                IF stage[c] \in Results THEN stage[c] ELSE "waiting"]
callAsked == [c \in Clients |-> request[c] = "launch"]
callOpen == [c \in Clients |-> Held(c)]
callVars == <<callStage, callAsked, callOpen, started>>

LEMMA SameStage ==
  ASSUME \A c \in Clients : stage'[c] = stage[c] \/ {stage'[c], stage[c]} \cap Results = {}
  PROVE  callStage' = callStage
BY DEF callStage

LEMMA SameAsked ==
  ASSUME \A c \in Clients : request'[c] = "launch" <=> request[c] = "launch"
  PROVE  callAsked' = callAsked
BY DEF callAsked

LEMMA HeldBoolean == \A c : Held(c) \in BOOLEAN /\ Held(c)' \in BOOLEAN
BY DEF Held

LEMMA SameOpen ==
  ASSUME \A c \in Clients : Held(c)' <=> Held(c)
  PROVE  callOpen' = callOpen
<1>1. \A c \in Clients : Held(c)' = Held(c)
  BY HeldBoolean
<1> QED
  BY <1>1 DEF callOpen

LEMMA FinishStep ==
  ASSUME NEW done \in SUBSET Clients, \A c \in done : Held(c),
         \A c \in Clients : Held(c)' <=> Held(c) /\ c \notin done,
         UNCHANGED <<stage, request, started>>
  PROVE  Promise!Finish(done)
<1>1. callStage' = callStage /\ callAsked' = callAsked
  BY DEF callStage, callAsked
<1>2. callOpen' = [c \in Clients |-> callOpen[c] /\ c \notin done]
  <2>1. \A c \in Clients : Held(c)' = (callOpen[c] /\ c \notin done)
    BY HeldBoolean DEF callOpen
  <2> QED
    BY <2>1 DEF callOpen
<1>3. \A c \in done : callOpen[c]
  BY DEF callOpen
<1> QED
  BY <1>1, <1>2, <1>3 DEF Promise!Finish, callStage, callAsked, callOpen

LEMMA StageChanges ==
  ASSUME NEW c \in Clients, NEW s, Invariant, stage' = [stage EXCEPT ![c] = s]
  PROVE  callStage' = [callStage EXCEPT ![c] = IF s \in Results THEN s ELSE "waiting"]
BY DEF callStage, Invariant, Shapes, TypeOK

LEMMA CallStep ==
  ASSUME NEW c \in Clients, NEW r \in Requests, NEW reached \in BOOLEAN, Invariant,
         stage[c] \in Results, ~Held(c), Forget(c),
         stage' = [stage EXCEPT ![c] = IF reached THEN "connected" ELSE "err"],
         request' = [request EXCEPT ![c] = r],
         \A x \in Clients : Held(x)' <=> Held(x) \/ (x = c /\ reached)
  PROVE  Promise!Call(c)
<1> DEFINE launch == r = "launch"
<1>1. callStage' = [callStage EXCEPT ![c] = IF reached THEN "waiting" ELSE "err"]
  <2>1. CASE reached
    <3>1. stage' = [stage EXCEPT ![c] = "connected"]
      BY <2>1
    <3> QED
      BY <2>1, <3>1, StageChanges DEF Results
  <2>2. CASE ~reached
    <3>1. stage' = [stage EXCEPT ![c] = "err"]
      BY <2>2
    <3> QED
      BY <2>2, <3>1, StageChanges DEF Results
  <2> QED
    BY <2>1, <2>2
<1>2. callAsked' = [callAsked EXCEPT ![c] = launch]
  BY DEF callAsked, Invariant, Shapes, TypeOK
<1>3. callOpen' = [callOpen EXCEPT ![c] = reached]
  <2>1. \A x \in Clients : Held(x)' = IF x = c THEN reached ELSE Held(x)
    BY HeldBoolean
  <2> QED
    BY <2>1 DEF callOpen
<1>4. callStage[c] # "waiting" /\ ~callOpen[c]
  BY DEF callStage, callOpen, Results
<1>5. launch \in BOOLEAN
  OBVIOUS
<1> HIDE DEF launch
<1>6. started' = [started EXCEPT ![c] = 0]
  BY DEF Forget
<1> QED
  BY <1>1, <1>2, <1>3, <1>4, <1>5, <1>6
     DEF Promise!Call, callStage, callAsked, callOpen

LEMMA ReturnStep ==
  ASSUME NEW c \in Clients, NEW result \in Results, Invariant,
         Calling(c),
         result = "ok" => ~Held(c) /\ (request[c] = "launch" => started[c] = 1),
         result = "err" => ~Held(c) /\ started[c] = 0,
         stage' = [stage EXCEPT ![c] = result],
         \A x \in Clients : Held(x)' <=> Held(x),
         \/ Held(c) /\ UNCHANGED <<request, started>>
         \/ ~Held(c) /\ Forget(c) /\ request' = [request EXCEPT ![c] = "list"]
  PROVE  Promise!Return(c, result)
<1>1. callStage' = [callStage EXCEPT ![c] = result]
  BY StageChanges
<1>2. callOpen' = callOpen
  BY SameOpen
<1>3. callAsked' = [callAsked EXCEPT ![c] = @ /\ callOpen[c]]
  <2>1. CASE Held(c)
    BY <2>1 DEF callAsked, callOpen, Forget
  <2>2. CASE ~Held(c)
    BY <2>2 DEF callAsked, callOpen, Invariant, Shapes, TypeOK
  <2> QED
    BY <2>1, <2>2
<1>4. started' = [started EXCEPT ![c] = IF callOpen[c] THEN @ ELSE 0]
  <2>1. started \in [Clients -> Nat]
    BY DEF Invariant, Shapes, TypeOK
  <2> QED
    BY <2>1 DEF callOpen, Forget
<1>5. callStage[c] = "waiting"
  BY DEF callStage, Calling, Results
<1>6. /\ result = "ok" => ~callOpen[c] /\ (callAsked[c] => started[c] = 1)
      /\ result = "err" => ~callOpen[c] /\ started[c] = 0
  BY DEF callAsked, callOpen
<1> QED
  BY <1>1, <1>2, <1>3, <1>4, <1>5, <1>6
     DEF Promise!Return, callStage, callAsked, callOpen

LEMMA StartStep ==
  ASSUME NEW c \in Clients, Held(c), request[c] = "launch", started[c] = 0,
         started' = [started EXCEPT ![c] = 1],
         UNCHANGED <<callStage, callAsked, callOpen>>
  PROVE  Promise!Start(c)
<1>1. callOpen[c] /\ callAsked[c]
  BY DEF callOpen, callAsked
<1> QED
  BY <1>1 DEF Promise!Start, callStage, callAsked, callOpen

LEMMA ClientStepImplements ==
  ASSUME Invariant, NEW c \in Clients, ClientStep(c)
  PROVE  Promise!Next \/ UNCHANGED callVars
<1>1. ASSUME NEW r \in Requests, Call(c, r)
      PROVE  Promise!Call(c)
  <2>1. \A x \in Clients : Held(x)' <=> Held(x) \/ (x = c /\ TRUE)
    BY <1>1, CallKeeps
  <2> QED
    BY <1>1, <2>1, CallStep DEF Call
<1>2. CASE CallFails(c)
  <2>1. \A x \in Clients : Held(x)' <=> Held(x) \/ (x = c /\ FALSE)
    BY <1>2, ReturnsKeep
  <2>2. "list" \in Requests
    BY DEF Requests
  <2>3. Promise!Call(c)
    BY <1>2, <2>1, <2>2, CallStep DEF CallFails
  <2> QED
    BY <2>3 DEF Promise!Next
<1>3. CASE Send(c)
  <2>1. callStage' = callStage
    <3>1. \A x \in Clients :
            stage'[x] = stage[x] \/ {stage'[x], stage[x]} \cap Results = {}
      BY <1>3 DEF Send, Results, Invariant, Shapes, TypeOK
    <3> QED
      BY <3>1, SameStage
  <2>2. callAsked' = callAsked /\ callOpen' = callOpen
    BY <1>3, SendKeeps, SameOpen, SameAsked DEF Send
  <2> QED
    BY <1>3, <2>1, <2>2 DEF Send, callVars
<1>4. CASE SendFails(c)
  <2>1. Promise!Return(c, "err")
    <3>1. started[c] = 0 /\ "err" \in Results
      BY <1>4 DEF SendFails, Invariant, Known, CallerKnows, Results
    <3> QED
      BY <1>4, <3>1, ReturnsKeep, ReturnStep DEF SendFails, Return, Calling
  <2> QED
    BY <2>1 DEF Promise!Next, Promise!Results
<1>5. CASE Receive(c)
  <2>1. /\ reply[c] \in {"ok", "err"} /\ ~Held(c) /\ Answers(reply[c], c)
    BY <1>5 DEF Receive, Invariant, Known, CallerKnows, Shapes, TypeOK
  <2>2. PICK a \in {"ok", "err"} : a = reply[c]
    BY <2>1
  <2>3. Calling(c) /\ Return(c, a)
    BY <1>5, <2>2 DEF Receive, Calling
  <2>4. a \in Results
    BY DEF Results
  <2>5. /\ a = "ok" => ~Held(c) /\ (request[c] = "launch" => started[c] = 1)
        /\ a = "err" => ~Held(c) /\ started[c] = 0
    BY <2>1, <2>2 DEF Answers
  <2>6. Promise!Return(c, a)
    BY <1>5, <2>1, <2>3, <2>4, <2>5, ReturnsKeep, ReturnStep DEF Return
  <2> QED
    BY <2>6 DEF Promise!Next, Promise!Results
<1>6. CASE ReceiveNothing(c)
  <2>1. Promise!Return(c, "lost")
    BY <1>6, ReturnsKeep, ReturnStep DEF ReceiveNothing, Return, Calling, Results
  <2> QED
    BY <2>1 DEF Promise!Next, Promise!Results
<1>7. CASE Kill(c)
  <2>1. Promise!Return(c, "lost")
    BY <1>7, KillKeeps, ReturnStep DEF Kill, Results
  <2> QED
    BY <2>1 DEF Promise!Next, Promise!Results
<1>8. CASE Hang(c)
  <2>1. callStage' = callStage /\ callAsked' = callAsked /\ callOpen' = callOpen
    BY <1>8, HangKeeps, SameOpen, SameAsked, SameStage DEF Hang
  <2> QED
    BY <1>8, <2>1 DEF Hang, callVars
<1> QED
  BY <1>1, <1>2, <1>3, <1>4, <1>5, <1>6, <1>7, <1>8
     DEF ClientStep, Returns, Promise!Next

LEMMA StutterStep ==
  ASSUME UNCHANGED <<stage, request, started>>,
         \A c \in Clients : Held(c)' <=> Held(c)
  PROVE  UNCHANGED callVars
<1>1. callStage' = callStage /\ callAsked' = callAsked
  BY DEF callStage, callAsked
<1> QED
  BY <1>1, SameOpen DEF callVars

LEMMA FinishIsNext ==
  ASSUME NEW done \in SUBSET Clients, Promise!Finish(done)
  PROVE  Promise!Next
BY DEF Promise!Next

LEMMA BrokerStepImplements ==
  ASSUME Invariant, NEW b \in Brokers, BrokerStep(b)
  PROVE  Promise!Next \/ UNCHANGED callVars
<1>1. CASE Quiet(b)
  <2>1. UNCHANGED <<backlog, serving, clientVars, started>>
    BY <1>1, QuietFrame
  <2>2. \A c \in Clients : Held(c)' <=> Held(c)
    BY <2>1 DEF Held, HeldBy
  <2> QED
    BY <2>1, <2>2, StutterStep DEF clientVars
<1>2. CASE Closes(b)
  <2> DEFINE done == {c \in Clients : HeldBy(c, b)}
  <2>1. UNCHANGED <<clientVars, started>>
    BY <1>2, ClosesFrame
  <2>2. \A c \in Clients, d \in Brokers : HeldBy(c, d)' <=> HeldBy(c, d) /\ d # b
    BY <1>2, ClosesKeeps
  <2>3. \A c \in Clients : Held(c)' <=> Held(c) /\ c \notin done
    BY <2>2 DEF Held, Invariant, Apart
  <2>4. done \in SUBSET Clients /\ \A c \in done : Held(c)
    BY DEF Held
  <2> HIDE DEF done
  <2> QED
    BY <2>1, <2>3, <2>4, FinishStep, FinishIsNext DEF clientVars
<1>3. CASE Accept(b)
  <2> DEFINE done == {Head(backlog[b])} \cap Others
  <2>1. UNCHANGED <<clientVars, started>>
    BY <1>3 DEF Accept
  <2>2. \A c \in Clients : Held(c)' <=> Held(c) /\ c \notin done
    BY <1>3, AcceptKeeps DEF Held
  <2>3. done \in SUBSET Clients /\ \A c \in done : Held(c)
    BY <1>3, AcceptKeeps DEF Held
  <2> HIDE DEF done
  <2> QED
    BY <2>1, <2>2, <2>3, FinishStep, FinishIsNext DEF clientVars
<1>4. CASE ReadLine(b) \/ ReadFails(b)
  <2> DEFINE done == IF ReadLine(b) THEN {} ELSE {serving[b]}
  <2>1. UNCHANGED <<clientVars, started>> /\ phase[b] = "read"
    BY <1>4 DEF ReadLine, ReadFails
  <2>2. \A c \in Clients : Held(c)' <=> Held(c) /\ c \notin done
    BY <1>4, ReadKeeps DEF Held
  <2>3. serving[b] \in Clients /\ Held(serving[b])
    BY <1>4, ReadKeeps, HeldByElems DEF Held
  <2>4. done \in SUBSET Clients /\ \A c \in done : Held(c)
    BY <2>3
  <2> HIDE DEF done
  <2> QED
    BY <2>1, <2>2, <2>4, FinishStep, FinishIsNext DEF clientVars
<1>5. CASE Handle(b)
  <2>1. /\ phase[b] = "handle"
        /\ UNCHANGED <<running, path, backlog, serving, clientVars>>
        /\ \/ started' = started
           \/ /\ request[serving[b]] = "launch"
              /\ started[serving[b]] = 0
              /\ started' = [started EXCEPT ![serving[b]] = 1]
    BY <1>5, HandleEffect
  <2>2. serving[b] \in Clients /\ Held(serving[b])
    BY <2>1, ServingFacts
  <2>3. \A c \in Clients : Held(c)' <=> Held(c)
    BY <2>1 DEF Held, HeldBy
  <2>4. UNCHANGED <<callStage, callAsked, callOpen>>
    BY <2>1, <2>3, SameOpen DEF callStage, callAsked, clientVars
  <2>5. CASE started' = started
    BY <2>4, <2>5 DEF callVars
  <2>6. CASE started' # started
    <3>1. Promise!Start(serving[b])
      BY <2>1, <2>2, <2>4, <2>6, StartStep
    <3> QED
      BY <2>2, <3>1 DEF Promise!Next
  <2> QED
    BY <2>5, <2>6
<1>6. CASE Reply(b)
  <2>1. UNCHANGED <<stage, request, started>> /\ phase[b] = "reply"
    BY <1>6 DEF Reply
  <2>2. \A c \in Clients : Held(c)' <=> Held(c) /\ c \notin {serving[b]}
    BY <1>6, ReplyFrees DEF Held
  <2>3. serving[b] \in Clients /\ Held(serving[b])
    BY <2>1, ServingFacts
  <2> QED
    BY <2>1, <2>2, <2>3, FinishStep, FinishIsNext
<1>7. CASE Loop(b)
  BY <1>1, <1>2, <1>7 DEF Quiet, Closes
<1> QED
  BY <1>1, <1>2, <1>3, <1>4, <1>5, <1>6, <1>7 DEF BrokerStep, Runs, Quiet, Closes

(* Whatever dies or is terminated, and however many brokers and callers    *)
(* there are: at most one program per call, OK exactly when it was         *)
(* started, an ERR exactly when it was not.                                *)
THEOREM PromiseKept == Spec => KeepsPromise
<1>1. Init => Promise!Init
  <2> SUFFICES ASSUME Init
               PROVE  Promise!Init
    OBVIOUS
  <2>1. callStage = [c \in Clients |-> "lost"]
    BY DEF Init, callStage, Results
  <2>2. callAsked = [c \in Clients |-> FALSE]
    BY DEF Init, callAsked
  <2>3. callOpen = [c \in Clients |-> FALSE]
    <3>1. \A c \in Clients : Held(c) = FALSE
      BY ClientsAssumption DEF Init, Held, HeldBy
    <3> QED
      BY <3>1 DEF callOpen
  <2> QED
    BY <2>1, <2>2, <2>3 DEF Init, Promise!Init, callStage, callAsked, callOpen
<1>2. Invariant /\ [Next]_vars => [Promise!Next]_Promise!vars
  <2> SUFFICES ASSUME Invariant, [Next]_vars
               PROVE  Promise!Next \/ UNCHANGED callVars
    BY DEF Promise!vars, callVars, callStage, callAsked, callOpen
  <2>1. CASE UNCHANGED vars
    <3>1. \A c \in Clients : Held(c)' <=> Held(c)
      BY <2>1 DEF vars, brokerVars, Held, HeldBy
    <3> QED
      BY <2>1, <3>1, StutterStep DEF vars, clientVars
  <2> QED
    BY <2>1, ClientStepImplements, BrokerStepImplements DEF Next
<1> QED
  BY <1>1, <1>2, InvariantAlways, PTL DEF Spec, KeepsPromise, Promise!Spec

----------------------------------------------------------------------------
(* Liveness.  Weak fairness of an action speaks of when it is ENABLED,     *)
(* which TLAPS leaves unexpanded.  BrokerCanRun, CallerCanRun and          *)
(* ServiceCanStart say when the fair actions are, by their guards; TLC     *)
(* finds each true in every state.  The theorems take them as hypotheses,  *)
(* and prove everything else.                                              *)
AtWork == {"prepared", "loop", "poll", "handle", "reply", "closing"}
HeardFrom(c) == line[c] \/ stage[c] # "connected"

CanRun(b) ==
  phase[b] \in AtWork \/ (phase[b] = "read" /\ HeardFrom(serving[b]))
    => ENABLED <<Runs(b)>>_vars
CanReturn(c) ==
  (stage[c] = "connected" /\ c \notin hung) \/ (stage[c] = "sent" /\ ~Held(c))
    => ENABLED <<Returns(c)>>_vars

BrokerCanRun == \A b \in Brokers : CanRun(b)
CallerCanRun == \A c \in Clients : CanReturn(c)
ServiceCanStart ==
  phase[Service] = "failed" => ENABLED <<Prepare(Service)>>_vars

LEMMA ShapesAlways == Spec => []Shapes
<1>1. Invariant => Shapes
  BY DEF Invariant
<1> QED
  BY <1>1, InvariantAlways, PTL

(* Fairness of one broker, and of one caller.                              *)
LEMMA BrokerScheduled ==
  ASSUME NEW d \in Brokers
  PROVE  Fairness => BrokerIsScheduled(d)
<1>1. Fairness => \A b \in Brokers : BrokerIsScheduled(b)
  BY PTL DEF Fairness
<1>2. (\A b \in Brokers : BrokerIsScheduled(b)) => BrokerIsScheduled(d)
  OBVIOUS
<1> QED
  BY <1>1, <1>2

LEMMA CallerScheduled ==
  ASSUME NEW d \in Clients
  PROVE  Fairness => CallerIsScheduled(d)
<1>1. Fairness => \A c \in Clients : CallerIsScheduled(c)
  BY PTL DEF Fairness
<1>2. (\A c \in Clients : CallerIsScheduled(c)) => CallerIsScheduled(d)
  OBVIOUS
<1> QED
  BY <1>1, <1>2

(* Where a broker that listens may go in one step: on through its loop, or *)
(* away.  Nobody else moves it, gives it back its g_running, or takes the  *)
(* caller it serves from it.                                               *)
Ending(b) == Listening(b) /\ ~running[b]
At(b, p) == Ending(b) /\ phase[b] = p
Reads(b, c) == phase[b] = "read" /\ serving[b] = c
GoesOn(b) == phase[b] \in {"loop", "handle"} \/ ~Listening(b) \/ hung # {}

LEMMA LoopSteps ==
  ASSUME Shapes, [Next]_vars, NEW b \in Brokers, Listening(b)
  PROVE  \/ ~Listening(b)'
         \/ /\ ~running[b] => ~running'[b]
            /\ \/ phase'[b] = phase[b] /\ serving'[b] = serving[b]
               \/ phase[b] = "loop" /\ running[b] /\ phase'[b] = "poll"
               \/ phase[b] = "poll" /\ phase'[b] \in {"loop", "read"}
               \/ phase[b] = "read" /\ phase'[b] \in {"loop", "handle"}
               \/ phase[b] = "handle" /\ phase'[b] = "reply"
               \/ phase[b] = "reply" /\ phase'[b] = "loop"
<1> USE DEF Listening, Looping
<1> DEFINE Stays == /\ phase'[b] = phase[b] /\ serving'[b] = serving[b]
                    /\ ~running[b] => ~running'[b]
<1>1. ASSUME NEW c \in Clients, ClientStep(c)
      PROVE  Stays
  BY <1>1 DEF ClientStep, Returns, Call, CallFails, Send, SendFails, Receive,
     ReceiveNothing, Return, Kill, Hang, brokerVars
<1>2. ASSUME NEW d \in Brokers, BrokerStep(d), d # b
      PROVE  Stays
  BY <1>2 DEF Shapes, TypeOK, BrokerStep, Runs, Prepare, Bind, BindFails, Loop, PollAgain,
     Accept, ReadLine, ReadFails, Handle, Reply, Unlink, AcceptFails, Terminate, Crash
<1>3. CASE Prepare(b) \/ Bind(b) \/ BindFails(b) \/ Unlink(b) \/ Terminate(b)
  BY <1>3 DEF Shapes, TypeOK, Prepare, Bind, BindFails, Unlink, Terminate
<1>4. CASE Loop(b) \/ AcceptFails(b) \/ Crash(b)
  BY <1>4 DEF Shapes, TypeOK, Loop, AcceptFails, Crash
<1>5. CASE PollAgain(b) \/ Accept(b) \/ ReadLine(b) \/ ReadFails(b) \/ Handle(b)
           \/ Reply(b)
  BY <1>5 DEF Shapes, TypeOK, PollAgain, Accept, ReadLine, ReadFails, Handle, Reply
<1>6. CASE UNCHANGED vars
  BY <1>6 DEF vars, brokerVars
<1> QED
  BY <1>1, <1>2, <1>3, <1>4, <1>5, <1>6 DEF Next, BrokerStep, Runs

(* What b does of itself takes it on.                                      *)
LEMMA RunsMoves ==
  ASSUME Shapes, NEW b \in Brokers, Runs(b)
  PROVE  phase'[b] # phase[b]
BY DEF Shapes, TypeOK, Runs, Bind, BindFails, Loop, PollAgain, Accept, ReadLine, ReadFails,
       Handle, Reply, Unlink

(* A caller that is being served cannot go back to having said nothing.    *)
LEMMA HeardStays ==
  ASSUME Shapes, [Next]_vars, NEW b \in Brokers, NEW c \in Clients,
         serving[b] = c, HeardFrom(c)
  PROVE  HeardFrom(c)'
<1> USE DEF HeardFrom
<1>1. Held(c)
  BY DEF Held, HeldBy
<1>2. ASSUME NEW d \in Clients, ClientStep(d)
      PROVE  HeardFrom(c)'
  <2>1. CASE d # c
    BY <1>2, <2>1 DEF Shapes, TypeOK, ClientStep, Returns, Call, CallFails, Send,
       SendFails, Receive, ReceiveNothing, Return, Forget, Kill, Hang
  <2>2. CASE d = c
    <3>1. Results \cap {"connected", "sent"} = {}
      BY DEF Results
    <3>2. CASE (\E r \in Requests : Call(d, r)) \/ CallFails(d)
      BY <1>1, <2>2, <3>2 DEF Call, CallFails
    <3>3. CASE Send(d)
      BY <2>2, <3>3 DEF Send, Shapes, TypeOK
    <3>4. CASE SendFails(d) \/ Receive(d) \/ ReceiveNothing(d) \/ Kill(d)
      BY <2>2, <3>4 DEF SendFails, Receive, ReceiveNothing, Return, Kill, Shapes,
                        TypeOK
    <3>5. CASE Hang(d)
      BY <3>5 DEF Hang
    <3> QED
      BY <1>2, <3>2, <3>3, <3>4, <3>5 DEF ClientStep, Returns
  <2> QED
    BY <2>1, <2>2
<1>3. ASSUME NEW d \in Brokers, BrokerStep(d)
      PROVE  HeardFrom(c)'
  BY <1>3 DEF BrokerStep, Runs, Prepare, Bind, BindFails, Loop, PollAgain,
     Accept, ReadLine, ReadFails, Handle, Reply, Unlink, AcceptFails, Terminate,
     Crash, clientVars
<1>4. CASE UNCHANGED vars
  BY <1>4 DEF vars, clientVars
<1> QED
  BY <1>2, <1>3, <1>4 DEF Next

(* What a caller does of itself, while it is served, is to send its line.  *)
LEMMA ReturnsSpeaks ==
  ASSUME Shapes, NEW b \in Brokers, NEW c \in Clients, serving[b] = c, ~HeardFrom(c),
         Returns(c)
  PROVE  HeardFrom(c)'
<1>1. Held(c)
  BY DEF Held, HeldBy
<1> QED
  BY <1>1 DEF Shapes, TypeOK, HeardFrom, Returns, Send, SendFails, Receive,
              ReceiveNothing

(* A broker reads from a caller it knows: that one speaks, or goes, and b  *)
(* goes on; or it is stopped.                                              *)
LEMMA ReadingEnds ==
  ASSUME NEW b \in Brokers, NEW c \in Clients
  PROVE  Spec /\ []BrokerCanRun /\ []CallerCanRun =>
           (Reads(b, c) ~> GoesOn(b))
<1> DEFINE Out == GoesOn(b)
           Silent == Reads(b, c) /\ ~HeardFrom(c)
           Spoken == Reads(b, c) /\ HeardFrom(c)
<1>1. Shapes /\ Reads(b, c) /\ [Next]_vars => Reads(b, c)' \/ Out'
  BY LoopSteps DEF Reads, GoesOn, Listening, Looping
<1>2. Shapes /\ Spoken /\ [Next]_vars => Spoken' \/ Out'
  BY <1>1, HeardStays DEF Reads
<1>3. Shapes /\ Spoken /\ [Next]_vars /\ <<Runs(b)>>_vars => Out'
  BY <1>1, RunsMoves DEF Reads
<1>4. BrokerCanRun /\ Spoken => ENABLED <<Runs(b)>>_vars
  BY DEF BrokerCanRun, CanRun, Reads
<1>5. Shapes /\ Silent /\ [Next]_vars /\ <<Returns(c)>>_vars => Spoken' \/ Out'
  BY <1>1, ReturnsSpeaks DEF Reads
<1>6. CallerCanRun /\ Silent => Out \/ ENABLED <<Returns(c)>>_vars
  BY DEF CallerCanRun, CanReturn, HeardFrom, GoesOn
<1>7. Fairness => BrokerIsScheduled(b) /\ CallerIsScheduled(c)
  BY BrokerScheduled, CallerScheduled
<1>8. Reads(b, c) <=> Silent \/ Spoken
  OBVIOUS
<1> HIDE DEF Silent, Spoken
<1>9. Spec /\ []BrokerCanRun /\ []CallerCanRun => (Reads(b, c) ~> Out)
  BY <1>1, <1>2, <1>3, <1>4, <1>5, <1>6, <1>7, <1>8, ShapesAlways, PTL
     DEF Spec, BrokerIsScheduled, CallerIsScheduled
<1> QED
  BY <1>9

(* What comes of a broker's reading from any one caller comes of its       *)
(* reading from somebody.                                                  *)
ReadsSomebody(b) == \E c \in Clients : Reads(b, c)

LEMMA WhoeverIsRead ==
  ASSUME NEW b \in Brokers,
         ASSUME NEW c \in Clients PROVE Reads(b, c) ~> GoesOn(b)
  PROVE  ReadsSomebody(b) ~> GoesOn(b)
<1>1. ReadsSomebody(b) => <>GoesOn(b)
  <2>1. ASSUME NEW c \in Clients PROVE Reads(b, c) => <>GoesOn(b)
    <3>1. Reads(b, c) ~> GoesOn(b)
      OBVIOUS
    <3> QED
      BY <3>1, PTL
  <2> QED
    BY <2>1 DEF ReadsSomebody
<1> QED
  BY <1>1, PTL

LEMMA ReadingGoesOn ==
  ASSUME NEW b \in Brokers
  PROVE  Spec /\ []BrokerCanRun /\ []CallerCanRun => (ReadsSomebody(b) ~> GoesOn(b))
<1> SUFFICES ASSUME Spec /\ []BrokerCanRun /\ []CallerCanRun
             PROVE  ReadsSomebody(b) ~> GoesOn(b)
  OBVIOUS
<1>1. ASSUME NEW c \in Clients PROVE Reads(b, c) ~> GoesOn(b)
  BY ReadingEnds
<1> QED
  BY <1>1, WhoeverIsRead

(* After QUIT or SIGTERM the broker ends: what it is doing it does to its  *)
(* end, and of the callers it may be reading from all but one that is      *)
(* stopped speak or go (run_server, read_line).                            *)
THEOREM BrokersStop == Spec /\ []BrokerCanRun /\ []CallerCanRun => Stops
<1> SUFFICES ASSUME NEW b \in Brokers
             PROVE  Spec /\ []BrokerCanRun /\ []CallerCanRun =>
                      (Listening(b) /\ ~running[b] ~> ~Listening(b) \/ hung # {})
  BY DEF Stops
<1> DEFINE Out == ~Listening(b) \/ hung # {}
           L == At(b, "loop")
           P == At(b, "poll")
           R == At(b, "read")
           H == At(b, "handle")
           A == At(b, "reply")
<1>1. Shapes /\ L /\ [Next]_vars => L' \/ Out'
  BY LoopSteps DEF At, Ending, Listening, Looping
<1>2. Shapes /\ A /\ [Next]_vars => A' \/ L' \/ Out'
  BY LoopSteps DEF At, Ending, Listening, Looping
<1>3. Shapes /\ H /\ [Next]_vars => H' \/ A' \/ Out'
  BY LoopSteps DEF At, Ending, Listening, Looping
<1>4. Shapes /\ P /\ [Next]_vars => P' \/ L' \/ R' \/ Out'
  BY LoopSteps DEF At, Ending, Listening, Looping
<1>5. /\ Shapes /\ L /\ <<Runs(b)>>_vars => ~L'
      /\ Shapes /\ A /\ <<Runs(b)>>_vars => ~A'
      /\ Shapes /\ H /\ <<Runs(b)>>_vars => ~H'
      /\ Shapes /\ P /\ <<Runs(b)>>_vars => ~P'
  BY RunsMoves DEF At
<1>6. BrokerCanRun /\ (L \/ A \/ H \/ P) => ENABLED <<Runs(b)>>_vars
  BY DEF BrokerCanRun, CanRun, At, AtWork
<1>7. Listening(b) /\ ~running[b] => L \/ P \/ R \/ H \/ A
  BY DEF At, Ending, Listening, Looping
<1>8. Spec /\ []BrokerCanRun /\ []CallerCanRun => (ReadsSomebody(b) ~> GoesOn(b))
  BY ReadingGoesOn
<1>9. Fairness => BrokerIsScheduled(b)
  BY BrokerScheduled
<1>10. /\ Shapes /\ R => ReadsSomebody(b)
       /\ R /\ GoesOn(b) => Out
       /\ Shapes /\ R /\ [Next]_vars => R' \/ L' \/ H' \/ Out'
  BY LoopSteps DEF GoesOn, Shapes, TypeOK, At, Ending, Listening, Looping, Reads,
                   ReadsSomebody
<1> HIDE DEF Out, L, P, R, H, A
<1>11. Spec /\ []BrokerCanRun /\ []CallerCanRun =>
          (Listening(b) /\ ~running[b] ~> Out)
  BY <1>1, <1>2, <1>3, <1>4, <1>5, <1>6, <1>7, <1>8, <1>9, <1>10,
     ShapesAlways, PTL DEF Spec, BrokerIsScheduled
<1> QED
  BY <1>11 DEF Out

(* finn-session.service: a service that died is started again, takes the   *)
(* path whatever is left there, and listens, unless a second broker is     *)
(* about (prepare_socket, Restart=on-failure).                             *)
THEOREM ServiceRecovers ==
  Spec /\ []BrokerCanRun /\ []ServiceCanStart => Recovers
<1> DEFINE Died == phase[Service] = "failed" /\ Alone(Service)
           Ready == phase[Service] = "prepared" /\ path = None /\ Alone(Service)
           Out == Listening(Service) \/ ~Alone(Service)
<1>s. Service \in Brokers
  BY DEF Brokers
<1>1. ASSUME Shapes, [Next]_vars, Died PROVE Died' \/ Ready' \/ Out'
  <2>1. ASSUME NEW c \in Clients, ClientStep(c) PROVE Died'
    BY <1>1, <2>1 DEF ClientStep, Returns, Call, CallFails, Send, SendFails, Receive,
       ReceiveNothing, Return, Kill, Hang, brokerVars, Alone
  <2>2. CASE BrokerStep(Service)
    BY <1>1, <1>s, <2>2 DEF Shapes, TypeOK, Alone, Listening, Looping, BrokerStep, Runs,
       Prepare, Bind, BindFails, Loop, PollAgain, Accept, ReadLine, ReadFails,
       Handle, Reply, Unlink, AcceptFails, Terminate, Crash
  <2>3. ASSUME NEW d \in Brokers \ {Service}, BrokerStep(d) PROVE Out'
    BY <1>1, <2>3 DEF Shapes, TypeOK, Alone, Listening, Looping, BrokerStep, Runs,
       Prepare, Bind, BindFails, Loop, PollAgain, Accept, ReadLine, ReadFails,
       Handle, Reply, Unlink, AcceptFails, Terminate, Crash
  <2>4. CASE UNCHANGED vars
    BY <1>1, <2>4 DEF vars, brokerVars, Alone
  <2> QED
    BY <1>1, <2>1, <2>2, <2>3, <2>4 DEF Next
<1>2. ASSUME Shapes, [Next]_vars, Ready PROVE Ready' \/ Out'
  <2>1. ASSUME NEW c \in Clients, ClientStep(c) PROVE Ready'
    BY <1>2, <2>1 DEF ClientStep, Returns, Call, CallFails, Send, SendFails, Receive,
       ReceiveNothing, Return, Kill, Hang, brokerVars, Alone
  <2>2. CASE BrokerStep(Service)
    BY <1>2, <1>s, <2>2 DEF Shapes, TypeOK, Alone, Listening, Looping, BrokerStep, Runs,
       Prepare, Bind, BindFails, Loop, PollAgain, Accept, ReadLine, ReadFails,
       Handle, Reply, Unlink, AcceptFails, Terminate, Crash
  <2>3. ASSUME NEW d \in Brokers \ {Service}, BrokerStep(d) PROVE Out'
    BY <1>2, <2>3 DEF Shapes, TypeOK, Alone, Listening, Looping, BrokerStep, Runs,
       Prepare, Bind, BindFails, Loop, PollAgain, Accept, ReadLine, ReadFails,
       Handle, Reply, Unlink, AcceptFails, Terminate, Crash
  <2>4. CASE UNCHANGED vars
    BY <1>2, <2>4 DEF vars, brokerVars, Alone
  <2> QED
    BY <1>2, <2>1, <2>2, <2>3, <2>4 DEF Next
<1>3. Shapes /\ Died /\ <<Prepare(Service)>>_vars => ~Died'
  BY <1>s DEF Shapes, TypeOK, Prepare
<1>4. Shapes /\ Ready /\ <<Runs(Service)>>_vars => ~Ready'
  BY <1>s, RunsMoves
<1>5. ServiceCanStart /\ Died => ENABLED <<Prepare(Service)>>_vars
  BY DEF ServiceCanStart
<1>6. BrokerCanRun /\ Ready => ENABLED <<Runs(Service)>>_vars
  <2>1. CanRun(Service) /\ Ready => ENABLED <<Runs(Service)>>_vars
    BY DEF CanRun, AtWork
  <2> QED
    BY <1>s, <2>1 DEF BrokerCanRun
<1>7. phase[Service] = "failed" => Died \/ Out
  OBVIOUS
<1>8. Fairness => BrokerIsScheduled(Service)
  BY <1>s, BrokerScheduled
<1> HIDE DEF Died, Ready, Out
<1>9. Spec /\ []BrokerCanRun /\ []ServiceCanStart =>
        (phase[Service] = "failed" ~> Out)
  BY <1>1, <1>2, <1>3, <1>4, <1>5, <1>6, <1>7, <1>8, ShapesAlways, PTL
     DEF Spec, Fairness, BrokerIsScheduled
<1> QED
  BY <1>9 DEF Out, Recovers

----------------------------------------------------------------------------
(* A call that got through returns.  Its connection waits in the queue of  *)
(* a broker that listens, is served, or was let go of; nobody takes it     *)
(* from the one that holds it.                                             *)
QueuesListen == \A b \in Brokers : backlog[b] # <<>> => Listening(b)

LEMMA QueuesListenAlways == Spec => []QueuesListen
<1>1. Init => QueuesListen
  BY DEF Init, QueuesListen
<1>2. Shapes /\ QueuesListen /\ [Next]_vars => QueuesListen'
  <2> SUFFICES ASSUME Shapes, QueuesListen, [Next]_vars
               PROVE  QueuesListen'
    OBVIOUS
  <2> USE DEF QueuesListen, Listening, Looping
  <2>1. ASSUME NEW c \in Clients, ClientStep(c) PROVE QueuesListen'
    <3>1. ASSUME NEW r \in Requests, Call(c, r) PROVE QueuesListen'
      BY <3>1 DEF Call, Shapes
    <3>2. CASE CallFails(c) \/ Returns(c) \/ Kill(c) \/ Hang(c)
      BY <3>2 DEF CallFails, Returns, Send, SendFails, Receive, ReceiveNothing, Return,
         Kill, Hang, brokerVars
    <3> QED
      BY <2>1, <3>1, <3>2 DEF ClientStep
  <2>2. ASSUME NEW b \in Brokers, BrokerStep(b) PROVE QueuesListen'
    <3>1. CASE Prepare(b) \/ Bind(b) \/ BindFails(b) \/ Unlink(b) \/ Terminate(b)
      BY <3>1 DEF Shapes, TypeOK, Prepare, Bind, BindFails, Unlink, Terminate
    <3>2. CASE Loop(b) \/ AcceptFails(b) \/ Crash(b)
      BY <3>2 DEF Shapes, TypeOK, Loop, AcceptFails, Crash
    <3>3. CASE PollAgain(b) \/ ReadLine(b) \/ ReadFails(b) \/ Handle(b) \/ Reply(b)
      BY <3>3 DEF Shapes, TypeOK, PollAgain, ReadLine, ReadFails, Handle, Reply
    <3>4. CASE Accept(b)
      BY <3>4 DEF Shapes, TypeOK, Accept
    <3> QED
      BY <2>2, <3>1, <3>2, <3>3, <3>4 DEF BrokerStep, Runs
  <2>3. CASE UNCHANGED vars
    BY <2>3 DEF vars, brokerVars
  <2> QED
    BY <2>1, <2>2, <2>3 DEF Next
<1> QED
  BY <1>1, <1>2, ShapesAlways, PTL DEF Spec

LEMMA NotTaken ==
  ASSUME Invariant, NEW d \in Brokers, BrokerStep(d), NEW c \in Clients, NEW b \in Brokers
  PROVE  HeldBy(c, b)' => HeldBy(c, b)
<1>1. CASE Quiet(d) \/ Handle(d)
  <2>1. backlog' = backlog /\ serving' = serving
    BY <1>1, QuietFrame DEF Handle
  <2> QED
    BY <2>1 DEF HeldBy
<1>2. CASE Closes(d)
  BY <1>2, ClosesKeeps
<1>3. CASE Loop(d)
  BY <1>1, <1>2, <1>3 DEF Quiet, Closes
<1> QED
  BY <1>1, <1>2, <1>3, AcceptKeeps, ReadKeeps, ReplyFrees
     DEF BrokerStep, Runs, Quiet, Closes

LEMMA CallersWait ==
  ASSUME Invariant, NEW d \in Clients, ClientStep(d), NEW b \in Brokers
  PROVE  /\ serving' = serving
         /\ DOMAIN backlog[b] \subseteq DOMAIN backlog'[b]
         /\ \A i \in DOMAIN backlog[b] : backlog'[b][i] = backlog[b][i]
<1>1. ASSUME NEW r \in Requests, Call(d, r)
      PROVE  /\ serving' = serving
             /\ DOMAIN backlog[b] \subseteq DOMAIN backlog'[b]
             /\ \A i \in DOMAIN backlog[b] : backlog'[b][i] = backlog[b][i]
  <2>1. backlog'[b] = backlog[b] \/ backlog'[b] = Append(backlog[b], d)
    BY <1>1 DEF Call, Invariant, Shapes
  <2>2. backlog[b] \in Seq(Clients)
    BY DEF Invariant, Shapes
  <2>3. serving' = serving
    BY <1>1 DEF Call
  <2> QED
    BY <2>1, <2>2, <2>3
<1>2. CASE CallFails(d) \/ Returns(d) \/ Kill(d) \/ Hang(d)
  BY <1>2 DEF CallFails, Returns, Send, SendFails, Receive, ReceiveNothing, Return,
     Kill, Hang, brokerVars
<1> QED
  BY <1>1, <1>2 DEF ClientStep

LEMMA HeldOrLetGo ==
  ASSUME Invariant, [Next]_vars, NEW c \in Clients, NEW b \in Brokers, HeldBy(c, b)
  PROVE  HeldBy(c, b)' \/ ~Held(c)'
<1>1. ASSUME NEW d \in Clients, ClientStep(d)
      PROVE  HeldBy(c, b)'
  BY <1>1, CallersWait DEF HeldBy
<1>2. ASSUME NEW d \in Brokers, BrokerStep(d)
      PROVE  HeldBy(c, b)' \/ ~Held(c)'
  <2>1. \A e \in Brokers : HeldBy(c, e)' => e = b
    BY <1>2, NotTaken DEF Invariant, Apart
  <2> QED
    BY <2>1 DEF Held
<1>3. CASE UNCHANGED vars
  BY <1>3 DEF vars, brokerVars, HeldBy
<1> QED
  BY <1>1, <1>2, <1>3 DEF Next

(* Once let go of, a call is not held again.                               *)
LEMMA LetGoStays ==
  ASSUME Invariant, [Next]_vars, NEW c \in Clients, ~Held(c), Calling(c)
  PROVE  ~Held(c)' \/ ~Calling(c)'
<1>1. ASSUME NEW d \in Clients, ClientStep(d)
      PROVE  ~Held(c)'
  <2>1. ASSUME NEW r \in Requests, Call(d, r) PROVE ~Held(c)'
    <3>1. c # d
      BY <2>1 DEF Call, Calling, Results
    <3> QED
      BY <2>1, <3>1, CallKeeps
  <2>2. CASE CallFails(d) \/ Returns(d) \/ Kill(d) \/ Hang(d)
    BY <2>2, ReturnsKeep, SendKeeps, KillKeeps, HangKeeps DEF Returns
  <2> QED
    BY <1>1, <2>1, <2>2 DEF ClientStep
<1>2. ASSUME NEW d \in Brokers, BrokerStep(d)
      PROVE  ~Held(c)'
  BY <1>2, NotTaken DEF Held
<1>3. CASE UNCHANGED vars
  BY <1>3 DEF vars, brokerVars, Held, HeldBy
<1> QED
  BY <1>1, <1>2, <1>3 DEF Next

----------------------------------------------------------------------------
Over(c) == ~Calling(c) \/ hung # {}

(* A call whose connection was closed returns: it cannot be sent, or       *)
(* there is a reply, or there is none (SessionClient::launch).             *)
LEMMA LetGoReturns ==
  ASSUME NEW c \in Clients
  PROVE  Spec /\ []CallerCanRun => (~Held(c) ~> Over(c))
<1> DEFINE Here == ~Held(c) /\ Calling(c) /\ hung = {}
           Out == Over(c)
<1>1. ~Held(c) => Here \/ Out
  BY DEF Over
<1>2. Invariant /\ Here /\ [Next]_vars => Here' \/ Out'
  BY LetGoStays DEF Over
<1>3. Invariant /\ Here /\ <<Returns(c)>>_vars => ~Here'
  BY DEF Invariant, Shapes, TypeOK, Returns, Send, SendFails, Receive, ReceiveNothing,
     Return, Calling, Results
<1>4. CallerCanRun /\ Here => ENABLED <<Returns(c)>>_vars
  <2>1. CanReturn(c) /\ Here => ENABLED <<Returns(c)>>_vars
    BY DEF CanReturn, Calling
  <2> QED
    BY <2>1 DEF CallerCanRun
<1>5. Fairness => CallerIsScheduled(c)
  BY CallerScheduled
<1> HIDE DEF Here, Out
<1>6. Spec /\ []CallerCanRun => (~Held(c) ~> Out)
  BY <1>1, <1>2, <1>3, <1>4, <1>5, InvariantAlways, PTL DEF Spec, CallerIsScheduled
<1> QED
  BY <1>6 DEF Out

(* What a broker serves is in no queue, and it adds to none.               *)
LEMMA ServedOrLetGo ==
  ASSUME Invariant, [Next]_vars, NEW c \in Clients, NEW b \in Brokers, serving[b] = c
  PROVE  serving'[b] = c \/ ~Held(c)'
<1>1. ASSUME NEW d \in Clients, ClientStep(d)
      PROVE  serving'[b] = c
  BY <1>1, CallersWait
<1>2. ASSUME NEW d \in Brokers, BrokerStep(d)
      PROVE  serving'[b] = c \/ ~HeldBy(c, b)'
  <2>1. backlog[b] \in Seq(Clients) /\ c \notin Elems(backlog[b])
    BY DEF Invariant, Shapes, Apart
  <2>2. \/ backlog'[b] = backlog[b] \/ backlog'[b] = <<>>
        \/ backlog[b] # <<>> /\ backlog'[b] = Tail(backlog[b])
    BY <1>2 DEF BrokerStep, Runs, Prepare, Bind, BindFails, Loop, PollAgain, Accept,
       ReadLine, ReadFails, Handle, Reply, Unlink, AcceptFails, Terminate, Crash,
       Invariant, Shapes
  <2>3. c \notin Elems(backlog'[b])
    BY <2>1, <2>2, TailElems, EmptyElems
  <2> QED
    BY <2>3, HeldByElemsPrime
<1>3. CASE UNCHANGED vars
  BY <1>3 DEF vars, brokerVars
<1> QED
  BY <1>1, <1>2, <1>3, HeldOrLetGo DEF Next, HeldBy

(* A call that is served is let go of.                                     *)
LetGo(c) == ~Held(c) \/ Over(c)

LEMMA ServedIsLetGo ==
  ASSUME NEW b \in Brokers, NEW c \in Clients
  PROVE  Spec /\ []BrokerCanRun /\ []CallerCanRun => (serving[b] = c ~> LetGo(c))
<1> DEFINE Out == LetGo(c)
           Here == serving[b] = c
           H == Here /\ phase[b] = "handle"
           A == Here /\ phase[b] = "reply"
<1>1. Invariant /\ Here => Reads(b, c) \/ H \/ A
  BY ClientsAssumption DEF Invariant, Shapes, TypeOK, Reads
<1>2. Invariant /\ Here /\ [Next]_vars => Here' \/ Out'
  BY ServedOrLetGo DEF LetGo
<1>3. Invariant /\ A /\ [Next]_vars => A' \/ Out'
  <2> SUFFICES ASSUME Invariant, A, [Next]_vars, Here' PROVE A'
    BY <1>2
  <2>1. phase'[b] \in {"read", "handle", "reply"}
    BY ClientsAssumption, InvariantStep DEF Invariant, Shapes, TypeOK
  <2> QED
    BY <2>1, LoopSteps DEF Invariant, Listening, Looping
<1>4. Invariant /\ H /\ [Next]_vars => H' \/ A' \/ Out'
  <2> SUFFICES ASSUME Invariant, H, [Next]_vars, Here' PROVE H' \/ A'
    BY <1>2
  <2>1. phase'[b] \in {"read", "handle", "reply"}
    BY ClientsAssumption, InvariantStep DEF Invariant, Shapes, TypeOK
  <2> QED
    BY <2>1, LoopSteps DEF Invariant, Listening, Looping
<1>5. Invariant /\ Here /\ GoesOn(b) => H \/ Out
  BY ClientsAssumption DEF Invariant, Shapes, TypeOK, GoesOn, Listening, Looping, LetGo, Over
<1>6. /\ Invariant /\ H /\ <<Runs(b)>>_vars => ~H'
      /\ Invariant /\ A /\ <<Runs(b)>>_vars => ~A'
  BY RunsMoves DEF Invariant
<1>7. BrokerCanRun /\ (H \/ A) => ENABLED <<Runs(b)>>_vars
  BY DEF BrokerCanRun, CanRun, AtWork
<1>8. Spec /\ []BrokerCanRun /\ []CallerCanRun => (Reads(b, c) ~> GoesOn(b))
  BY ReadingEnds
<1>9. Fairness => BrokerIsScheduled(b)
  BY BrokerScheduled
<1>10. Reads(b, c) => Here
  BY DEF Reads
<1> HIDE DEF Here, Out, H, A
<1>11. Spec /\ []BrokerCanRun /\ []CallerCanRun => (Here ~> Out)
  BY <1>1, <1>2, <1>3, <1>4, <1>5, <1>6, <1>7, <1>8, <1>9, <1>10, InvariantAlways, PTL
     DEF Spec, BrokerIsScheduled
<1> QED
  BY <1>11 DEF Here, Out

----------------------------------------------------------------------------
(* The call is among the first n that wait for b.                          *)
Among(c, b, n) == \E i \in DOMAIN backlog[b] : i <= n /\ backlog[b][i] = c
Arrived(c, b) == serving[b] = c \/ LetGo(c)

LEMMA AcceptAdvances ==
  ASSUME Invariant, NEW b \in Brokers, Accept(b), NEW c \in Clients,
         NEW n \in Nat, NEW m \in Nat, n = m + 1, Among(c, b, n)
  PROVE  Among(c, b, m)' \/ serving'[b] = c \/ ~Held(c)'
<1>1. PICK i \in DOMAIN backlog[b] : i <= n /\ backlog[b][i] = c
  BY DEF Among
<1>2. /\ backlog[b] \in Seq(Clients) /\ backlog[b] # <<>>
      /\ backlog'[b] = Tail(backlog[b])
  BY DEF Accept, Invariant, Shapes
<1>3. CASE i = 1
  <2>1. c = Head(backlog[b]) /\ HeldBy(c, b)
    BY <1>1, <1>2, <1>3 DEF HeldBy
  <2>2. CASE c \in Others
    <3>1. \A d \in Brokers : ~HeldBy(c, d)'
      BY <2>1, <2>2, AcceptKeeps
    <3> QED
      BY <3>1 DEF Held
  <2>3. CASE c \notin Others
    BY <2>1, <2>3 DEF Accept, Invariant, Shapes
  <2> QED
    BY <2>2, <2>3
<1>4. CASE i # 1
  <2>1. i - 1 \in DOMAIN Tail(backlog[b]) /\ Tail(backlog[b])[i - 1] = c /\ i - 1 <= m
    BY <1>1, <1>2, <1>4
  <2> QED
    BY <1>2, <2>1 DEF Among
<1> QED
  BY <1>3, <1>4

LEMMA WaitingSteps ==
  ASSUME Invariant, [Next]_vars, NEW b \in Brokers, NEW c \in Clients,
         NEW n \in Nat, NEW m \in Nat, n = m + 1, Among(c, b, n)
  PROVE  \/ Among(c, b, m)' \/ serving'[b] = c \/ ~Held(c)'
         \/ Among(c, b, n)' /\ ~Accept(b)
<1>1. HeldBy(c, b)
  BY DEF Among, HeldBy
<1>2. ASSUME NEW d \in Clients, ClientStep(d)
      PROVE  Among(c, b, n)' /\ serving' = serving
  BY <1>2, CallersWait DEF Among
<1>3. ASSUME NEW d \in Brokers, BrokerStep(d), ~Accept(b)
      PROVE  Among(c, b, n)' \/ backlog'[b] = <<>>
  BY <1>3 DEF Among, BrokerStep, Runs, Prepare, Bind, BindFails, Loop, PollAgain, Accept,
     ReadLine, ReadFails, Handle, Reply, Unlink, AcceptFails, Terminate, Crash,
     Invariant, Shapes
<1>4. backlog'[b] = <<>> => ~HeldBy(c, b)' \/ serving'[b] = c
  BY DEF HeldBy
<1>5. CASE UNCHANGED vars /\ ~Accept(b)
  BY <1>5 DEF vars, brokerVars, Among
<1>6. CASE Accept(b)
  BY <1>6, AcceptAdvances
<1> QED
  BY <1>1, <1>2, <1>3, <1>4, <1>5, <1>6, HeldOrLetGo DEF Next

(* From one of the first n to one of the first m, or to be served or let   *)
(* go of: by one place with every round of the loop.                       *)
Passes(c, b, n, m) == Among(c, b, n) ~> Among(c, b, m) \/ Arrived(c, b)
Advances(c, b, k) == \A n, m \in Nat : n = m + k => Passes(c, b, n, m)

LEMMA AdvancesByOne ==
  ASSUME NEW b \in Brokers, NEW c \in Clients
  PROVE  Spec /\ []BrokerCanRun /\ []CallerCanRun => Advances(c, b, 1)
<1> SUFFICES ASSUME NEW n \in Nat, NEW m \in Nat, n = m + 1
             PROVE  Spec /\ []BrokerCanRun /\ []CallerCanRun => Passes(c, b, n, m)
  BY DEF Advances
<1> DEFINE Out == Among(c, b, m) \/ Arrived(c, b)
           Here == Among(c, b, n) /\ ~Out
           Ends == Here /\ ~running[b]
           L == Here /\ running[b] /\ phase[b] = "loop"
           P == Here /\ running[b] /\ phase[b] = "poll"
           R == Here /\ running[b] /\ phase[b] = "read"
           H == Here /\ running[b] /\ phase[b] = "handle"
           A == Here /\ running[b] /\ phase[b] = "reply"
           Gone == ~Listening(b) \/ hung # {}
<1>1. Invariant /\ Here /\ [Next]_vars => Here' \/ Out'
  BY WaitingSteps DEF Arrived, LetGo
<1>2. Invariant /\ QueuesListen /\ Here => Listening(b) /\ ~Gone
  BY DEF QueuesListen, Among, Invariant, Shapes, Arrived, LetGo, Over
<1>3. Invariant /\ QueuesListen /\ Here => L \/ P \/ R \/ H \/ A \/ Ends
  BY <1>2 DEF Listening, Looping
<1>4. ASSUME Invariant, QueuesListen, QueuesListen', Here, Here', running[b],
             running'[b], [Next]_vars
      PROVE  \/ phase'[b] = phase[b]
             \/ phase[b] = "loop" /\ phase'[b] = "poll"
             \/ phase[b] = "read" /\ phase'[b] \in {"loop", "handle"}
             \/ phase[b] = "handle" /\ phase'[b] = "reply"
             \/ phase[b] = "reply" /\ phase'[b] = "loop"
  <2>1. Invariant'
    BY <1>4, InvariantStep
  <2>2. Listening(b) /\ Listening(b)'
    BY <1>2, <1>4, <2>1 DEF QueuesListen, Among, Invariant, Shapes
  <2>3. ASSUME phase[b] = "poll" PROVE phase'[b] = "poll"
    <3>1. ~Accept(b) /\ backlog[b] # <<>>
      BY <1>4, WaitingSteps DEF Arrived, LetGo, Among, Invariant, Shapes
    <3>2. ASSUME NEW d \in Clients, ClientStep(d) PROVE phase'[b] = "poll"
      BY <2>3, <3>2 DEF ClientStep, Returns, Call, CallFails, Send, SendFails, Receive,
         ReceiveNothing, Return, Kill, Hang, brokerVars
    <3>3. ASSUME NEW d \in Brokers, BrokerStep(d) PROVE phase'[b] = "poll"
      BY <1>4, <2>2, <2>3, <3>1, <3>3 DEF Listening, Looping, Invariant, Shapes, TypeOK,
         BrokerStep, Runs, Prepare, Bind, BindFails, Loop, PollAgain, ReadLine,
         ReadFails, Handle, Reply, Unlink, AcceptFails, Terminate, Crash, Accept
    <3>4. CASE UNCHANGED vars
      BY <2>3, <3>4 DEF vars, brokerVars
    <3> QED
      BY <1>4, <3>2, <3>3, <3>4 DEF Next
  <2> QED
    BY <1>4, <2>2, <2>3, LoopSteps DEF Invariant
<1>5. ASSUME Invariant, QueuesListen, QueuesListen', Here, running[b], [Next]_vars
      PROVE  /\ L => L' \/ P' \/ Ends' \/ Out'
             /\ P => P' \/ Ends' \/ Out'
             /\ R => R' \/ L' \/ H' \/ Ends' \/ Out'
             /\ H => H' \/ A' \/ Ends' \/ Out'
             /\ A => A' \/ L' \/ Ends' \/ Out'
  BY <1>1, <1>4, <1>5
<1>6. Invariant /\ QueuesListen /\ QueuesListen' /\ Ends /\ [Next]_vars => Ends' \/ Out'
  <2> SUFFICES ASSUME Invariant, QueuesListen, QueuesListen', Ends, [Next]_vars, Here'
               PROVE  ~running'[b]
    BY <1>1
  <2>1. Invariant'
    BY InvariantStep
  <2>2. Listening(b) /\ Listening(b)'
    BY <1>2, <2>1 DEF QueuesListen, Among, Invariant, Shapes
  <2> QED
    BY <2>2, LoopSteps DEF Invariant
<1>7. /\ Invariant /\ L /\ <<Runs(b)>>_vars => ~L'
      /\ Invariant /\ P /\ <<Runs(b)>>_vars => ~P'
      /\ Invariant /\ H /\ <<Runs(b)>>_vars => ~H'
      /\ Invariant /\ A /\ <<Runs(b)>>_vars => ~A'
  BY RunsMoves DEF Invariant
<1>8. BrokerCanRun /\ (L \/ P \/ H \/ A) => ENABLED <<Runs(b)>>_vars
  BY DEF BrokerCanRun, CanRun, AtWork
<1>9. Spec /\ []BrokerCanRun /\ []CallerCanRun => (ReadsSomebody(b) ~> GoesOn(b))
  BY ReadingGoesOn
<1>10. Invariant /\ R => ReadsSomebody(b)
  BY DEF Invariant, Shapes, TypeOK, ReadsSomebody, Reads
<1>11. R /\ GoesOn(b) => Gone
  BY DEF GoesOn
<1>12. Spec /\ []BrokerCanRun /\ []CallerCanRun =>
         (Listening(b) /\ ~running[b] ~> Gone)
  BY BrokersStop DEF Stops
<1>13. Ends => ~running[b]
  OBVIOUS
<1>14. L \/ P \/ R \/ H \/ A => running[b] /\ Here
  OBVIOUS
<1>15. Fairness => BrokerIsScheduled(b)
  BY BrokerScheduled
<1>16. Among(c, b, n) => Here \/ Out
  OBVIOUS
<1>17. Ends => Here
  OBVIOUS
<1> HIDE DEF Here, Out, L, P, R, H, A, Ends, Gone
<1>18. Invariant /\ QueuesListen /\ Ends => Listening(b) /\ ~running[b] /\ ~Gone
  BY <1>2, <1>13, <1>17
<1>19. Spec /\ []BrokerCanRun /\ []CallerCanRun => (Ends ~> Out)
  BY <1>2, <1>6, <1>12, <1>17, <1>18, InvariantAlways, QueuesListenAlways, PTL DEF Spec
<1>20. /\ Invariant /\ QueuesListen /\ QueuesListen' /\ L /\ [Next]_vars =>
             L' \/ P' \/ Ends' \/ Out'
       /\ Invariant /\ QueuesListen /\ QueuesListen' /\ P /\ [Next]_vars =>
             P' \/ Ends' \/ Out'
       /\ Invariant /\ QueuesListen /\ QueuesListen' /\ R /\ [Next]_vars =>
             R' \/ L' \/ H' \/ Ends' \/ Out'
       /\ Invariant /\ QueuesListen /\ QueuesListen' /\ H /\ [Next]_vars =>
             H' \/ A' \/ Ends' \/ Out'
       /\ Invariant /\ QueuesListen /\ QueuesListen' /\ A /\ [Next]_vars =>
             A' \/ L' \/ Ends' \/ Out'
  BY <1>5, <1>14
<1>21. Invariant /\ QueuesListen /\ (L \/ P \/ R \/ H \/ A) => ~Gone
  BY <1>2, <1>14
<1>22. Spec /\ []BrokerCanRun /\ []CallerCanRun => (R ~> L \/ H \/ Ends \/ Out)
  BY <1>9, <1>10, <1>11, <1>20, <1>21, InvariantAlways, QueuesListenAlways, PTL DEF Spec
<1>23. Spec /\ []BrokerCanRun /\ []CallerCanRun => (P ~> Out)
  BY <1>7, <1>8, <1>15, <1>19, <1>20, InvariantAlways, QueuesListenAlways, PTL
     DEF Spec, BrokerIsScheduled
<1>24. Spec /\ []BrokerCanRun /\ []CallerCanRun => (L ~> Out)
  BY <1>7, <1>8, <1>15, <1>19, <1>20, <1>23, InvariantAlways, QueuesListenAlways, PTL
     DEF Spec, BrokerIsScheduled
<1>25. Spec /\ []BrokerCanRun /\ []CallerCanRun => (A ~> Out)
  BY <1>7, <1>8, <1>15, <1>19, <1>20, <1>24, InvariantAlways, QueuesListenAlways, PTL
     DEF Spec, BrokerIsScheduled
<1>26. Spec /\ []BrokerCanRun /\ []CallerCanRun => (H ~> Out)
  BY <1>7, <1>8, <1>15, <1>19, <1>20, <1>25, InvariantAlways, QueuesListenAlways, PTL
     DEF Spec, BrokerIsScheduled
<1>27. Spec /\ []BrokerCanRun /\ []CallerCanRun => (Among(c, b, n) ~> Out)
  BY <1>3, <1>16, <1>19, <1>22, <1>23, <1>24, <1>25, <1>26, InvariantAlways,
     QueuesListenAlways, PTL
<1> QED
  BY <1>27 DEF Passes, Out

LEMMA AdvancesByTwice ==
  ASSUME NEW b, NEW c, NEW k \in Nat, NEW l \in Nat, l = k + k, Advances(c, b, k)
  PROVE  Advances(c, b, l)
<1> SUFFICES ASSUME NEW n \in Nat, NEW m \in Nat, n = m + l
             PROVE  Passes(c, b, n, m)
  BY DEF Advances
<1> DEFINE i == m + k
<1>1. i \in Nat /\ n = i + k /\ i = m + k
  OBVIOUS
<1> HIDE DEF i
<1>2. Passes(c, b, n, i)
  BY <1>1 DEF Advances
<1>3. Passes(c, b, i, m)
  BY <1>1 DEF Advances
<1> QED
  BY <1>2, <1>3, PTL DEF Passes

LEMMA AdvancesFar ==
  ASSUME NEW b \in Brokers, NEW c \in Clients
  PROVE  Spec /\ []BrokerCanRun /\ []CallerCanRun => Advances(c, b, 256)
<1> SUFFICES ASSUME Spec /\ []BrokerCanRun /\ []CallerCanRun
             PROVE  Advances(c, b, 256)
  OBVIOUS
<1>1. Advances(c, b, 1)
  BY AdvancesByOne
<1>2. Advances(c, b, 2)
  BY <1>1, AdvancesByTwice
<1>4. Advances(c, b, 4)
  BY <1>2, AdvancesByTwice
<1>8. Advances(c, b, 8)
  BY <1>4, AdvancesByTwice
<1>16. Advances(c, b, 16)
  BY <1>8, AdvancesByTwice
<1>32. Advances(c, b, 32)
  BY <1>16, AdvancesByTwice
<1>64. Advances(c, b, 64)
  BY <1>32, AdvancesByTwice
<1>128. Advances(c, b, 128)
  BY <1>64, AdvancesByTwice
<1> QED
  BY <1>128, AdvancesByTwice

(* A call that a broker holds, waiting or served, is over in the end.      *)
Releases(b, c) == HeldBy(c, b) ~> Over(c)

LEMMA HeldIsOver ==
  ASSUME Backlog < 256, NEW b \in Brokers, NEW c \in Clients
  PROVE  Spec /\ []BrokerCanRun /\ []CallerCanRun => Releases(b, c)
<1> DEFINE Serves == serving[b] = c
           Free == ~Held(c)
<1>1. Spec /\ []BrokerCanRun /\ []CallerCanRun => Passes(c, b, 256, 0)
  <2>1. 0 \in Nat /\ 256 \in Nat /\ 256 = 0 + 256
    OBVIOUS
  <2> QED
    BY <2>1, AdvancesFar DEF Advances
<1>2. Spec /\ []BrokerCanRun /\ []CallerCanRun => (Serves ~> LetGo(c))
  BY ServedIsLetGo
<1>3. Spec /\ []CallerCanRun => (Free ~> Over(c))
  BY LetGoReturns
<1>4. Invariant /\ HeldBy(c, b) => Serves \/ Among(c, b, 256)
  BY BacklogAssumption DEF HeldBy, Among, Invariant, Shapes, TypeOK
<1>5. Invariant => ~Among(c, b, 0)
  BY DEF Among, Invariant, Shapes
<1>6. /\ Arrived(c, b) <=> Serves \/ LetGo(c)
      /\ LetGo(c) <=> Free \/ Over(c)
  BY DEF Arrived, LetGo
<1> HIDE DEF Serves, Free
<1> QED
  BY <1>1, <1>2, <1>3, <1>4, <1>5, <1>6, InvariantAlways, PTL DEF Passes, Releases

LEMMA WhoeverHolds ==
  ASSUME NEW c \in Clients,
         ASSUME NEW b \in Brokers PROVE HeldBy(c, b) ~> Over(c)
  PROVE  Held(c) ~> Over(c)
<1>1. Held(c) => <>Over(c)
  <2>1. ASSUME NEW b \in Brokers PROVE HeldBy(c, b) => <>Over(c)
    <3>1. HeldBy(c, b) ~> Over(c)
      OBVIOUS
    <3> QED
      BY <3>1, PTL
  <2> QED
    BY <2>1 DEF Held
<1> QED
  BY <1>1, PTL

(* A call returns, wherever it waits and whoever dies, unless a caller     *)
(* connects and says nothing.  The code listens with a backlog of 16.      *)
THEOREM CallsComeBack ==
  Backlog < 256 => (Spec /\ []BrokerCanRun /\ []CallerCanRun => CallsReturn)
<1> SUFFICES ASSUME Backlog < 256, NEW c \in Clients
             PROVE  Spec /\ []BrokerCanRun /\ []CallerCanRun =>
                      (Calling(c) ~> ~Calling(c) \/ hung # {})
  BY DEF CallsReturn
<1>1. Spec /\ []BrokerCanRun /\ []CallerCanRun => (Held(c) ~> Over(c))
  <2> SUFFICES ASSUME Spec /\ []BrokerCanRun /\ []CallerCanRun
               PROVE  Held(c) ~> Over(c)
    OBVIOUS
  <2>1. ASSUME NEW b \in Brokers PROVE HeldBy(c, b) ~> Over(c)
    <3>1. Releases(b, c)
      BY HeldIsOver
    <3> QED
      BY <3>1 DEF Releases
  <2> QED
    BY <2>1, WhoeverHolds
<1>2. Spec /\ []CallerCanRun => (~Held(c) ~> Over(c))
  BY LetGoReturns
<1>3. Over(c) <=> ~Calling(c) \/ hung # {}
  BY DEF Over
<1> QED
  BY <1>1, <1>2, <1>3, PTL
=============================================================================

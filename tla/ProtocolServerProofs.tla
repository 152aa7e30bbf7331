------------------------ MODULE ProtocolServerProofs ------------------------
(***************************************************************************)
(* Proofs about ProtocolServer, for any number of requests, kinds and      *)
(* connector directories: that a request is answered once and its status   *)
(* tells what was done for it, and that the answers about the catalog      *)
(* agree.                                                                  *)
(***************************************************************************)
EXTENDS ProtocolServer, WellFoundedInduction, TLAPS

-----------------------------------------------------------------------------
(* How far the requests are.                                               *)

(* A record with the fields of a request.                                  *)
IsRequest(s) ==
  s = [kind |-> s.kind, phase |-> s.phase, todo |-> s.todo,
       found |-> s.found, listed |-> s.listed]

Locals ==
  /\ request = [r \in Requests |-> request[r]]
  /\ \A r \in Requests : IsRequest(request[r])
  /\ answers = [r \in Requests |-> answers[r]]

(* Request r becomes s, and no other request changes.                      *)
Moves(r, s) ==
  /\ request' = [q \in Requests |-> request'[q]]
  /\ request'[r] = s
  /\ IsRequest(s)
  /\ \A q \in Requests \ {r} : request'[q] = request[q]

LEMMA OneMoves ==
  ASSUME Locals, NEW r \in Requests, NEW s, IsRequest(s),
         request' = [request EXCEPT ![r] = s]
  PROVE  Moves(r, s)
  BY DEF Locals, Moves

SameCatalog(s, t) == s.todo = t.todo /\ s.found = t.found /\ s.listed = t.listed

LEMMA SetKind ==
  ASSUME NEW s, IsRequest(s), NEW x
  PROVE  LET t == [s EXCEPT !.kind = x]
         IN  IsRequest(t) /\ t.kind = x /\ t.phase = s.phase /\ SameCatalog(t, s)
  BY DEF IsRequest, SameCatalog

LEMMA SetPhase ==
  ASSUME NEW s, IsRequest(s), NEW x
  PROVE  LET t == [s EXCEPT !.phase = x]
         IN  IsRequest(t) /\ t.kind = s.kind /\ t.phase = x /\ SameCatalog(t, s)
  BY DEF IsRequest, SameCatalog

LEMMA SetTodo ==
  ASSUME NEW s, IsRequest(s), NEW x
  PROVE  LET t == [s EXCEPT !.todo = x]
         IN  /\ IsRequest(t) /\ t.kind = s.kind /\ t.phase = s.phase
             /\ t.todo = x /\ t.found = s.found /\ t.listed = s.listed
  BY DEF IsRequest

LEMMA SetFound ==
  ASSUME NEW s, IsRequest(s), NEW x
  PROVE  LET t == [s EXCEPT !.found = x]
         IN  /\ IsRequest(t) /\ t.kind = s.kind /\ t.phase = s.phase
             /\ t.todo = s.todo /\ t.found = x /\ t.listed = s.listed
  BY DEF IsRequest

LEMMA SetListed ==
  ASSUME NEW s, IsRequest(s), NEW x
  PROVE  LET t == [s EXCEPT !.listed = x]
         IN  /\ IsRequest(t) /\ t.kind = s.kind /\ t.phase = s.phase
             /\ t.todo = s.todo /\ t.found = s.found /\ t.listed = x
  BY DEF IsRequest

LEMMA StayMoves ==
  ASSUME Locals, NEW r \in Requests, request' = request
  PROVE  Moves(r, request[r])
  BY DEF Locals, Moves

LEMMA GotoMoves ==
  ASSUME Locals, NEW r \in Requests, NEW phase, Goto(r, phase)
  PROVE  \E s : /\ Moves(r, s)
                /\ s.kind = request[r].kind /\ s.phase = phase
                /\ SameCatalog(s, request[r])
<1> DEFINE s == [request[r] EXCEPT !.phase = phase]
<1>1. request' = [request EXCEPT ![r] = s]
  BY DEF Goto
<1>2. IsRequest(request[r])
  BY DEF Locals
<1> HIDE DEF s
<1>3. /\ IsRequest(s) /\ s.kind = request[r].kind /\ s.phase = phase
      /\ SameCatalog(s, request[r])
  BY <1>2, SetPhase DEF s
<1> QED
  BY <1>1, <1>3, OneMoves

Arrives(r, k, phase) ==
  request' = [request EXCEPT ![r].kind = k, ![r].phase = phase]

LEMMA ArriveMoves ==
  ASSUME Locals, NEW r \in Requests, NEW k, NEW phase, Arrives(r, k, phase)
  PROVE  \E s : /\ Moves(r, s) /\ s.kind = k /\ s.phase = phase
                /\ SameCatalog(s, request[r])
<1> DEFINE t == [request[r] EXCEPT !.kind = k]
           s == [t EXCEPT !.phase = phase]
<1>1. request' = [request EXCEPT ![r] = s]
  BY DEF Locals, Arrives
<1>2. IsRequest(request[r])
  BY DEF Locals
<1> HIDE DEF t, s
<1>3. IsRequest(t) /\ t.kind = k /\ SameCatalog(t, request[r])
  BY <1>2, SetKind DEF t
<1>4. IsRequest(s) /\ s.kind = t.kind /\ s.phase = phase /\ SameCatalog(s, t)
  BY <1>3, SetPhase DEF s
<1> QED
  BY <1>1, <1>3, <1>4, OneMoves DEF SameCatalog

LEMMA EndMoves ==
  ASSUME Locals, NEW r \in Requests, NEW status, End(r, status)
  PROVE  \E s : /\ Moves(r, s)
                /\ s.kind = request[r].kind /\ s.phase = "ended"
                /\ s.found = NoRecords /\ s.listed = Nothing
<1> DEFINE none == NoRecords
           t == [request[r] EXCEPT !.phase = "ended"]
           u == [t EXCEPT !.found = none]
           v == [u EXCEPT !.listed = Nothing]
           s == [v EXCEPT !.todo = <<>>]
<1>1. request' = [request EXCEPT ![r].phase = "ended", ![r].found = none,
                                 ![r].listed = Nothing, ![r].todo = <<>>]
  BY DEF End
<1> HIDE DEF none
<1>2. request' = [request EXCEPT ![r] = s]
  BY <1>1 DEF Locals
<1>3. IsRequest(request[r])
  BY DEF Locals
<1> HIDE DEF t, u, v, s
<1>4. IsRequest(t) /\ t.kind = request[r].kind /\ t.phase = "ended"
  BY <1>3, SetPhase DEF t
<1>5. IsRequest(u) /\ u.kind = t.kind /\ u.phase = t.phase /\ u.found = none
  BY <1>4, SetFound DEF u
<1>6. /\ IsRequest(v) /\ v.kind = u.kind /\ v.phase = u.phase
      /\ v.found = u.found /\ v.listed = Nothing
  BY <1>5, SetListed DEF v
<1>7. /\ IsRequest(s) /\ s.kind = v.kind /\ s.phase = v.phase
      /\ s.found = v.found /\ s.listed = v.listed
  BY <1>6, SetTodo DEF s
<1> QED
  BY <1>2, <1>4, <1>5, <1>6, <1>7, OneMoves DEF none

Asks(r, todo) ==
  request' = [request EXCEPT ![r].phase = "reading", ![r].todo = todo]

LEMMA AskMoves ==
  ASSUME Locals, NEW r \in Requests, NEW todo, Asks(r, todo)
  PROVE  \E s : /\ Moves(r, s)
                /\ s.kind = request[r].kind /\ s.phase = "reading"
                /\ s.todo = todo
                /\ s.found = request[r].found /\ s.listed = request[r].listed
<1> DEFINE t == [request[r] EXCEPT !.phase = "reading"]
           s == [t EXCEPT !.todo = todo]
<1>1. request' = [request EXCEPT ![r] = s]
  BY DEF Locals, Asks
<1>2. IsRequest(request[r])
  BY DEF Locals
<1> HIDE DEF t, s
<1>3. /\ IsRequest(t) /\ t.kind = request[r].kind /\ t.phase = "reading"
      /\ SameCatalog(t, request[r])
  BY <1>2, SetPhase DEF t
<1>4. /\ IsRequest(s) /\ s.kind = t.kind /\ s.phase = t.phase
      /\ s.todo = todo /\ s.found = t.found /\ s.listed = t.listed
  BY <1>3, SetTodo DEF s
<1> QED
  BY <1>1, <1>3, <1>4, OneMoves DEF SameCatalog

Finds(r, todo, found) ==
  request' = [request EXCEPT ![r].todo = todo, ![r].found = found]

LEMMA LoadMoves ==
  ASSUME Locals, NEW r \in Requests, NEW todo, NEW found, Finds(r, todo, found)
  PROVE  \E s : /\ Moves(r, s)
                /\ s.kind = request[r].kind /\ s.phase = request[r].phase
                /\ s.todo = todo /\ s.found = found
                /\ s.listed = request[r].listed
<1> DEFINE t == [request[r] EXCEPT !.todo = todo]
           s == [t EXCEPT !.found = found]
<1>1. request' = [request EXCEPT ![r] = s]
  BY DEF Locals, Finds
<1>2. IsRequest(request[r])
  BY DEF Locals
<1> HIDE DEF t, s
<1>3. /\ IsRequest(t) /\ t.kind = request[r].kind
      /\ t.phase = request[r].phase /\ t.todo = todo
      /\ t.listed = request[r].listed
  BY <1>2, SetTodo DEF t
<1>4. /\ IsRequest(s) /\ s.kind = t.kind /\ s.phase = t.phase
      /\ s.todo = t.todo /\ s.found = found /\ s.listed = t.listed
  BY <1>3, SetFound DEF s
<1> QED
  BY <1>1, <1>3, <1>4, OneMoves

Lists(r, listed, found, todo) ==
  request' = [request EXCEPT ![r].listed = listed, ![r].found = found,
                             ![r].todo = todo]

LEMMA ListMoves ==
  ASSUME Locals, NEW r \in Requests, NEW listed, NEW found, NEW todo,
         Lists(r, listed, found, todo)
  PROVE  \E s : /\ Moves(r, s)
                /\ s.kind = request[r].kind /\ s.phase = request[r].phase
                /\ s.todo = todo /\ s.found = found /\ s.listed = listed
<1> DEFINE t == [request[r] EXCEPT !.listed = listed]
           u == [t EXCEPT !.found = found]
           s == [u EXCEPT !.todo = todo]
<1>1. request' = [request EXCEPT ![r] = s]
  BY DEF Locals, Lists
<1>2. IsRequest(request[r])
  BY DEF Locals
<1> HIDE DEF t, u, s
<1>3. /\ IsRequest(t) /\ t.kind = request[r].kind
      /\ t.phase = request[r].phase /\ t.listed = listed
  BY <1>2, SetListed DEF t
<1>4. /\ IsRequest(u) /\ u.kind = t.kind /\ u.phase = t.phase
      /\ u.found = found /\ u.listed = t.listed
  BY <1>3, SetFound DEF u
<1>5. /\ IsRequest(s) /\ s.kind = u.kind /\ s.phase = u.phase
      /\ s.todo = todo /\ s.found = u.found /\ s.listed = u.listed
  BY <1>4, SetTodo DEF s
<1> QED
  BY <1>1, <1>3, <1>4, <1>5, OneMoves

(* No answer but that of request r changes.                                *)
OnlyAnswers(r) ==
  /\ answers' = [q \in Requests |-> answers'[q]]
  /\ \A q \in Requests \ {r} : answers'[q] = answers[q]

LEMMA MovesKeepLocals ==
  ASSUME Locals, NEW r \in Requests, NEW s, Moves(r, s), OnlyAnswers(r)
  PROVE  Locals'
<1>1. \A q \in Requests : IsRequest(request'[q])
  BY DEF Locals, Moves
<1>2. \A q \in Requests : IsRequest(request[q])'
  BY <1>1 DEF IsRequest
<1> QED
  BY <1>2 DEF Locals, Moves, OnlyAnswers

LEMMA SentOnce ==
  ASSUME Locals, NEW r \in Requests, NEW status, Sent(r, status)
  PROVE  /\ OnlyAnswers(r)
         /\ answers'[r] = IF answers[r] = <<>> THEN <<status>> ELSE answers[r]
  BY DEF Locals, Sent, OnlyAnswers

Answered(r, a) == answers' = [answers EXCEPT ![r] = a]

LEMMA AnswerSet ==
  ASSUME Locals, NEW r \in Requests, NEW a, Answered(r, a)
  PROVE  OnlyAnswers(r) /\ answers'[r] = a
  BY DEF Locals, OnlyAnswers, Answered

LEMMA AnswersStay ==
  ASSUME Locals, NEW r \in Requests, answers' = answers
  PROVE  OnlyAnswers(r) /\ answers'[r] = answers[r]
  BY DEF Locals, OnlyAnswers

-----------------------------------------------------------------------------
(***************************************************************************)
(* What an answer tells.  The application works for a request only after   *)
(* its body was read and it was authorized, and what it or a port answers  *)
(* then is no refusal of the server's own; a request refused so has ended  *)
(* and is not worked for again.  A 200 comes after the work.               *)
(***************************************************************************)
BodyRight(k) == k.body \notin {"malformed", "too large", "not json type"}

Rest(s) == s.kind.surface = "rest"

Refuses(status) == status \in (400..499) \ PortStatuses

IsRefusal(a) == \E i \in DOMAIN a : Refuses(a[i])

IsSuccess(a) == \E i \in DOMAIN a : a[i] = 200

OutcomeRight(r, s, a, worked, loop) ==
  /\ a = <<>> \/ \E status : a = <<status>>
  /\ IsRefusal(a) => s.phase = "ended" /\ r \notin worked
  /\ IsSuccess(a) /\ NeedsWork(s.kind) => r \in worked
  /\ s.phase = "new" => a = <<>>
  /\ s.phase \in {"new", "body", "authenticating", "dispatch"} => r \notin worked
  /\ s.phase \in {"provider", "reading"} => r \in worked
  /\ s.phase # "new" => s.kind \in Kinds
  /\ s.phase \in {"dispatch", "reading"} <=> loop = r
  /\ s.phase = "body" => Rest(s) /\ s.kind.body # "not json type"
  /\ s.phase = "authenticating" => Rest(s) /\ BodyRight(s.kind)
  /\ Rest(s) /\ (s.phase = "dispatch" \/ r \in worked) =>
       s.kind.allowed /\ BodyRight(s.kind)
  /\ Rest(s) /\ r \in worked /\ s.kind.route = "inspect" => s.kind.rootAllowed

OutcomeInv ==
  /\ Locals
  /\ \A r \in Requests :
       OutcomeRight(r, request[r], answers[r], called, busy)

LEMMA OutcomeMove ==
  ASSUME OutcomeInv, NEW r \in Requests, NEW s, Moves(r, s), OnlyAnswers(r),
         called' \ {r} = called \ {r},
         busy \in {r, Nothing}, busy' \in {r, Nothing},
         OutcomeRight(r, s, answers'[r], called', busy')
  PROVE  OutcomeInv'
<1>1. ASSUME NEW q \in Requests
      PROVE  OutcomeRight(q, request'[q], answers'[q], called', busy')
  <2>1. CASE q = r
    BY <2>1 DEF Moves
  <2>2. CASE q # r
    <3>1. request'[q] = request[q] /\ answers'[q] = answers[q]
      BY <2>2 DEF Moves, OnlyAnswers
    <3>2. q \in called' <=> q \in called
      BY <2>2
    <3>3. busy' = q <=> busy = q
      BY <2>2, ProtocolServerAssumption
    <3>4. OutcomeRight(q, request[q], answers[q], called, busy)
      BY DEF OutcomeInv
    <3> QED
      BY <3>1, <3>2, <3>3, <3>4 DEF OutcomeRight
  <2> QED
    BY <2>1, <2>2
<1>2. \A q \in Requests :
        OutcomeRight(q, request[q], answers[q], called, busy)'
  BY <1>1 DEF OutcomeRight, IsRefusal, Refuses, IsSuccess, NeedsWork, Rest
<1>3. Locals'
  BY MovesKeepLocals DEF OutcomeInv
<1> QED
  BY <1>2, <1>3 DEF OutcomeInv

LEMMA RefusalOf ==
  ASSUME NEW status
  PROVE  /\ IsRefusal(<<status>>) => Refuses(status)
         /\ IsSuccess(<<status>>) => status = 200
<1>1. DOMAIN <<status>> = {1} /\ <<status>>[1] = status
  OBVIOUS
<1> QED
  BY <1>1 DEF IsRefusal, IsSuccess

LEMMA NoRefusal == ~IsRefusal(<<>>) /\ ~IsSuccess(<<>>)
<1>1. DOMAIN <<>> = {}
  OBVIOUS
<1> QED
  BY <1>1 DEF IsRefusal, IsSuccess

(* What a port throws is no success, and no refusal of the server's own.   *)
LEMMA NoSuccess ==
  ASSUME NEW status \in PortFailures
  PROVE  status # 200
BY ProtocolServerAssumption DEF PortFailures

LEMMA NoneRefuses ==
  ASSUME NEW status \in {200} \cup PortFailures
  PROVE  ~Refuses(status)
BY DEF PortFailures, Refuses

(* The end of a request.                                                   *)
LEMMA OutcomeEnds ==
  ASSUME OutcomeInv, NEW r \in Requests, NEW status, End(r, status),
         request[r].phase \notin {"new", "ended"},
         busy \in {r, Nothing},
         called' \in {called, called \cup {r}},
         Refuses(status) => r \notin called',
         status = 200 /\ NeedsWork(Kind(r)) => r \in called',
         r \in called' /\ Rest(request[r]) =>
           /\ Kind(r).allowed /\ BodyRight(Kind(r))
           /\ Kind(r).route = "inspect" => Kind(r).rootAllowed
  PROVE  OutcomeInv'
<1>1. Locals
  BY DEF OutcomeInv
<1>2. PICK s : /\ Moves(r, s)
               /\ s.kind = request[r].kind /\ s.phase = "ended"
  BY <1>1, EndMoves
<1>3. /\ OnlyAnswers(r)
      /\ answers'[r] = IF answers[r] = <<>> THEN <<status>> ELSE answers[r]
  BY <1>1, SentOnce DEF End
<1>4. busy' = Nothing /\ called' \ {r} = called \ {r}
  BY DEF End
<1>5. OutcomeRight(r, request[r], answers[r], called, busy)
  BY DEF OutcomeInv
<1>6. /\ IsRefusal(answers'[r]) => r \notin called'
      /\ IsSuccess(answers'[r]) /\ NeedsWork(Kind(r)) => r \in called'
  <2>1. /\ ~IsRefusal(answers[r])
        /\ IsSuccess(answers[r]) /\ NeedsWork(Kind(r)) => r \in called'
    BY <1>5 DEF OutcomeRight, Kind
  <2>2. CASE answers[r] = <<>>
    <3>1. answers'[r] = <<status>>
      BY <1>3, <2>2
    <3> QED
      BY <3>1, RefusalOf
  <2>3. CASE answers[r] # <<>>
    BY <1>3, <2>1, <2>3
  <2> QED
    BY <2>2, <2>3
<1>7. answers'[r] = <<>> \/ \E t : answers'[r] = <<t>>
  BY <1>3, <1>5 DEF OutcomeRight
<1>8. OutcomeRight(r, s, answers'[r], called', busy')
  <2>1. s.kind \in Kinds
    BY <1>2, <1>5 DEF OutcomeRight
  <2>2. busy' # r
    BY <1>4, ProtocolServerAssumption
  <2>3. r \in called' /\ Rest(s) =>
          /\ s.kind.allowed /\ BodyRight(s.kind)
          /\ s.kind.route = "inspect" => s.kind.rootAllowed
    BY <1>2 DEF Rest, Kind
  <2>4. s.phase = "ended" /\ s.kind = Kind(r)
    BY <1>2 DEF Kind
  <2>5. /\ IsRefusal(answers'[r]) => s.phase = "ended" /\ r \notin called'
        /\ IsSuccess(answers'[r]) /\ NeedsWork(s.kind) => r \in called'
    BY <1>6, <2>4
  <2> QED
    BY <1>7, <2>1, <2>2, <2>3, <2>4, <2>5 DEF OutcomeRight
<1> QED
  BY <1>2, <1>3, <1>4, <1>8, OutcomeMove

(* A request that goes on, its answer as it was.                           *)
LEMMA OutcomeGoes ==
  ASSUME OutcomeInv, NEW r \in Requests, NEW s, Moves(r, s),
         answers' = answers, request[r].phase \notin {"new", "ended"},
         s.phase # "new", s.kind = request[r].kind,
         busy \in {r, Nothing}, busy' \in {r, Nothing},
         called' \in {called, called \cup {r}},
         s.phase \in {"body", "authenticating", "dispatch"} => r \notin called',
         s.phase \in {"provider", "reading"} => r \in called',
         s.phase \in {"dispatch", "reading"} <=> busy' = r,
         s.phase # "body",
         s.phase = "authenticating" => Rest(s) /\ BodyRight(s.kind),
         Rest(s) /\ (s.phase = "dispatch" \/ r \in called') =>
           s.kind.allowed /\ BodyRight(s.kind),
         Rest(s) /\ r \in called' /\ s.kind.route = "inspect" =>
           s.kind.rootAllowed
  PROVE  OutcomeInv'
<1>1. OnlyAnswers(r) /\ answers'[r] = answers[r]
  BY AnswersStay DEF OutcomeInv
<1>2. OutcomeRight(r, request[r], answers[r], called, busy)
  BY DEF OutcomeInv
<1>3. OutcomeRight(r, s, answers'[r], called', busy')
  BY <1>1, <1>2 DEF OutcomeRight
<1>4. called' \ {r} = called \ {r}
  OBVIOUS
<1> QED
  BY <1>1, <1>3, <1>4, OutcomeMove

LEMMA OutcomeArrives ==
  ASSUME OutcomeInv, NEW r \in Requests, NEW k \in Kinds,
         ArriveRest(r, k) \/ ArriveMcp(r, k)
  PROVE  OutcomeInv'
<1>0. Locals /\ OutcomeRight(r, request[r], answers[r], called, busy)
  BY DEF OutcomeInv
<1>1. /\ request[r].phase = "new" /\ busy = Nothing /\ called' = called
      /\ r \notin called
  BY <1>0 DEF ArriveRest, ArriveMcp, At, Idle, OutcomeRight
<1>2. ASSUME NEW status \in {400, 404, 415}, Arrives(r, k, "ended"),
             Answered(r, <<status>>), busy' = busy
      PROVE  OutcomeInv'
  <2>1. PICK s : Moves(r, s) /\ s.kind = k /\ s.phase = "ended"
    BY <1>0, <1>2, ArriveMoves
  <2>2. OnlyAnswers(r) /\ answers'[r] = <<status>>
    BY <1>0, <1>2, AnswerSet
  <2>3. ~IsSuccess(answers'[r])
    BY <1>2, <2>2, RefusalOf
  <2>4. OutcomeRight(r, s, answers'[r], called', busy')
    BY <1>1, <1>2, <2>1, <2>2, <2>3, ProtocolServerAssumption DEF OutcomeRight
  <2> QED
    BY <1>1, <1>2, <2>1, <2>2, <2>4, OutcomeMove
<1>3. ASSUME NEW phase \in {"body", "authenticating", "dispatch"},
             Arrives(r, k, phase), answers' = answers,
             busy' = IF phase = "dispatch" THEN r ELSE Nothing,
             phase # "dispatch" => k.surface = "rest",
             phase = "dispatch" => k.surface # "rest",
             phase = "body" => k.body # "not json type",
             phase = "authenticating" => BodyRight(k)
      PROVE  OutcomeInv'
  <2>1. PICK s : Moves(r, s) /\ s.kind = k /\ s.phase = phase
    <3>1. Arrives(r, k, phase)
      BY <1>3
    <3> QED
      BY <1>0, <3>1, ArriveMoves
  <2>2. OnlyAnswers(r) /\ answers'[r] = answers[r]
    BY <1>0, <1>3, AnswersStay
  <2>3. answers'[r] = <<>> /\ ~IsRefusal(<<>>) /\ ~IsSuccess(<<>>)
    BY <1>0, <1>1, <2>2, NoRefusal DEF OutcomeRight
  <2>4. OutcomeRight(r, s, answers'[r], called', busy')
    BY <1>0, <1>1, <1>3, <2>1, <2>2, <2>3, ProtocolServerAssumption
       DEF OutcomeRight, Rest
  <2> QED
    BY <1>1, <1>3, <2>1, <2>2, <2>4, OutcomeMove
<1>4. CASE ArriveRest(r, k)
  <2>1. k.surface = "rest" /\ busy' = busy
    BY <1>4 DEF ArriveRest
  <2>2. CASE Arrives(r, k, "ended") /\ Answered(r, <<404>>)
    BY <1>2, <2>1, <2>2
  <2>3. CASE Arrives(r, k, "ended") /\ Answered(r, <<415>>)
    BY <1>2, <2>1, <2>3
  <2>4. CASE /\ k.method = "POST" => k.body # "not json type"
             /\ Arrives(r, k, IF k.method = "POST" THEN "body" ELSE "authenticating")
             /\ answers' = answers
    <3>1. CASE k.method = "POST"
      <4>1. Arrives(r, k, "body")
        BY <2>4, <3>1
      <4> QED
        BY <1>1, <1>3, <2>1, <2>4, <3>1, <4>1
    <3>2. CASE k.method # "POST"
      <4>1. Arrives(r, k, "authenticating")
        BY <2>4, <3>2
      <4>2. BodyRight(k)
        BY <2>1, <3>2, ProtocolServerAssumption DEF BodyRight
      <4> QED
        BY <1>1, <1>3, <2>1, <2>4, <4>1, <4>2
    <3> QED
      BY <3>1, <3>2
  <2> QED
    BY <1>4, <2>2, <2>3, <2>4 DEF ArriveRest, Arrives, Answered
<1>5. CASE ArriveMcp(r, k)
  <2>1. k.surface = "mcp"
    BY <1>5 DEF ArriveMcp
  <2>2. CASE /\ Arrives(r, k, "ended") /\ busy' = busy
             /\ Answered(r, <<400>>)
    BY <1>2, <2>2
  <2>3. CASE Arrives(r, k, "dispatch") /\ busy' = r /\ answers' = answers
    BY <1>3, <2>1, <2>3
  <2> QED
    BY <1>5, <2>2, <2>3 DEF ArriveMcp, Arrives, Answered
<1> QED
  BY <1>4, <1>5

LEMMA OutcomeWaits ==
  ASSUME OutcomeInv, NEW r \in Requests,
         \/ BodyRead(r) \/ BodyAborted(r) \/ Authorize(r)
         \/ AuthenticatorFails(r) \/ Timeout(r) \/ ProviderSettles(r)
  PROVE  OutcomeInv'
<1>0. Locals /\ OutcomeRight(r, request[r], answers[r], called, busy)
  BY DEF OutcomeInv
<1>1. busy = Nothing /\ called' = called
  BY DEF BodyRead, BodyAborted, Authorize, AuthenticatorFails, Timeout,
         ProviderSettles, Idle
<1>2. ASSUME NEW status, End(r, status),
             request[r].phase \in {"body", "authenticating", "provider"},
             request[r].phase = "provider" => ~Refuses(status),
             request[r].phase # "provider" => status # 200
      PROVE  OutcomeInv'
  <2>1. request[r].phase # "provider" => r \notin called
    BY <1>0, <1>2 DEF OutcomeRight
  <2>2. /\ Refuses(status) => r \notin called
        /\ status = 200 => r \in called
        /\ r \in called /\ Rest(request[r]) =>
             /\ Kind(r).allowed /\ BodyRight(Kind(r))
             /\ Kind(r).route = "inspect" => Kind(r).rootAllowed
    BY <1>0, <1>2, <2>1 DEF OutcomeRight, Rest, Kind
  <2> QED
    BY <1>1, <1>2, <2>2, OutcomeEnds
<1>3. CASE BodyRead(r)
  <2>1. request[r].phase = "body"
    BY <1>3 DEF BodyRead, At
  <2>2. CASE \E status \in {400, 413} : End(r, status)
    BY <1>2, <2>1, <2>2
  <2>3. CASE /\ Kind(r).body \notin {"too large", "malformed"}
             /\ Goto(r, "authenticating") /\ UNCHANGED <<busy, answers>>
    <3>1. PICK s : /\ Moves(r, s) /\ s.kind = request[r].kind
                   /\ s.phase = "authenticating"
      <4>1. Locals /\ Goto(r, "authenticating")
        BY <1>0, <2>3
      <4> QED
        BY <4>1, GotoMoves
    <3>2. Rest(s) /\ BodyRight(s.kind) /\ r \notin called
      <4>1. /\ Rest(request[r]) /\ request[r].kind.body # "not json type"
            /\ r \notin called
        BY <1>0, <2>1 DEF OutcomeRight
      <4> QED
        BY <2>3, <3>1, <4>1 DEF Rest, BodyRight, Kind
    <3>3. r \notin called' /\ busy' = Nothing
      BY <1>1, <2>3, <3>2
    <3> QED
      BY <1>1, <2>1, <2>3, <3>1, <3>2, <3>3, OutcomeGoes, ProtocolServerAssumption
  <2>4. \/ End(r, 413) \/ End(r, 400)
        \/ /\ Kind(r).body \notin {"too large", "malformed"}
           /\ Goto(r, "authenticating") /\ UNCHANGED <<busy, answers>>
    BY <1>3 DEF BodyRead
  <2>5. CASE End(r, 413)
    BY <2>2, <2>5
  <2>6. CASE End(r, 400)
    BY <2>2, <2>6
  <2> QED
    BY <2>3, <2>4, <2>5, <2>6
<1>4. CASE BodyAborted(r)
  BY <1>2, <1>4 DEF BodyAborted, At
<1>5. CASE Authorize(r)
  <2>1. request[r].phase = "authenticating"
    BY <1>5 DEF Authorize, At
  <2>2. CASE End(r, 403)
    BY <1>2, <2>1, <2>2
  <2>3. CASE /\ Kind(r).allowed
             /\ Goto(r, "dispatch") /\ busy' = r /\ answers' = answers
    <3>1. PICK s : /\ Moves(r, s) /\ s.kind = request[r].kind
                   /\ s.phase = "dispatch"
      <4>1. Locals /\ Goto(r, "dispatch")
        BY <1>0, <2>3
      <4> QED
        BY <4>1, GotoMoves
    <3>2. BodyRight(s.kind) /\ r \notin called /\ s.kind.allowed
      BY <1>0, <2>1, <2>3, <3>1 DEF OutcomeRight, Rest, Kind
    <3> QED
      BY <1>1, <2>1, <2>3, <3>1, <3>2, OutcomeGoes
  <2> QED
    BY <1>5, <2>2, <2>3 DEF Authorize
<1>6. CASE AuthenticatorFails(r)
  <2>1. PICK status \in PortFailures : End(r, status)
    BY <1>6 DEF AuthenticatorFails
  <2>2. status # 200
    BY <2>1, NoSuccess
  <2> QED
    BY <1>2, <1>6, <2>1, <2>2 DEF AuthenticatorFails, At
<1>7. CASE ProviderSettles(r)
  <2>1. PICK status \in {200} \cup PortFailures : End(r, status)
    BY <1>7 DEF ProviderSettles
  <2>2. ~Refuses(status)
    BY <2>1, NoneRefuses
  <2> QED
    BY <1>2, <1>7, <2>1, <2>2 DEF ProviderSettles, At
<1>8. CASE Timeout(r)
  <2>1. /\ Moves(r, request[r])
        /\ request[r].phase \notin {"new", "ended"}
        /\ busy' = busy
    BY <1>0, <1>8, StayMoves DEF Timeout
  <2>2. OnlyAnswers(r) /\ answers'[r] = <<504>>
    <3>1. Answered(r, <<504>>)
      BY <1>8 DEF Timeout, Answered
    <3> QED
      BY <1>0, <3>1, AnswerSet
  <2>3. ~IsRefusal(answers'[r]) /\ ~IsSuccess(answers'[r])
    BY <2>2, RefusalOf DEF Refuses
  <2>4. OutcomeRight(r, request[r], answers'[r], called', busy')
    <3>1. OutcomeRight(r, request[r], answers[r], called, busy)
      BY <1>0
    <3>2. \E status : answers'[r] = <<status>>
      BY <2>2
    <3>3. called' = called /\ busy' = busy
      BY <1>1, <2>1
    <3> QED
      BY <2>1, <2>3, <3>1, <3>2, <3>3 DEF OutcomeRight
  <2> QED
    BY <1>1, <2>1, <2>2, <2>4, OutcomeMove
<1> QED
  BY <1>3, <1>4, <1>5, <1>6, <1>7, <1>8

(* A request that has the event loop.                                      *)
LEMMA OutcomeRuns ==
  ASSUME OutcomeInv, NEW r \in Requests, Runs(r)
  PROVE  OutcomeInv'
<1>0. Locals /\ OutcomeRight(r, request[r], answers[r], called, busy)
  BY DEF OutcomeInv
<1>1. request[r].phase \in {"dispatch", "reading"} /\ busy = r
  <2>1. request[r].phase \in {"dispatch", "reading"}
    BY DEF Runs, DispatchAtOnce, DispatchInspect, DispatchProvider,
           DispatchCatalog, LoadNext, RefuseDuplicates, ListAgain, ReturnList,
           ReturnConnector, ReturnHealth, HasRead, At
  <2> QED
    BY <1>0, <2>1 DEF OutcomeRight
<1>2. ASSUME NEW status, End(r, status),
             called' \in {called, called \cup {r}},
             Refuses(status) =>
               called' = called /\ request[r].phase = "dispatch",
             status = 200 /\ NeedsWork(Kind(r)) => r \in called',
             Rest(request[r]) /\ Kind(r).route = "inspect" /\ r \notin called
               => Kind(r).rootAllowed \/ called' = called
      PROVE  OutcomeInv'
  <2>1. Refuses(status) => r \notin called'
    BY <1>0, <1>2 DEF OutcomeRight
  <2>2. r \in called' /\ Rest(request[r]) =>
          /\ Kind(r).allowed /\ BodyRight(Kind(r))
          /\ Kind(r).route = "inspect" => Kind(r).rootAllowed
    BY <1>0, <1>1, <1>2 DEF OutcomeRight, Rest, Kind
  <2> QED
    BY <1>1, <1>2, <2>1, <2>2, OutcomeEnds
<1>3. CASE DispatchAtOnce(r)
  <2>1. PICK status : /\ End(r, status)
                      /\ status = 200 => ~NeedsWork(Kind(r))
    BY <1>3 DEF DispatchAtOnce, NeedsWork, FixedRoutes, CatalogRoutes,
                ProviderRoutes
  <2>2. request[r].phase = "dispatch" /\ called' = called
    BY <1>3 DEF DispatchAtOnce, At
  <2> QED
    BY <1>2, <2>1, <2>2
<1>4. CASE DispatchInspect(r)
  <2>1. request[r].phase = "dispatch" /\ Kind(r).route = "inspect"
    BY <1>4 DEF DispatchInspect, At
  <2>2. CASE (End(r, 400) \/ End(r, 403)) /\ called' = called
    BY <1>2, <2>1, <2>2
  <2>3. CASE /\ Kind(r).surface = "rest" => Kind(r).rootAllowed
             /\ called' = called \cup {r}
             /\ \E status \in {200} \cup PortFailures : End(r, status)
    <3>1. PICK status \in {200} \cup PortFailures : End(r, status)
      BY <2>3
    <3>2. ~Refuses(status)
      BY <3>1, NoneRefuses
    <3>3. Rest(request[r]) => Kind(r).rootAllowed
      BY <2>3 DEF Rest, Kind
    <3> QED
      BY <1>2, <2>3, <3>1, <3>2, <3>3
  <2> QED
    BY <1>4, <2>2, <2>3 DEF DispatchInspect
<1>5. CASE DispatchProvider(r)
  <2>1. /\ request[r].phase = "dispatch" /\ Kind(r).route # "inspect"
        /\ called' = called \cup {r} /\ Goto(r, "provider")
        /\ busy' = Nothing /\ answers' = answers
    BY <1>5 DEF DispatchProvider, At, ProviderRoutes
  <2>2. PICK s : /\ Moves(r, s) /\ s.kind = request[r].kind
                 /\ s.phase = "provider"
    BY <1>0, <2>1, GotoMoves
  <2>3. Rest(s) => s.kind.allowed /\ BodyRight(s.kind)
    BY <1>0, <2>1, <2>2 DEF OutcomeRight, Rest
  <2>4. s.kind.route # "inspect"
    BY <2>1, <2>2 DEF Kind
  <2> QED
    BY <1>1, <2>1, <2>2, <2>3, <2>4, OutcomeGoes, ProtocolServerAssumption
<1>6. CASE DispatchCatalog(r)
  <2> DEFINE todo == Asked(Kind(r))
  <2>1. /\ request[r].phase = "dispatch" /\ Kind(r).route # "inspect"
        /\ called' = called \cup {r} /\ busy' = busy /\ answers' = answers
        /\ Asks(r, todo)
    BY <1>6 DEF DispatchCatalog, At, CatalogRoutes, Asks
  <2> HIDE DEF todo
  <2>2. PICK s : /\ Moves(r, s) /\ s.kind = request[r].kind
                 /\ s.phase = "reading"
    BY <1>0, <2>1, AskMoves
  <2>3. Rest(s) => s.kind.allowed /\ BodyRight(s.kind)
    BY <1>0, <2>1, <2>2 DEF OutcomeRight, Rest
  <2>4. s.kind.route # "inspect"
    BY <2>1, <2>2 DEF Kind
  <2> QED
    BY <1>1, <2>1, <2>2, <2>3, <2>4, OutcomeGoes
<1>7. ASSUME NEW s, Moves(r, s), request[r].phase = "reading",
             s.kind = request[r].kind, s.phase = "reading",
             UNCHANGED <<called, busy, answers>>
      PROVE  OutcomeInv'
  <2>1. /\ r \in called
        /\ Rest(s) => s.kind.allowed /\ BodyRight(s.kind)
        /\ Rest(s) /\ s.kind.route = "inspect" => s.kind.rootAllowed
    BY <1>0, <1>7 DEF OutcomeRight, Rest
  <2> QED
    BY <1>1, <1>7, <2>1, OutcomeGoes
<1>8. ASSUME NEW status \in {200, 500}, End(r, status), called' = called,
             request[r].phase = "reading"
      PROVE  OutcomeInv'
  <2>1. ~Refuses(status) /\ r \in called'
    BY <1>0, <1>8 DEF OutcomeRight, Refuses
  <2> QED
    BY <1>2, <1>8, <2>1
<1>9. CASE LoadNext(r)
  <2> DEFINE d == Head(request[r].todo)
             file == disk[d]
             loads == Loads(records, d, file)
             health == Kind(r).route = "connectorHealth"
             record == LoadRecord(records, d, file)
             stops == health /\ loads /\ IsV2(record) /\ record.id = Kind(r).id
             todo == IF stops THEN <<>> ELSE Tail(request[r].todo)
             found == With(request[r].found, d, record)
  <2>1. request[r].phase = "reading" /\ called' = called
    BY <1>9 DEF LoadNext, At
  <2>2. CASE End(r, 500)
    BY <1>8, <2>1, <2>2
  <2>3. CASE /\ request' = [request EXCEPT
                              ![r].todo = IF stops THEN <<>> ELSE Tail(@),
                              ![r].found = With(@, d, record)]
             /\ UNCHANGED <<busy, answers>>
    <3>1. Finds(r, todo, found)
      BY <1>0, <2>3 DEF Locals, Finds
    <3> HIDE DEF todo, found
    <3>2. PICK s : /\ Moves(r, s) /\ s.kind = request[r].kind
                   /\ s.phase = request[r].phase
      BY <1>0, <3>1, LoadMoves
    <3> QED
      BY <1>7, <2>1, <2>3, <3>2
  <2> QED
    BY <1>9, <2>2, <2>3 DEF LoadNext
<1>10. CASE ListAgain(r)
  <2> DEFINE listed == request[r].found
             found == NoRecords
             todo == DirectoryIds
  <2>1. /\ request[r].phase = "reading"
        /\ UNCHANGED <<called, busy, answers>>
        /\ Lists(r, listed, found, todo)
    BY <1>10 DEF ListAgain, HasRead, At, Lists
  <2> HIDE DEF listed, found, todo
  <2>2. PICK s : /\ Moves(r, s) /\ s.kind = request[r].kind
                 /\ s.phase = request[r].phase
    BY <1>0, <2>1, ListMoves
  <2> QED
    BY <1>7, <2>1, <2>2
<1>11. CASE \/ RefuseDuplicates(r) \/ ReturnList(r) \/ ReturnConnector(r)
            \/ ReturnHealth(r)
  <2>1. /\ called' = called /\ (End(r, 200) \/ End(r, 500))
        /\ request[r].phase = "reading"
    BY <1>11 DEF RefuseDuplicates, ReturnList, ReturnConnector, ReturnHealth,
                 HasRead, At
  <2> QED
    BY <1>8, <2>1
<1> QED
  BY <1>3, <1>4, <1>5, <1>6, <1>9, <1>10, <1>11 DEF Runs

LEMMA OutcomeStep ==
  ASSUME OutcomeInv, [Next]_vars
  PROVE  OutcomeInv'
<1>1. ASSUME UNCHANGED <<request, busy, answers, called>>
      PROVE  OutcomeInv'
  <2>1. Locals'
    BY <1>1 DEF OutcomeInv, Locals, IsRequest
  <2>2. \A r \in Requests :
          OutcomeRight(r, request'[r], answers'[r], called', busy')
    BY <1>1 DEF OutcomeInv
  <2>3. \A r \in Requests :
          OutcomeRight(r, request[r], answers[r], called, busy)'
    BY <2>2 DEF OutcomeRight, IsRefusal, Refuses, IsSuccess, NeedsWork, Rest
  <2> QED
    BY <2>1, <2>3 DEF OutcomeInv
<1>2. CASE UNCHANGED vars
  BY <1>1, <1>2 DEF vars
<1>3. ASSUME NEW d \in Directories, EditManifest(d)
      PROVE  OutcomeInv'
  BY <1>1, <1>3 DEF EditManifest
<1>4. CASE Next
  BY <1>3, <1>4, OutcomeArrives, OutcomeWaits, OutcomeRuns DEF Next
<1> QED
  BY <1>2, <1>4

LEMMA OutcomeInit ==
  ASSUME Init
  PROVE  OutcomeInv
<1>1. ASSUME NEW r \in Requests
      PROVE  /\ request[r].phase = "new" /\ IsRequest(request[r])
             /\ answers[r] = <<>> /\ r \notin called /\ busy # r
  BY ProtocolServerAssumption DEF Init, IsRequest
<1>2. Locals
  BY <1>1 DEF Init, Locals
<1>3. ASSUME NEW r \in Requests
      PROVE  OutcomeRight(r, request[r], answers[r], called, busy)
  BY <1>1, NoRefusal DEF OutcomeRight
<1> QED
  BY <1>2, <1>3 DEF OutcomeInv

(***************************************************************************)
(* AnswersTellOutcome, for any requests of any kinds (router.ts, the race  *)
(* of withTimeout and the order of readBody, authorize and the             *)
(* application) and whatever statuses the ports throw: one answer each, a  *)
(* refusal that no port throws only when nothing was done, a success only  *)
(* when it was, and nothing done over REST without authorization.          *)
(***************************************************************************)
THEOREM AnswersAreTrue == Spec => []AnswersTellOutcome
<1>1. OutcomeInv => AnswersTellOutcome
  <2> SUFFICES ASSUME OutcomeInv, NEW r \in Requests
               PROVE  /\ Len(answers[r]) <= 1
                      /\ \A i \in DOMAIN answers[r] :
                           /\ answers[r][i] \in (400..499) \ PortStatuses =>
                                r \notin called
                           /\ answers[r][i] = 200 /\ NeedsWork(Kind(r)) =>
                                r \in called
                      /\ r \in called /\ Kind(r).surface = "rest" =>
                           /\ Kind(r).allowed
                           /\ Kind(r).route = "inspect" => Kind(r).rootAllowed
                           /\ Kind(r).body \notin
                                {"malformed", "too large", "not json type"}
    BY DEF AnswersTellOutcome
  <2>1. OutcomeRight(r, request[r], answers[r], called, busy)
    BY DEF OutcomeInv
  <2>2. Len(answers[r]) <= 1
    <3>1. CASE answers[r] = <<>>
      BY <3>1
    <3>2. ASSUME NEW status, answers[r] = <<status>>
          PROVE  Len(answers[r]) <= 1
      <4>1. Len(<<status>>) = 1
        OBVIOUS
      <4> QED
        BY <3>2, <4>1
    <3> QED
      BY <2>1, <3>1, <3>2 DEF OutcomeRight
  <2>3. \A i \in DOMAIN answers[r] :
          /\ answers[r][i] \in (400..499) \ PortStatuses => r \notin called
          /\ answers[r][i] = 200 /\ NeedsWork(Kind(r)) => r \in called
    BY <2>1 DEF OutcomeRight, IsRefusal, IsSuccess, Refuses, Kind
  <2> QED
    BY <2>1, <2>2, <2>3 DEF OutcomeRight, Rest, BodyRight, Kind
<1> QED
  BY <1>1, OutcomeInit, OutcomeStep, PTL DEF Spec

-----------------------------------------------------------------------------
(***************************************************************************)
(* The answers about the catalog.  A catalog (recs) keeps every manifest   *)
(* it could read, so what an operation found is what the catalog holds, as *)
(* far as it holds it, and once a listing was answered it holds them all.  *)
(* Only the request that has the event loop reads.                         *)
(***************************************************************************)
IsCatalog(recs) ==
  recs = [d \in DOMAIN recs |-> recs[d]] /\ DOMAIN recs \subseteq Directories

Full(recs) == DOMAIN recs = Directories

(* The record found for directory d declares the id.                       *)
Declares(found, d, id) == d \in DOMAIN found /\ IsV2(found[d]) /\ found[d].id = id

(* A search has read the directories up to the m-th, and the rest is to    *)
(* do, or a health check found at the m-th what it looks for.              *)
ReadUpTo(s, m) ==
  /\ \A i \in 1..m : DirectoryIds[i] \in DOMAIN s.found
  /\ \/ /\ Len(s.todo) = Len(DirectoryIds) - m
        /\ \A i \in 1..Len(s.todo) : s.todo[i] = DirectoryIds[m + i]
     \/ /\ s.todo = <<>> /\ s.kind.route = "connectorHealth"
        /\ m > 0 /\ Declares(s.found, DirectoryIds[m], s.kind.id)

Agrees(found, recs) ==
  \A d \in DOMAIN found : d \in DOMAIN recs => found[d] = recs[d]

Reading(s, recs) ==
  /\ s.kind.route \in CatalogRoutes
  /\ IsCatalog(s.found)
  /\ Agrees(s.found, recs)
  /\ s.kind.route # "connectorHealth" => DOMAIN s.found \subseteq DOMAIN recs
  /\ s.listed = Nothing \/ (Full(recs) /\ s.listed = recs)
  /\ s.todo \in Seq(Directories)
  /\ IF Named(s.kind)
       THEN s.todo = <<s.kind.id>> \/ (s.todo = <<>> /\ s.kind.id \in DOMAIN s.found)
       ELSE \E m \in 0..Len(DirectoryIds) : ReadUpTo(s, m)

FoundRight(s, recs) ==
  IF s.phase = "reading" THEN Reading(s, recs)
  ELSE s.found = NoRecords /\ s.listed = Nothing

ServedRight(x, recs) ==
  /\ x.route = "list" =>
       Full(recs) /\ x.connectors = recs /\ x.snapshot = SnapshotEntries(recs)
  /\ x.route = "get" =>
       IF Named(x) THEN x.id \in DOMAIN recs /\ x.connector = recs[x.id]
       ELSE Full(recs) /\ x.connector = Got(x, recs)

HealthRight(x, recs) ==
  x.route = "connectorHealth" =>
    \E filesPresent \in BOOLEAN :
      x.health = Diagnosis(Got(x, recs), filesPresent)

CatalogInv ==
  /\ IsCatalog(records)
  /\ \A r \in Requests : FoundRight(request[r], records)
  /\ \E S : served \in Seq(S)
  /\ \A i \in 1..Len(served) : ServedRight(served[i], records)
  /\ \A i, j \in 1..Len(served) :
       i < j /\ served[i].route = "list" => HealthRight(served[j], records)

(* The catalog grows, or stays.                                            *)
Grows(old, new) ==
  /\ IsCatalog(new)
  /\ DOMAIN old \subseteq DOMAIN new
  /\ \A d \in DOMAIN old : new[d] = old[d]

LEMMA FullStays ==
  ASSUME NEW old, NEW new, IsCatalog(old), Full(old), Grows(old, new)
  PROVE  new = old
<1>1. DOMAIN new = DOMAIN old
  BY DEF Full, Grows, IsCatalog
<1> QED
  BY <1>1 DEF Grows, IsCatalog

LEMMA ServedStays ==
  ASSUME NEW old, NEW new, IsCatalog(old), Grows(old, new), NEW x,
         ServedRight(x, old)
  PROVE  ServedRight(x, new)
<1>1. CASE Full(old)
  BY <1>1, FullStays
<1>2. CASE ~Full(old)
  BY <1>2 DEF ServedRight, Grows
<1> QED
  BY <1>1, <1>2

LEMMA CatalogGrows ==
  ASSUME NEW recs, IsCatalog(recs), NEW d \in Directories, NEW file
  PROVE  Grows(recs, KeepRecord(recs, d, file))
BY DEF IsCatalog, Grows, KeepRecord

LEMMA DirectoriesAreListed ==
  /\ DirectoryIds \in Seq(Directories)
  /\ Directories = {DirectoryIds[i] : i \in 1..Len(DirectoryIds)}
BY ConnectorCatalogAssumption DEF Directories, ToSet

(* A search that read everything has the whole catalog.                    *)
LEMMA ReadAll ==
  ASSUME NEW s, NEW recs, IsCatalog(recs), Reading(s, recs), s.todo = <<>>,
         ~Named(s.kind), s.kind.route # "connectorHealth"
  PROVE  Full(recs) /\ s.found = recs
<1>1. PICK m \in 0..Len(DirectoryIds) : ReadUpTo(s, m)
  BY DEF Reading
<1>2. Len(s.todo) = 0
  OBVIOUS
<1>3. m = Len(DirectoryIds)
  BY <1>1, <1>2, DirectoriesAreListed DEF ReadUpTo
<1>4. Directories \subseteq DOMAIN s.found
  BY <1>1, <1>3, DirectoriesAreListed DEF ReadUpTo
<1>5. DOMAIN s.found = Directories /\ DOMAIN recs = Directories
  BY <1>4 DEF Reading, IsCatalog
<1>6. s.found = recs
  BY <1>5 DEF Reading, Agrees, IsCatalog
<1> QED
  BY <1>5, <1>6 DEF Full

(* The first index of a set of indices.                                    *)
LEMMA LeastOf ==
  ASSUME NEW I, NEW J, NEW m \in Nat, I \subseteq Nat, J \subseteq Nat,
         m \in I, m \in J, \A i \in 0..m : i \in I <=> i \in J
  PROVE  Min(I) = Min(J)
<1>1. ASSUME NEW A, NEW B, A \subseteq Nat, m \in A, m \in B,
             \A i \in 0..m : i \in A <=> i \in B, B \subseteq Nat,
             NEW x \in A, \A y \in A : x <= y
      PROVE  x \in B /\ \A y \in B : x <= y
  <2>1. x \in 0..m /\ x \in B
    BY <1>1
  <2>2. ASSUME NEW y \in B
        PROVE  x <= y
    <3>1. CASE y <= m
      BY <1>1, <3>1
    <3>2. CASE ~(y <= m)
      BY <1>1, <2>1, <3>2
    <3> QED
      BY <3>1, <3>2
  <2> QED
    BY <2>1, <2>2
<1>2. \A x : (x \in I /\ \A y \in I : x <= y) <=> (x \in J /\ \A y \in J : x <= y)
  BY <1>1
<1> QED
  BY <1>2 DEF Min

LEMMA LeastIsMember ==
  ASSUME NEW I, I \subseteq Nat, I # {}
  PROVE  Min(I) \in I
<1>1. PICK i \in I : \A j \in Nat : <<j, i>> \in OpToRel(<, Nat) => j \notin I
  BY NatLessThanWellFounded, WFMin
<1>2. \A j \in I : i <= j
  <2>1. ASSUME NEW j \in I
        PROVE  i <= j
    <3>1. ~(j < i)
      BY <1>1 DEF OpToRel
    <3> QED
      BY <3>1
  <2> QED
    BY <2>1
<1> QED
  BY <1>2 DEF Min

(* A search that is over found what the whole catalog would tell.          *)
LEMMA SameGot ==
  ASSUME NEW s, NEW recs, IsCatalog(recs), Full(recs), Reading(s, recs),
         s.todo = <<>>
  PROVE  Got(s.kind, s.found) = Got(s.kind, recs)
<1>1. CASE Named(s.kind)
  <2>1. <<s.kind.id>> # <<>>
    OBVIOUS
  <2>2. s.found[s.kind.id] = recs[s.kind.id]
    BY <1>1, <2>1 DEF Reading, Agrees, Full, IsCatalog
  <2> QED
    BY <1>1, <2>2 DEF Got
<1>2. CASE ~Named(s.kind)
  <2> DEFINE id == s.kind.id
             n == Len(DirectoryIds)
             I == {i \in 1..n : Declares(s.found, DirectoryIds[i], id)}
             J == {i \in 1..n : Declares(recs, DirectoryIds[i], id)}
  <2>1. PICK m \in 0..n : ReadUpTo(s, m)
    BY <1>2 DEF Reading
  <2>2. n \in Nat
    BY DirectoriesAreListed
  <2>3. \A i \in 1..m : i \in I <=> i \in J
    <3>1. ASSUME NEW i \in 1..m
          PROVE  i \in I <=> i \in J
      <4>1. DirectoryIds[i] \in DOMAIN s.found /\ DirectoryIds[i] \in DOMAIN recs
        BY <2>1, DirectoriesAreListed DEF ReadUpTo, Reading, IsCatalog, Full
      <4>2. s.found[DirectoryIds[i]] = recs[DirectoryIds[i]]
        BY <4>1 DEF Reading, Agrees
      <4> QED
        BY <4>1, <4>2 DEF Declares
    <3> QED
      BY <3>1
  <2>4. I = J \/ (m > 0 /\ m \in I)
    <3>1. CASE Len(s.todo) = n - m
      <4>1. m = n
        BY <2>2, <3>1
      <4> QED
        BY <2>3, <4>1
    <3>2. CASE m > 0 /\ Declares(s.found, DirectoryIds[m], id)
      BY <3>2
    <3> QED
      BY <2>1, <3>1, <3>2 DEF ReadUpTo
  <2>5. FirstDeclaring(s.found, id) = IF I # {} THEN Min(I) ELSE 0
    BY DEF FirstDeclaring, SelectInSeq, Declares
  <2>6. FirstDeclaring(recs, id) = IF J # {} THEN Min(J) ELSE 0
    BY DEF FirstDeclaring, SelectInSeq, Declares
  <2>7. FirstDeclaring(s.found, id) = FirstDeclaring(recs, id)
    <3>1. CASE I = J
      <4> HIDE DEF I, J
      <4> QED
        BY <2>5, <2>6, <3>1
    <3>2. CASE m > 0 /\ m \in I
      <4>1. m \in J
        BY <2>3, <3>2
      <4>2. \A i \in 0..m : i \in I <=> i \in J
        BY <2>2, <2>3
      <4>3. I \subseteq Nat /\ J \subseteq Nat /\ m \in Nat
        BY <2>2
      <4> HIDE DEF I, J
      <4>4. Min(I) = Min(J)
        BY <3>2, <4>1, <4>2, <4>3, LeastOf
      <4> QED
        BY <2>5, <2>6, <3>2, <4>1, <4>4
    <3> QED
      BY <2>4, <3>1, <3>2
  <2>8. ASSUME FirstDeclaring(recs, id) > 0
        PROVE  LET d == DirectoryIds[FirstDeclaring(recs, id)]
               IN  s.found[d] = recs[d]
    <3> DEFINE i == FirstDeclaring(recs, id)
    <3>1. I # {} /\ I \subseteq Nat /\ i = Min(I)
      <4>1. I \subseteq Nat
        OBVIOUS
      <4> HIDE DEF I, J
      <4> QED
        BY <2>5, <2>7, <2>8, <4>1
    <3> HIDE DEF i
    <3>2. i \in I
      <4> HIDE DEF I
      <4> QED
        BY <3>1, LeastIsMember
    <3>3. DirectoryIds[i] \in DOMAIN s.found /\ DOMAIN s.found \subseteq DOMAIN recs
      BY <3>2 DEF Declares, Reading, IsCatalog, Full
    <3>4. s.found[DirectoryIds[i]] = recs[DirectoryIds[i]]
      BY <3>3 DEF Reading, Agrees
    <3> QED
      BY <3>4 DEF i
  <2> QED
    BY <1>2, <2>7, <2>8 DEF Got
<1> QED
  BY <1>1, <1>2

(* z is the sequence q with x at its end.                                  *)
Lengthened(z, q, x) ==
  /\ \E S : z \in Seq(S)
  /\ Len(q) \in Nat /\ Len(z) = Len(q) + 1
  /\ \A i \in 1..Len(q) : z[i] = q[i]
  /\ z[Len(q) + 1] = x

LEMMA AppendTo ==
  ASSUME NEW q, \E S : q \in Seq(S), NEW x
  PROVE  Lengthened(Append(q, x), q, x)
<1>1. PICK S : q \in Seq(S)
  OBVIOUS
<1>2. q \in Seq(S \cup {x}) /\ Len(q) \in Nat
  BY <1>1
<1>3. Append(q, x) \in Seq(S \cup {x})
  BY <1>2
<1> QED
  BY <1>2, <1>3 DEF Lengthened

(* What served' is, when x is answered or nothing is.                      *)
Serves(x) ==
  /\ served' = Append(served, x)
  /\ ServedRight(x, records')
  /\ Full(records) => HealthRight(x, records')

(* A step of request r: what it found is right, and so is what it answers. *)
LEMMA CatalogMove ==
  ASSUME OutcomeInv, CatalogInv, NEW r \in Requests, NEW s, Moves(r, s),
         Grows(records, records'), records' = records \/ busy = r,
         FoundRight(s, records'),
         served' = served \/ \E x : Serves(x)
  PROVE  CatalogInv'
<1>1. ASSUME NEW q \in Requests
      PROVE  FoundRight(request'[q], records')
  <2>1. CASE q = r
    BY <2>1 DEF Moves
  <2>2. CASE q # r /\ records' = records
    BY <2>2 DEF Moves, CatalogInv
  <2>3. CASE q # r /\ busy = r
    <3>1. OutcomeRight(q, request[q], answers[q], called, busy)
      BY DEF OutcomeInv
    <3>2. request[q].phase # "reading"
      BY <2>3, <3>1 DEF OutcomeRight
    <3> QED
      BY <2>3, <3>2 DEF Moves, CatalogInv, FoundRight
  <2> QED
    BY <2>1, <2>2, <2>3
<1>2. ASSUME NEW i \in 1..Len(served)
      PROVE  ServedRight(served[i], records')
  BY ServedStays DEF CatalogInv
<1>3. ASSUME NEW i \in 1..Len(served), served[i].route = "list"
      PROVE  Full(records) /\ records' = records
  <2>1. Full(records)
    BY <1>3 DEF CatalogInv, ServedRight
  <2> QED
    BY <2>1, FullStays DEF CatalogInv
<1>4. IsCatalog(records')
  BY DEF Grows
<1>5. /\ \E S : served' \in Seq(S)
      /\ \A i \in 1..Len(served') : ServedRight(served'[i], records')
      /\ \A i, j \in 1..Len(served') :
           i < j /\ served'[i].route = "list" => HealthRight(served'[j], records')
  <2>1. CASE served' = served
    BY <1>2, <1>3, <2>1 DEF CatalogInv
  <2>2. ASSUME NEW x, Serves(x)
        PROVE  <1>5
    <3> DEFINE n == Len(served)
    <3>1. /\ \E S : served' \in Seq(S)
          /\ n \in Nat /\ Len(served') = n + 1
          /\ \A i \in 1..n : served'[i] = served[i]
          /\ served'[n + 1] = x
      <4>1. \E S : served \in Seq(S)
        BY DEF CatalogInv
      <4>2. served' = Append(served, x)
        BY <2>2 DEF Serves
      <4>3. Lengthened(served', served, x)
        BY <4>1, <4>2, AppendTo
      <4> QED
        BY <4>3 DEF Lengthened
    <3>2. ASSUME NEW i \in 1..Len(served')
          PROVE  ServedRight(served'[i], records')
      <4>1. CASE i \in 1..n
        BY <1>2, <3>1, <4>1
      <4>2. CASE i = n + 1
        BY <2>2, <3>1, <4>2 DEF Serves
      <4> QED
        BY <3>1, <4>1, <4>2
    <3>3. ASSUME NEW i \in 1..Len(served'), NEW j \in 1..Len(served'),
                 i < j, served'[i].route = "list"
          PROVE  HealthRight(served'[j], records')
      <4>1. i \in 1..n /\ served[i].route = "list"
        BY <3>1, <3>3
      <4>2. CASE j \in 1..n
        BY <1>3, <3>1, <3>3, <4>1, <4>2 DEF CatalogInv
      <4>3. CASE j = n + 1
        BY <1>3, <2>2, <3>1, <4>1, <4>3 DEF Serves
      <4> QED
        BY <3>1, <4>2, <4>3
    <3> QED
      BY <3>1, <3>2, <3>3
  <2> QED
    BY <2>1, <2>2
<1> QED
  BY <1>1, <1>4, <1>5 DEF CatalogInv, FoundRight, ServedRight, HealthRight,
     Reading, Agrees, IsCatalog, Full, ReadUpTo, Declares

-----------------------------------------------------------------------------
(* The steps of the catalog operations.                                    *)

(* A search begins.                                                        *)
LEMMA ReadFirst ==
  ASSUME NEW s, NEW recs, s.kind.route \in CatalogRoutes, s.found = NoRecords,
         s.todo = Asked(s.kind),
         s.listed = Nothing \/ (Full(recs) /\ s.listed = recs)
  PROVE  Reading(s, recs)
<1>1. IsCatalog(s.found) /\ DOMAIN s.found = {}
  BY DEF NoRecords, IsCatalog
<1>2. CASE Named(s.kind)
  <2>1. s.todo = <<s.kind.id>> /\ s.kind.id \in Directories
    BY <1>2 DEF Asked, Named
  <2>2. <<s.kind.id>> \in Seq(Directories)
    BY <2>1
  <2> QED
    BY <1>1, <1>2, <2>1, <2>2 DEF Reading, Agrees
<1>3. CASE ~Named(s.kind)
  <2>1. s.todo = DirectoryIds
    BY <1>3 DEF Asked
  <2>2. ReadUpTo(s, 0) /\ 0 \in 0..Len(DirectoryIds)
    BY <2>1, DirectoriesAreListed DEF ReadUpTo
  <2> QED
    BY <1>1, <1>3, <2>1, <2>2, DirectoriesAreListed DEF Reading, Agrees
<1> QED
  BY <1>2, <1>3

(* A search reads the next directory, and goes on or has found its record. *)
LEMMA ReadNext ==
  ASSUME NEW s, NEW recs, IsCatalog(recs), Reading(s, recs), s.todo # <<>>,
         NEW d, d = Head(s.todo), NEW file, NEW t,
         Loads(recs, d, file) \/ s.kind.route = "connectorHealth",
         t.kind = s.kind, t.listed = s.listed,
         t.found = With(s.found, d, LoadRecord(recs, d, file)),
         \/ t.todo = Tail(s.todo)
         \/ /\ t.todo = <<>> /\ s.kind.route = "connectorHealth"
            /\ IsV2(LoadRecord(recs, d, file))
            /\ LoadRecord(recs, d, file).id = s.kind.id
  PROVE  /\ d \in Directories
         /\ Reading(t, KeepRecord(recs, d, file))
<1> DEFINE record == LoadRecord(recs, d, file)
           new == KeepRecord(recs, d, file)
<1>1. /\ s.todo \in Seq(Directories) /\ Len(s.todo) \in Nat \ {0}
      /\ d = s.todo[1] /\ d \in Directories
  BY DEF Reading
<1>2. /\ Tail(s.todo) \in Seq(Directories)
      /\ Len(Tail(s.todo)) = Len(s.todo) - 1
      /\ \A i \in 1..Len(Tail(s.todo)) : Tail(s.todo)[i] = s.todo[i + 1]
  BY <1>1
<1>3. Grows(recs, new)
  BY <1>1, CatalogGrows
<1>4. d \in DOMAIN new => new[d] = record
  BY DEF KeepRecord, LoadRecord, Loads
<1>5. \A e \in DOMAIN new : e \in DOMAIN recs \/ e = d
  BY DEF KeepRecord
<1>6. /\ DOMAIN t.found = DOMAIN s.found \cup {d}
      /\ t.found[d] = record
      /\ \A e \in DOMAIN s.found : e # d => t.found[e] = s.found[e]
      /\ IsCatalog(t.found)
  BY <1>1 DEF With, IsCatalog, Reading
<1>7. Agrees(t.found, new)
  BY <1>3, <1>4, <1>5, <1>6 DEF Agrees, Grows, Reading
<1>8. t.kind.route # "connectorHealth" => DOMAIN t.found \subseteq DOMAIN new
  <2>1. Loads(recs, d, file) => d \in DOMAIN new
    BY DEF KeepRecord
  <2> QED
    BY <1>3, <1>6, <2>1 DEF Grows, Reading
<1>9. t.listed = Nothing \/ (Full(new) /\ t.listed = new)
  BY <1>3, FullStays DEF Reading
<1>10. t.todo \in Seq(Directories)
  <2>1. <<>> \in Seq(Directories)
    OBVIOUS
  <2> QED
    BY <1>2, <2>1
<1>11. IF Named(t.kind)
         THEN t.todo = <<t.kind.id>> \/ (t.todo = <<>> /\ t.kind.id \in DOMAIN t.found)
         ELSE \E m \in 0..Len(DirectoryIds) : ReadUpTo(t, m)
  <2>1. CASE Named(s.kind)
    <3>1. s.todo = <<s.kind.id>>
      BY <2>1 DEF Reading
    <3>2. Tail(<<s.kind.id>>) = <<>> /\ Head(<<s.kind.id>>) = s.kind.id
      OBVIOUS
    <3> QED
      BY <1>6, <2>1, <3>1, <3>2
  <2>2. CASE ~Named(s.kind)
    <3>1. PICK m \in 0..Len(DirectoryIds) : ReadUpTo(s, m)
      BY <2>2 DEF Reading
    <3>2. /\ Len(s.todo) = Len(DirectoryIds) - m
          /\ \A i \in 1..Len(s.todo) : s.todo[i] = DirectoryIds[m + i]
      BY <3>1 DEF ReadUpTo
    <3>3. m + 1 \in 1..Len(DirectoryIds) /\ d = DirectoryIds[m + 1]
      <4>1. Len(DirectoryIds) \in Nat
        BY DirectoriesAreListed
      <4>2. m + 1 \in 1..Len(DirectoryIds) /\ 1 \in 1..Len(s.todo)
        BY <1>1, <3>2, <4>1
      <4> QED
        BY <1>1, <3>2, <4>2
    <3>4. \A i \in 1..(m + 1) : DirectoryIds[i] \in DOMAIN t.found
      BY <1>6, <3>1, <3>3 DEF ReadUpTo
    <3>5. CASE t.todo = Tail(s.todo)
      <4>1. /\ Len(t.todo) = Len(DirectoryIds) - (m + 1)
            /\ \A i \in 1..Len(t.todo) : t.todo[i] = DirectoryIds[(m + 1) + i]
        <5>1. Len(t.todo) = Len(DirectoryIds) - (m + 1)
          BY <1>1, <1>2, <3>2, <3>5, DirectoriesAreListed
        <5>2. ASSUME NEW i \in 1..Len(t.todo)
              PROVE  t.todo[i] = DirectoryIds[(m + 1) + i]
          <6>1. t.todo[i] = s.todo[i + 1] /\ i + 1 \in 1..Len(s.todo)
            BY <1>1, <1>2, <3>5
          <6>2. m + (i + 1) = (m + 1) + i
            OBVIOUS
          <6> QED
            BY <3>2, <6>1, <6>2
        <5> QED
          BY <5>1, <5>2
      <4> QED
        BY <2>2, <3>3, <3>4, <4>1 DEF ReadUpTo
    <3>6. CASE /\ t.todo = <<>> /\ s.kind.route = "connectorHealth"
               /\ IsV2(record) /\ record.id = s.kind.id
      <4>1. Declares(t.found, DirectoryIds[m + 1], t.kind.id)
        BY <1>6, <3>3, <3>6 DEF Declares
      <4> QED
        BY <2>2, <3>3, <3>4, <3>6, <4>1 DEF ReadUpTo
    <3> QED
      BY <3>5, <3>6
  <2> QED
    BY <2>1, <2>2
<1>12. t.kind.route \in CatalogRoutes
  BY DEF Reading
<1> HIDE DEF new
<1> QED
  BY <1>1, <1>6, <1>7, <1>8, <1>9, <1>10, <1>11, <1>12 DEF Reading, new

(* A request that has not begun to read, or has ended, found nothing.      *)
LEMMA CatalogQuiet ==
  ASSUME OutcomeInv, CatalogInv, NEW r \in Requests, NEW s, Moves(r, s),
         s.phase # "reading", s.found = NoRecords, s.listed = Nothing,
         records' = records \/ busy = r, Grows(records, records'),
         served' = served \/ \E x : Serves(x)
  PROVE  CatalogInv'
<1>1. FoundRight(s, records')
  BY DEF FoundRight
<1> QED
  BY <1>1, CatalogMove

LEMMA CatalogSame ==
  ASSUME CatalogInv, records' = records
  PROVE  Grows(records, records')
BY DEF CatalogInv, Grows

LEMMA CatalogEnds ==
  ASSUME OutcomeInv, CatalogInv, NEW r \in Requests, NEW status, End(r, status),
         records' = records \/ busy = r, Grows(records, records'),
         served' = served \/ \E x : Serves(x)
  PROVE  CatalogInv'
<1>1. PICK s : /\ Moves(r, s)
               /\ s.phase = "ended" /\ s.found = NoRecords /\ s.listed = Nothing
  BY EndMoves DEF OutcomeInv
<1> QED
  BY <1>1, CatalogQuiet

LEMMA CatalogGoes ==
  ASSUME OutcomeInv, CatalogInv, NEW r \in Requests, NEW s, Moves(r, s),
         s.phase # "reading", request[r].phase # "reading",
         SameCatalog(s, request[r]), records' = records, served' = served
  PROVE  CatalogInv'
<1>1. FoundRight(request[r], records)
  BY DEF CatalogInv
<1>2. s.found = NoRecords /\ s.listed = Nothing
  BY <1>1 DEF FoundRight, SameCatalog
<1> QED
  BY <1>2, CatalogQuiet, CatalogSame

LEMMA CatalogArrives ==
  ASSUME OutcomeInv, CatalogInv, NEW r \in Requests, NEW k \in Kinds,
         ArriveRest(r, k) \/ ArriveMcp(r, k)
  PROVE  CatalogInv'
<1>1. /\ request[r].phase = "new"
      /\ records' = records /\ served' = served
  BY DEF ArriveRest, ArriveMcp, At
<1>2. PICK phase \in {"body", "authenticating", "dispatch", "ended"} :
        Arrives(r, k, phase)
  BY DEF ArriveRest, ArriveMcp, Arrives
<1>3. PICK s : Moves(r, s) /\ s.phase = phase /\ SameCatalog(s, request[r])
  BY <1>2, ArriveMoves DEF OutcomeInv
<1>4. s.phase # "reading" /\ request[r].phase # "reading"
  BY <1>1, <1>3
<1> QED
  BY <1>1, <1>3, <1>4, CatalogGoes

LEMMA CatalogWaits ==
  ASSUME OutcomeInv, CatalogInv, NEW r \in Requests,
         \/ BodyRead(r) \/ BodyAborted(r) \/ Authorize(r)
         \/ AuthenticatorFails(r) \/ Timeout(r) \/ ProviderSettles(r)
  PROVE  CatalogInv'
<1>1. records' = records /\ served' = served
  BY DEF BodyRead, BodyAborted, Authorize, AuthenticatorFails, Timeout,
         ProviderSettles
<1>2. CASE \E status : End(r, status)
  BY <1>1, <1>2, CatalogEnds, CatalogSame
<1>3. ASSUME NEW phase \in {"authenticating", "dispatch"}, Goto(r, phase),
             request[r].phase # "reading"
      PROVE  CatalogInv'
  <2>1. PICK s : Moves(r, s) /\ s.phase = phase /\ SameCatalog(s, request[r])
    BY <1>3, GotoMoves DEF OutcomeInv
  <2>2. s.phase # "reading"
    BY <2>1
  <2> QED
    BY <1>1, <1>3, <2>1, <2>2, CatalogGoes
<1>4. CASE Timeout(r)
  <2>1. Moves(r, request[r])
    BY <1>4, StayMoves DEF Timeout, OutcomeInv
  <2>2. FoundRight(request[r], records')
    BY <1>1 DEF CatalogInv
  <2> QED
    BY <1>1, <2>1, <2>2, CatalogMove, CatalogSame
<1>5. CASE BodyRead(r)
  <2>1. /\ request[r].phase = "body"
        /\ End(r, 413) \/ End(r, 400) \/ Goto(r, "authenticating")
    BY <1>5 DEF BodyRead, At
  <2>2. CASE End(r, 413) \/ End(r, 400)
    BY <1>2, <2>2
  <2>3. CASE Goto(r, "authenticating")
    BY <1>3, <2>1, <2>3
  <2> QED
    BY <2>1, <2>2, <2>3
<1>6. CASE Authorize(r)
  <2>1. /\ request[r].phase = "authenticating"
        /\ End(r, 403) \/ Goto(r, "dispatch")
    BY <1>6 DEF Authorize, At
  <2>2. CASE End(r, 403)
    BY <1>2, <2>2
  <2>3. CASE Goto(r, "dispatch")
    BY <1>3, <2>1, <2>3
  <2> QED
    BY <2>1, <2>2, <2>3
<1> QED
  BY <1>2, <1>4, <1>5, <1>6 DEF BodyAborted, AuthenticatorFails, ProviderSettles

LEMMA GotOf ==
  ASSUME NEW x, NEW k, x.route = k.route, x.id = k.id, NEW found
  PROVE  Named(x) = Named(k) /\ Got(x, found) = Got(k, found)
<1>1. Named(x) = Named(k)
  BY DEF Named
<1> QED
  BY <1>1 DEF Got

(* A request that has the event loop.                                      *)
LEMMA CatalogRuns ==
  ASSUME OutcomeInv, CatalogInv, NEW r \in Requests, Runs(r)
  PROVE  CatalogInv'
<1> DEFINE s == request[r]
           k == Kind(r)
<1>0. /\ Locals /\ OutcomeRight(r, s, answers[r], called, busy)
      /\ FoundRight(s, records) /\ IsCatalog(records)
      /\ k = s.kind
  BY DEF OutcomeInv, CatalogInv, Kind
<1>1. ASSUME NEW status, End(r, status), records' = records,
             served' = served \/ \E x : Serves(x)
      PROVE  CatalogInv'
  BY <1>1, CatalogEnds, CatalogSame
<1>2. CASE DispatchAtOnce(r)
  BY <1>1, <1>2 DEF DispatchAtOnce
<1>3. CASE DispatchInspect(r)
  BY <1>1, <1>3 DEF DispatchInspect
<1>4. CASE DispatchProvider(r)
  <2>1. /\ s.phase = "dispatch" /\ Goto(r, "provider")
        /\ records' = records /\ served' = served
    BY <1>4 DEF DispatchProvider, At
  <2>2. PICK t : Moves(r, t) /\ t.phase = "provider" /\ SameCatalog(t, s)
    BY <1>0, <2>1, GotoMoves
  <2>3. t.phase # "reading" /\ s.phase # "reading"
    BY <2>1, <2>2
  <2> QED
    BY <2>1, <2>2, <2>3, CatalogGoes
<1>5. CASE DispatchCatalog(r)
  <2> DEFINE todo == Asked(k)
  <2>1. /\ s.phase = "dispatch" /\ k.route \in CatalogRoutes
        /\ records' = records /\ served' = served
        /\ Asks(r, todo)
    BY <1>5 DEF DispatchCatalog, At, Asks
  <2> HIDE DEF todo
  <2>2. PICK t : /\ Moves(r, t) /\ t.kind = s.kind /\ t.phase = "reading"
                 /\ t.todo = todo /\ t.found = s.found /\ t.listed = s.listed
    BY <1>0, <2>1, AskMoves
  <2>3. s.found = NoRecords /\ s.listed = Nothing
    BY <1>0, <2>1 DEF FoundRight
  <2>4. Reading(t, records)
    BY <1>0, <2>1, <2>2, <2>3, ReadFirst DEF todo
  <2>5. FoundRight(t, records')
    BY <2>1, <2>2, <2>4 DEF FoundRight
  <2> QED
    BY <2>1, <2>2, <2>5, CatalogMove, CatalogSame
<1>6. ASSUME s.phase = "reading"
      PROVE  Reading(s, records) /\ busy = r
  BY <1>0, <1>6 DEF FoundRight, OutcomeRight
<1>7. CASE LoadNext(r)
  <2> DEFINE d == Head(s.todo)
             file == disk[d]
             record == LoadRecord(records, d, file)
             stops == /\ k.route = "connectorHealth" /\ Loads(records, d, file)
                      /\ IsV2(record) /\ record.id = k.id
             todo == IF stops THEN <<>> ELSE Tail(s.todo)
             found == With(s.found, d, record)
  <2>1. /\ s.phase = "reading" /\ s.todo # <<>> /\ served' = served
        /\ records' = KeepRecord(records, d, file)
    BY <1>7 DEF LoadNext, At
  <2>2. Reading(s, records) /\ busy = r
    BY <1>6, <2>1
  <2>3. d \in Directories
    BY <2>1, <2>2 DEF Reading
  <2>4. Grows(records, records')
    <3> HIDE DEF d
    <3> QED
      BY <1>0, <2>1, <2>3, CatalogGrows
  <2>5. CASE End(r, 500)
    BY <2>1, <2>2, <2>4, <2>5, CatalogEnds
  <2>6. CASE /\ Loads(records, d, file) \/ k.route = "connectorHealth"
             /\ request' = [request EXCEPT
                              ![r].todo = IF stops THEN <<>> ELSE Tail(@),
                              ![r].found = With(@, d, record)]
    <3>1. Finds(r, todo, found)
      BY <1>0, <2>6 DEF Locals, Finds
    <3> HIDE DEF todo, found
    <3>2. PICK t : /\ Moves(r, t) /\ t.kind = s.kind /\ t.phase = s.phase
                   /\ t.todo = todo /\ t.found = found /\ t.listed = s.listed
      BY <1>0, <3>1, LoadMoves
    <3>3. \/ t.todo = Tail(s.todo)
          \/ /\ t.todo = <<>> /\ s.kind.route = "connectorHealth"
             /\ IsV2(record) /\ record.id = s.kind.id
      BY <1>0, <3>2 DEF todo
    <3>4. t.found = With(s.found, d, record)
      BY <3>2 DEF found
    <3>5. Loads(records, d, file) \/ s.kind.route = "connectorHealth"
      BY <1>0, <2>6
    <3> HIDE DEF file
    <3>6. Reading(t, records')
      BY <1>0, <2>1, <2>2, <3>2, <3>3, <3>4, <3>5, ReadNext
    <3>7. FoundRight(t, records')
      BY <2>1, <3>2, <3>6 DEF FoundRight
    <3> QED
      BY <2>1, <2>2, <2>4, <3>2, <3>7, CatalogMove
  <2> QED
    BY <1>7, <2>5, <2>6 DEF LoadNext
<1>8. CASE RefuseDuplicates(r)
  BY <1>1, <1>8 DEF RefuseDuplicates
<1>9. ASSUME NEW route, HasRead(r, route)
      PROVE  /\ s.phase = "reading" /\ Reading(s, records) /\ busy = r
             /\ s.todo = <<>> /\ s.kind.route = route
  BY <1>0, <1>6, <1>9 DEF HasRead, At
<1>10. CASE ListAgain(r)
  <2> DEFINE listed == s.found
             found == NoRecords
             todo == DirectoryIds
  <2>1. /\ HasRead(r, "list") /\ records' = records /\ served' = served
        /\ Lists(r, listed, found, todo)
    BY <1>10 DEF ListAgain, Lists
  <2>2. Full(records) /\ s.found = records
    BY <1>0, <1>9, <2>1, ReadAll DEF Named
  <2> HIDE DEF listed, found, todo
  <2>3. PICK t : /\ Moves(r, t) /\ t.kind = s.kind /\ t.phase = s.phase
                 /\ t.todo = todo /\ t.found = found /\ t.listed = listed
    BY <1>0, <2>1, ListMoves
  <2>4. t.kind.route = "list" /\ t.phase = "reading"
    BY <1>9, <2>1, <2>3
  <2>5. t.todo = Asked(t.kind)
    BY <2>3, <2>4 DEF todo, Asked, Named
  <2>6. Reading(t, records)
    BY <2>2, <2>3, <2>4, <2>5, ReadFirst DEF found, listed, CatalogRoutes
  <2>7. FoundRight(t, records')
    BY <2>1, <2>4, <2>6 DEF FoundRight
  <2> QED
    BY <2>1, <2>3, <2>7, CatalogMove, CatalogSame
<1>11. ASSUME NEW x, served' = Append(served, x), records' = records,
              ServedRight(x, records), Full(records) => HealthRight(x, records),
              End(r, 200)
       PROVE  CatalogInv'
  <2>1. Serves(x)
    BY <1>11 DEF Serves
  <2> QED
    BY <1>1, <1>11, <2>1
<1>12. CASE ReturnList(r)
  <2> DEFINE x == [route |-> "list", id |-> k.id, connectors |-> s.listed,
                   snapshot |-> SnapshotEntries(s.found)]
  <2>1. /\ HasRead(r, "list") /\ records' = records /\ s.listed # Nothing
        /\ served' = Append(served, x) /\ End(r, 200)
    BY <1>12 DEF ReturnList
  <2>2. Full(records) /\ s.found = records
    BY <1>0, <1>9, <2>1, ReadAll DEF Named
  <2>3. s.listed = records
    BY <1>9, <2>1 DEF Reading
  <2>4. /\ x.route = "list" /\ x.connectors = records
        /\ x.snapshot = SnapshotEntries(records)
    BY <2>2, <2>3
  <2> HIDE DEF x
  <2>5. ServedRight(x, records) /\ HealthRight(x, records)
    BY <2>2, <2>4 DEF ServedRight, HealthRight
  <2> QED
    BY <1>11, <2>1, <2>5
<1>13. CASE ReturnConnector(r)
  <2> DEFINE x == [route |-> "get", id |-> k.id, connector |-> Got(k, s.found)]
  <2>1. /\ HasRead(r, "get") /\ records' = records
        /\ served' = Append(served, x) /\ End(r, 200)
    BY <1>13 DEF ReturnConnector
  <2>2. x.route = "get" /\ x.id = k.id /\ x.connector = Got(k, s.found)
    OBVIOUS
  <2> HIDE DEF x
  <2>3. k.route = "get" /\ Reading(s, records) /\ s.todo = <<>>
    BY <1>0, <1>9, <2>1
  <2>4. Named(x) = Named(k) /\ Got(x, records) = Got(k, records)
    BY <2>2, <2>3, GotOf
  <2>5. ServedRight(x, records)
    <3>1. CASE Named(k)
      <4>1. <<k.id>> # <<>>
        OBVIOUS
      <4>2. k.id \in DOMAIN s.found /\ k.id \in DOMAIN records
        BY <1>0, <2>3, <3>1, <4>1 DEF Reading
      <4>3. s.found[k.id] = records[k.id]
        BY <2>3, <4>2 DEF Reading, Agrees
      <4>4. Got(k, s.found) = s.found[k.id]
        BY <3>1 DEF Got
      <4> QED
        BY <2>2, <2>4, <3>1, <4>2, <4>3, <4>4 DEF ServedRight
    <3>2. CASE ~Named(k)
      <4>1. Full(records) /\ s.found = records
        BY <1>0, <2>3, <3>2, ReadAll
      <4> QED
        BY <2>2, <2>4, <3>2, <4>1 DEF ServedRight
    <3> QED
      BY <3>1, <3>2
  <2>6. HealthRight(x, records)
    BY <2>2 DEF HealthRight
  <2> QED
    BY <1>11, <2>1, <2>5, <2>6
<1>14. CASE ReturnHealth(r)
  <2>1. PICK filesPresent \in BOOLEAN :
          served' = Append(served,
                      [route |-> "connectorHealth", id |-> k.id,
                       health |-> Diagnosis(Got(k, s.found), filesPresent)])
    BY <1>14 DEF ReturnHealth
  <2> DEFINE x == [route |-> "connectorHealth", id |-> k.id,
                   health |-> Diagnosis(Got(k, s.found), filesPresent)]
  <2>2. HasRead(r, "connectorHealth") /\ records' = records /\ End(r, 200)
    BY <1>14 DEF ReturnHealth
  <2>3. /\ x.route = "connectorHealth" /\ x.id = k.id
        /\ x.health = Diagnosis(Got(k, s.found), filesPresent)
        /\ served' = Append(served, x)
    BY <2>1
  <2> HIDE DEF x
  <2>4. k.route = "connectorHealth" /\ Reading(s, records) /\ s.todo = <<>>
    BY <1>0, <1>9, <2>2
  <2>5. Got(x, records) = Got(k, records)
    BY <2>3, <2>4, GotOf
  <2>6. Full(records) => Got(k, s.found) = Got(k, records)
    BY <1>0, <2>4, SameGot
  <2>7. Full(records) => HealthRight(x, records)
    BY <2>3, <2>5, <2>6 DEF HealthRight
  <2>8. ServedRight(x, records)
    BY <2>3 DEF ServedRight
  <2> QED
    BY <1>11, <2>2, <2>3, <2>7, <2>8
<1> QED
  BY <1>2, <1>3, <1>4, <1>5, <1>7, <1>8, <1>10, <1>12, <1>13, <1>14 DEF Runs

LEMMA CatalogStep ==
  ASSUME OutcomeInv, CatalogInv, [Next]_vars
  PROVE  CatalogInv'
<1>1. ASSUME UNCHANGED <<request, records, served>>
      PROVE  CatalogInv'
  BY <1>1 DEF CatalogInv, FoundRight, ServedRight, HealthRight, Reading, Agrees,
     IsCatalog, Full, ReadUpTo, Declares
<1>2. CASE UNCHANGED vars
  BY <1>1, <1>2 DEF vars
<1>3. ASSUME NEW d \in Directories, EditManifest(d)
      PROVE  CatalogInv'
  BY <1>1, <1>3 DEF EditManifest
<1>4. CASE Next
  BY <1>3, <1>4, CatalogArrives, CatalogWaits, CatalogRuns DEF Next
<1> QED
  BY <1>2, <1>4

LEMMA CatalogInit ==
  ASSUME Init
  PROVE  CatalogInv
<1>1. IsCatalog(records)
  BY DEF Init, IsCatalog, NoRecords
<1>2. ASSUME NEW r \in Requests
      PROVE  FoundRight(request[r], records)
  <2>1. /\ request[r].phase = "new" /\ request[r].found = NoRecords
        /\ request[r].listed = Nothing
    BY DEF Init
  <2> QED
    BY <2>1 DEF FoundRight
<1>3. served \in Seq({}) /\ Len(served) = 0
  BY DEF Init
<1> QED
  BY <1>1, <1>2, <1>3 DEF CatalogInv

(***************************************************************************)
(* AnswersAgree, for any requests, directories and edits of the manifests  *)
(* (#loadRecord and its #records): all answers about the catalog, of list, *)
(* get and of health after a list, are of one and the same catalog.        *)
(***************************************************************************)
THEOREM AnswersAreOfOneCatalog == Spec => []AnswersAgree
<1>1. CatalogInv => AnswersAgree
  <2> SUFFICES ASSUME CatalogInv, NEW i \in DOMAIN served, NEW j \in DOMAIN served,
                      served[i].route = "list"
               PROVE  /\ served[i].snapshot = SnapshotEntries(served[i].connectors)
                      /\ served[j].route = "list" =>
                           served[j].connectors = served[i].connectors
                      /\ served[j].route = "get" =>
                           served[j].connector = Got(served[j], served[i].connectors)
                      /\ served[j].route = "connectorHealth" /\ i < j =>
                           \E filesPresent \in BOOLEAN :
                             served[j].health =
                               Diagnosis(Got(served[j], served[i].connectors),
                                         filesPresent)
    BY DEF AnswersAgree
  <2>1. i \in 1..Len(served) /\ j \in 1..Len(served)
    BY DEF CatalogInv
  <2>2. /\ served[i].connectors = records
        /\ served[i].snapshot = SnapshotEntries(records)
    BY <2>1 DEF CatalogInv, ServedRight
  <2>3. ServedRight(served[j], records)
    BY <2>1 DEF CatalogInv
  <2>4. i < j => HealthRight(served[j], records)
    BY <2>1 DEF CatalogInv
  <2>5. Named(served[j]) => Got(served[j], records) = records[served[j].id]
    BY DEF Got
  <2>6. served[j].route = "get" => served[j].connector = Got(served[j], records)
    BY <2>3, <2>5 DEF ServedRight
  <2>7. served[j].route = "list" => served[j].connectors = records
    BY <2>3 DEF ServedRight
  <2> QED
    BY <2>2, <2>4, <2>6, <2>7 DEF HealthRight
<1>2. Init => OutcomeInv /\ CatalogInv
  BY OutcomeInit, CatalogInit
<1>3. OutcomeInv /\ CatalogInv /\ [Next]_vars => (OutcomeInv /\ CatalogInv)'
  BY OutcomeStep, CatalogStep
<1> QED
  BY <1>1, <1>2, <1>3, PTL DEF Spec
=============================================================================

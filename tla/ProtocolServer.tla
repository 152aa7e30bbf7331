--------------------------- MODULE ProtocolServer ----------------------------
(***************************************************************************)
(* The protocol server: the REST handler                                   *)
(* (packages/protocol-server/src/rest/router.ts), the MCP surface          *)
(* (packages/protocol-server/src/mcp/surface.ts) and the application they  *)
(* both call (packages/application/src/application.ts), which holds one    *)
(* connector catalog for as long as the server lives.                      *)
(*                                                                         *)
(* One event loop runs all requests: between two awaits a request is       *)
(* alone, and no timer fires (`busy`); but whoever edits the connector     *)
(* directories does so between any two reads of them.  The authenticator   *)
(* and the providers of policy, context, plans and evidence are ports      *)
(* (external): they settle when they like, or never.  A request is what    *)
(* the handler tells apart: its surface, method and route, its content     *)
(* type and body, whether the authorizer will allow it, and the id it      *)
(* names.  Its target is a URL.                                            *)
(***************************************************************************)
EXTENDS ConnectorCatalog

CONSTANTS
  Requests,
  Kinds,             \* what a request may be
  Nothing,           \* no request, no record, no answer
  ManifestsOf,       \* [Directories -> the manifest files that may be there]
  PortStatuses,      \* the statuses of the ProtocolErrors that ports may throw
  MaxEdits           \* bound: edits of the connector directories

(* The handler reads the body of no request but a POST, Nothing is not a   *)
(* request, and no port throws an error with the status of a success.      *)
ASSUME ProtocolServerAssumption ==
  /\ \A k \in Kinds : k.surface = "rest" /\ k.method # "POST" => k.body = "none"
  /\ Nothing \notin Requests
  /\ 200 \notin PortStatuses

VARIABLES
  disk,              \* [Directories -> manifest file]
  records,           \* the catalog's #records
  request,           \* [Requests -> its kind and how far it is]
  busy,              \* the request that has the event loop, or Nothing
  answers,           \* [Requests -> the statuses sent, in order]
  called,            \* the requests that had the application work for them
  served,            \* what the catalog operations returned, in order
  edits

vars == <<disk, records, request, busy, answers, called, served, edits>>

CatalogRoutes == {"list", "get", "connectorHealth"}
ProviderRoutes == {"policy", "context", "plans", "evidence"}
FixedRoutes == {"routes", "locks"}           \* answered NOT_IMPLEMENTED, with 200
GetRoutes == CatalogRoutes \cup {"health"}

(* toProtocolError, of what a port threw: a ProtocolError keeps its own    *)
(* status, anything else becomes an internal error.                        *)
PortFailures == PortStatuses \cup {500}

Kind(r) == request[r].kind
At(r, phase) == request[r].phase = phase
Idle == busy = Nothing

NoRecords == [d \in {} |-> Nothing]

Goto(r, phase) == request' = [request EXCEPT ![r].phase = phase]

(* Mutant of Sent: nobody asks whether the timer has answered.             *)
SentAgain(r, status) == answers' = [answers EXCEPT ![r] = Append(@, status)]

(* The operation of a request is over.  The race answers with it, unless   *)
(* the timer answered before; an MCP call returns it.                      *)
Sent(r, status) ==
  answers' = IF answers[r] = <<>> THEN [answers EXCEPT ![r] = <<status>>] ELSE answers

End(r, status) ==
  /\ request' = [request EXCEPT ![r].phase = "ended", ![r].found = NoRecords,
                                ![r].listed = Nothing, ![r].todo = <<>>]
  /\ busy' = Nothing
  /\ Sent(r, status)

(***************************************************************************)
(* The steps of a request before the application is called.                *)
(***************************************************************************)

(* createRestHandler, up to its first await: a GET it does not know is not *)
(* found; a known one goes to the authenticator; a POST of another content *)
(* type is refused by readBody, and another one waits for its body.        *)
ArriveRest(r, k) ==
  /\ At(r, "new") /\ Idle
  /\ k.surface = "rest"
  /\ LET next == IF k.method = "POST" THEN "body" ELSE "authenticating"
     IN \/ /\ k.method # "POST" /\ k.route \notin GetRoutes
           /\ request' = [request EXCEPT ![r].kind = k, ![r].phase = "ended"]
           /\ answers' = [answers EXCEPT ![r] = <<404>>]
        \/ /\ k.method = "POST" /\ k.body = "not json type"
           /\ request' = [request EXCEPT ![r].kind = k, ![r].phase = "ended"]
           /\ answers' = [answers EXCEPT ![r] = <<415>>]
        \/ /\ k.method = "POST" => k.body # "not json type"
           /\ k.method # "POST" => k.route \in GetRoutes
           /\ request' = [request EXCEPT ![r].kind = k, ![r].phase = next]
           /\ UNCHANGED answers
  /\ UNCHANGED <<disk, records, busy, called, served, edits>>

(* callTool: the version and the arguments are checked, and the tool is    *)
(* looked up; there is no authorization and no timeout.                    *)
ArriveMcp(r, k) ==
  /\ At(r, "new") /\ Idle
  /\ k.surface = "mcp"
  /\ IF k.body # "object"
       THEN /\ request' = [request EXCEPT ![r].kind = k, ![r].phase = "ended"]
            /\ answers' = [answers EXCEPT ![r] = <<400>>]
            /\ UNCHANGED busy
       ELSE /\ request' = [request EXCEPT ![r].kind = k, ![r].phase = "dispatch"]
            /\ busy' = r
            /\ UNCHANGED answers
  /\ UNCHANGED <<disk, records, called, served, edits>>

(* readBody: the body has come, and is too large, not JSON, or a value.    *)
BodyRead(r) ==
  /\ At(r, "body") /\ Idle
  /\ CASE Kind(r).body = "too large" -> End(r, 413)
       [] Kind(r).body = "malformed" -> End(r, 400)
       [] OTHER -> Goto(r, "authenticating") /\ UNCHANGED <<busy, answers>>
  /\ UNCHANGED <<disk, records, called, served, edits>>

(* The client goes away before its body has come.                          *)
BodyAborted(r) ==
  /\ At(r, "body") /\ Idle
  /\ End(r, 499)
  /\ UNCHANGED <<disk, records, called, served, edits>>

(* authorize: the authenticator settled, and the authorizer decides.       *)
Authorize(r) ==
  /\ At(r, "authenticating") /\ Idle
  /\ IF Kind(r).allowed
       THEN Goto(r, "dispatch") /\ busy' = r /\ UNCHANGED answers
       ELSE End(r, 403)
  /\ UNCHANGED <<disk, records, called, served, edits>>

(* The authenticator or the authorizer throws.                             *)
AuthenticatorFails(r) ==
  /\ At(r, "authenticating") /\ Idle
  /\ \E status \in PortFailures : End(r, status)
  /\ UNCHANGED <<disk, records, called, served, edits>>

(* Mutant of Timeout: the timer is started once the request is authorized. *)
TimeoutOfAuthorized(r) ==
  /\ Idle
  /\ At(r, "provider")
  /\ Kind(r).surface = "rest"
  /\ answers[r] = <<>>
  /\ answers' = [answers EXCEPT ![r] = <<504>>]
  /\ UNCHANGED <<disk, records, request, busy, called, served, edits>>

(* withTimeout: the timer answers, and the operation it raced goes on.     *)
Timeout(r) ==
  /\ Idle
  /\ request[r].phase \notin {"new", "ended"}
  /\ Kind(r).surface = "rest"
  /\ answers[r] = <<>>
  /\ answers' = [answers EXCEPT ![r] = <<504>>]
  /\ UNCHANGED <<disk, records, request, busy, called, served, edits>>

(***************************************************************************)
(* The application.                                                        *)
(***************************************************************************)

(* What ends at once: an unknown route or tool, the health check, the      *)
(* routes that are not implemented, and an id that is blank or, over REST, *)
(* cannot be decoded.                                                      *)
DispatchAtOnce(r) ==
  /\ At(r, "dispatch")
  /\ LET k == Kind(r)
     IN \/ k.route = "unknown" /\ End(r, 404)
        \/ k.route \in FixedRoutes \cup {"health"} /\ End(r, 200)
        \/ k.route \in {"get", "connectorHealth"} /\ k.id = "blank" /\ End(r, 400)
        \/ k.route \in {"get", "connectorHealth"} /\ k.id = "undecodable" /\ End(r, 500)
  /\ UNCHANGED <<disk, records, called, served, edits>>

(* inspectProject: over REST, a body that is no object and a path outside  *)
(* the allowed roots are refused first.  The inspector may throw.          *)
DispatchInspect(r) ==
  /\ At(r, "dispatch")
  /\ Kind(r).route = "inspect"
  /\ \/ Kind(r).body # "object" /\ End(r, 400) /\ UNCHANGED called
     \/ /\ Kind(r).body = "object"
        /\ Kind(r).surface = "rest" /\ ~Kind(r).rootAllowed
        /\ End(r, 403) /\ UNCHANGED called
     \/ /\ Kind(r).body = "object"
        /\ Kind(r).surface = "rest" => Kind(r).rootAllowed
        /\ called' = called \cup {r}
        /\ \E status \in {200} \cup PortFailures : End(r, status)
  /\ UNCHANGED <<disk, records, served, edits>>

(* resolvePolicy, selectContext, createPlan and getEvidence call their     *)
(* provider and wait for it.                                               *)
DispatchProvider(r) ==
  /\ At(r, "dispatch")
  /\ Kind(r).route \in ProviderRoutes
  /\ called' = called \cup {r}
  /\ Goto(r, "provider")
  /\ busy' = Nothing
  /\ UNCHANGED <<disk, records, answers, served, edits>>

ProviderSettles(r) ==
  /\ At(r, "provider") /\ Idle
  /\ \E status \in {200} \cup PortFailures : End(r, status)
  /\ UNCHANGED <<disk, records, called, served, edits>>

(***************************************************************************)
(* The catalog operations: CatalogService and FileSystemConnectorCatalog.  *)
(***************************************************************************)

(* The directories an operation asks #loadRecord for: list asks for all,   *)
(* get and health for the one of the given name if there is one, else for  *)
(* all.                                                                    *)
Named(k) == k.route # "list" /\ k.id \in Directories

Asked(k) == IF Named(k) THEN <<k.id>> ELSE DirectoryIds

DispatchCatalog(r) ==
  /\ At(r, "dispatch")
  /\ Kind(r).route \in CatalogRoutes
  /\ Kind(r).id \notin {"blank", "undecodable"}
  /\ called' = called \cup {r}
  /\ request' = [request EXCEPT ![r].phase = "reading", ![r].todo = Asked(Kind(r))]
  /\ UNCHANGED <<disk, records, busy, answers, served, edits>>

(* What an operation has found, with the record of one more directory.     *)
With(found, d, record) ==
  [e \in DOMAIN found \cup {d} |-> IF e = d THEN record ELSE found[e]]

(* #loadRecord for the next directory.  An unusable manifest throws, which *)
(* health catches; its search ends at the first directory that declares    *)
(* the id.                                                                 *)
LoadNext(r) ==
  /\ At(r, "reading")
  /\ request[r].todo # <<>>
  /\ LET d      == Head(request[r].todo)
         file   == disk[d]
         loads  == Loads(records, d, file)
         health == Kind(r).route = "connectorHealth"
         stops  == health /\ loads /\ IsV2(LoadRecord(records, d, file))
                          /\ LoadRecord(records, d, file).id = Kind(r).id
     IN /\ records' = KeepRecord(records, d, file)
        /\ \/ /\ ~loads /\ ~health
              /\ End(r, 500)
           \/ /\ loads \/ health
              /\ request' =
                   [request EXCEPT ![r].todo = IF stops THEN <<>> ELSE Tail(@),
                                   ![r].found = With(@, d, LoadRecord(records, d, file))]
              /\ UNCHANGED <<busy, answers>>
  /\ UNCHANGED <<disk, called, served, edits>>

HasRead(r, route) ==
  /\ At(r, "reading")
  /\ request[r].todo = <<>>
  /\ Kind(r).route = route

(* list and get refuse directories that declare one connector twice.       *)
RefuseDuplicates(r) ==
  /\ \/ HasRead(r, "list")
     \/ HasRead(r, "get") /\ ~Named(Kind(r))
  /\ ~UniqueConnectorIds(request[r].found)
  /\ End(r, 500)
  /\ UNCHANGED <<disk, records, called, served, edits>>

(* catalogList: the connectors are listed, and listed again for the        *)
(* snapshot.                                                               *)
ListAgain(r) ==
  /\ HasRead(r, "list")
  /\ UniqueConnectorIds(request[r].found)
  /\ request[r].listed = Nothing
  /\ request' = [request EXCEPT ![r].listed = request[r].found, ![r].found = NoRecords,
                                ![r].todo = DirectoryIds]
  /\ UNCHANGED <<disk, records, busy, answers, called, served, edits>>

ReturnList(r) ==
  /\ HasRead(r, "list")
  /\ UniqueConnectorIds(request[r].found)
  /\ request[r].listed # Nothing
  /\ served' = Append(served, [route |-> "list", id |-> Kind(r).id,
                              connectors |-> request[r].listed,
                              snapshot |-> SnapshotEntries(request[r].found)])
  /\ End(r, 200)
  /\ UNCHANGED <<disk, records, called, edits>>

(* The record a get answers with: of the directory of that name, else of   *)
(* the first that declares the id, else null.                              *)
Got(k, found) ==
  LET i == FirstDeclaring(found, k.id)
  IN CASE Named(k) -> found[k.id]
       [] ~Named(k) /\ i > 0 -> found[DirectoryIds[i]]
       [] OTHER -> Nothing

ReturnConnector(r) ==
  /\ HasRead(r, "get")
  /\ Named(Kind(r)) \/ UniqueConnectorIds(request[r].found)
  /\ served' = Append(served, [route |-> "get", id |-> Kind(r).id,
                              connector |-> Got(Kind(r), request[r].found)])
  /\ End(r, 200)
  /\ UNCHANGED <<disk, records, called, edits>>

(* health: the diagnosis of an unusable manifest, of no manifest, or of    *)
(* the record and of the files it names, which are looked up now.          *)
Diagnosis(record, filesPresent) ==
  CASE record = Nothing -> "missing"
    [] record # Nothing /\ record.kind \in Unusable -> record.kind
    [] OTHER -> HealthState(record, filesPresent)

ReturnHealth(r) ==
  /\ HasRead(r, "connectorHealth")
  /\ \E filesPresent \in BOOLEAN :
       served' = Append(served, [route |-> "connectorHealth", id |-> Kind(r).id,
                                 health |-> Diagnosis(Got(Kind(r), request[r].found),
                                                      filesPresent)])
  /\ End(r, 200)
  /\ UNCHANGED <<disk, records, called, edits>>

(* Someone edits a connector directory.                                    *)
EditManifest(d) ==
  /\ edits < MaxEdits
  /\ \E file \in ManifestsOf[d] \ {disk[d]} : disk' = [disk EXCEPT ![d] = file]
  /\ edits' = edits + 1
  /\ UNCHANGED <<records, request, busy, answers, called, served>>

Init ==
  /\ disk \in {f \in [Directories -> UNION {ManifestsOf[d] : d \in Directories}] :
                \A d \in Directories : f[d] \in ManifestsOf[d]}
  /\ records = NoRecords
  /\ request = [r \in Requests |-> [kind |-> Nothing, phase |-> "new", todo |-> <<>>,
                                    found |-> NoRecords, listed |-> Nothing]]
  /\ busy = Nothing
  /\ answers = [r \in Requests |-> <<>>]
  /\ called = {}
  /\ served = <<>>
  /\ edits = 0

(* What a request does once it has the event loop.                         *)
Runs(r) ==
  \/ DispatchAtOnce(r)
  \/ DispatchInspect(r)
  \/ DispatchProvider(r)
  \/ DispatchCatalog(r)
  \/ LoadNext(r)
  \/ RefuseDuplicates(r)
  \/ ListAgain(r)
  \/ ReturnList(r)
  \/ ReturnConnector(r)
  \/ ReturnHealth(r)

Next ==
  \/ \E r \in Requests :
       \/ \E k \in Kinds : ArriveRest(r, k) \/ ArriveMcp(r, k)
       \/ BodyRead(r)
       \/ BodyAborted(r)
       \/ Authorize(r)
       \/ AuthenticatorFails(r)
       \/ Timeout(r)
       \/ Runs(r)
       \/ ProviderSettles(r)
  \/ \E d \in Directories : EditManifest(d)

(* Code that has the event loop runs on, and an armed timer fires.  No     *)
(* port is fair: an authenticator or a provider may never settle, and a    *)
(* body may never come.                                                    *)
Fairness == \A r \in Requests : WF_vars(Runs(r)) /\ WF_vars(Timeout(r))

Spec == Init /\ [][Next]_vars /\ Fairness

(***************************************************************************)
(* Properties.                                                             *)
(***************************************************************************)

(* The requests an application works for: the others are answered without. *)
NeedsWork(k) == k.route \in CatalogRoutes \cup ProviderRoutes \cup {"inspect"}

(* A request is answered once, although its timer and its operation race.  *)
(* What the status tells: a refusal (4xx) of a status that no port throws, *)
(* that the application did nothing for the request, now or later, unlike  *)
(* a 500, a 504 or an error of a port, which may come before or after; a   *)
(* 200, that the application did what was asked for.  And nothing is done  *)
(* over REST for a request that was not allowed, or inspected outside the  *)
(* allowed roots.                                                          *)
AnswersTellOutcome ==
  \A r \in Requests :
    /\ Len(answers[r]) <= 1
    /\ \A i \in DOMAIN answers[r] :
         /\ answers[r][i] \in (400..499) \ PortStatuses => r \notin called
         /\ answers[r][i] = 200 /\ NeedsWork(Kind(r)) => r \in called
    /\ r \in called /\ Kind(r).surface = "rest" =>
         /\ Kind(r).allowed
         /\ Kind(r).route = "inspect" => Kind(r).rootAllowed
         /\ Kind(r).body \notin {"malformed", "too large", "not json type"}

(* Whoever edits the manifests meanwhile, a server's answers agree: the    *)
(* snapshot of a listing holds exactly the connectors listed with it,      *)
(* all listings are equal, and what get returns, before or after, and what *)
(* health finds after, are what was listed (#records in the catalog).      *)
AnswersAgree ==
  \A i, j \in DOMAIN served :
    served[i].route = "list" =>
      /\ served[i].snapshot = SnapshotEntries(served[i].connectors)
      /\ served[j].route = "list" => served[j].connectors = served[i].connectors
      /\ served[j].route = "get" =>
           served[j].connector = Got(served[j], served[i].connectors)
      /\ served[j].route = "connectorHealth" /\ i < j =>
           \E filesPresent \in BOOLEAN :
             served[j].health = Diagnosis(Got(served[j], served[i].connectors), filesPresent)

(* A REST request that has arrived is answered, even if its body never     *)
(* comes or the authenticator or its provider never settles: withTimeout   *)
(* races all of it.                                                        *)
EveryRequestAnswered ==
  \A r \in Requests :
    (request[r].phase # "new" /\ Kind(r).surface = "rest") ~> (answers[r] # <<>>)
=============================================================================

--------------------------- MODULE RequestTransport ---------------------------
(***************************************************************************)
(* One request of a browser on its way to a component and back: the client *)
(* adapters and the authenticated transport (src/application/internal/     *)
(* client.ts), the routes (paths.ts, routes.ts), the boundary that runs an *)
(* operation against a deadline (transport.ts, request-handler.ts) and the *)
(* failures both ends share (failures.ts, errors.ts).  An operation that   *)
(* was started runs on when its deadline passes, so its report and what it *)
(* did are kept apart.                                                     *)
(***************************************************************************)
EXTENDS Integers, Sequences, FiniteSets, TLC

CONSTANTS
    Calls,      \* requests of one browser
    Identifiers       \* identities a request can carry in its path

\* No identity is the word that stands before an operation's identity: entries
\* listed of a session of that name would ask for an operation named "entries".
ASSUME IdentifierAssumption == "operations" \notin Identifiers

VARIABLES
    call   \* each request, with its invocation

--------
(* Paths, routes and clients.                                              *)

Collection(rest) == <<"collection">> \o rest

\* A segment that starts with a colon is a parameter.
Template ==
    [catalogResolve |-> <<"catalog", "resolve">>, catalogQuery |-> <<"catalog", "query">>,
     catalogCardPrintings |-> <<"catalog", "cards", ":cardId", "printings">>,
     preservedCard |-> <<"card">>, search |-> <<"search">>,
     userCardsQuery |-> Collection(<<"query">>), userCardsFragments |-> Collection(<<"fragments">>),
     copies |-> Collection(<<"copies">>), copiesRead |-> Collection(<<"copies", "read">>),
     userCardsPhysicalDetail |-> Collection(<<"copies", ":copyId">>),
     copyCorrections |-> Collection(<<"copies", ":copyId", "corrections">>),
     copyLocation |-> Collection(<<"copies", ":copyId", "location">>),
     tags |-> Collection(<<"tags">>), tagsRead |-> Collection(<<"tags", "read">>),
     tagRename |-> Collection(<<"tags", ":tagId", "rename">>),
     tagAssociations |-> Collection(<<"tags", ":tagId", "associations">>),
     associations |-> Collection(<<"associations">>),
     associationsRead |-> Collection(<<"associations", "read">>),
     associationChanges |-> Collection(<<"associations", ":associationId", "changes">>),
     associationRemoval |-> Collection(<<"associations", ":associationId", "removal">>),
     imports |-> Collection(<<"imports">>), importSources |-> Collection(<<"imports", "sources">>),
     importOperation |-> Collection(<<"imports", "operations", ":operationId">>),
     importEntries |-> Collection(<<"imports", ":sessionId", "entries">>),
     importCaptures |-> Collection(<<"imports", ":sessionId", "captures">>),
     importDiscard |-> Collection(<<"imports", ":sessionId", "discard">>),
     importConfirmation |-> Collection(<<"imports", ":sessionId", "confirmation">>),
     importEntryReview |-> Collection(<<"imports", "entries", ":entryId", "review">>),
     importEntryCandidates |-> Collection(<<"imports", "entries", ":entryId", "candidates">>),
     importEntryDiscard |-> Collection(<<"imports", "entries", ":entryId", "discard">>)]

Parameters == {":cardId", ":copyId", ":tagId", ":associationId", ":operationId", ":sessionId",
               ":entryId"}

Public(operation, method, path) ==
    [operation |-> operation, method |-> method, path |-> Template[path], private |-> FALSE]
Private(operation, method, path) == [Public(operation, method, path) EXCEPT !.private = TRUE]

QueryRoutes ==
    <<Public("catalogResolve", "POST", "catalogResolve"),
      Public("listCardPrintings", "GET", "catalogCardPrintings"),
      Public("catalogQuery", "POST", "catalogQuery"),
      Private("query", "POST", "userCardsQuery"),
      Private("readFragments", "POST", "userCardsFragments"),
      Private("readPhysicalDetail", "GET", "userCardsPhysicalDetail"),
      Public("preservedCard", "GET", "preservedCard"), Public("preservedSearch", "GET", "search")>>

RecordRoutes ==
    <<Private("readCopies", "POST", "copiesRead"), Private("createCopies", "POST", "copies"),
      Private("correctCopy", "POST", "copyCorrections"),
      Private("setCopyLocation", "POST", "copyLocation"),
      Private("listTags", "GET", "tags"), Private("listAssociations", "GET", "tagAssociations"),
      Private("readTags", "POST", "tagsRead"), Private("createTag", "POST", "tags"),
      Private("renameTag", "POST", "tagRename"),
      Private("readAssociations", "POST", "associationsRead"),
      Private("createAssociation", "POST", "associations"),
      Private("changeAssociation", "POST", "associationChanges"),
      Private("removeAssociation", "POST", "associationRemoval")>>

ImportRoutes ==
    <<Private("listImportSessions", "GET", "imports"),
      Private("recoverImportOperation", "GET", "importOperation"),
      Private("stageSourceImport", "POST", "importSources"),
      Private("listImportEntries", "GET", "importEntries"),
      Private("stageImportEntries", "POST", "importEntries"),
      Private("stageCaptureObservation", "POST", "importCaptures"),
      Private("discardImportSession", "POST", "importDiscard"),
      Private("confirmImport", "POST", "importConfirmation"),
      Private("reviewImportEntry", "POST", "importEntryReview"),
      Private("attachImportCandidates", "POST", "importEntryCandidates"),
      Private("discardImportEntry", "POST", "importEntryDiscard")>>

\* In the order they are tried.
Routes == QueryRoutes \o RecordRoutes \o ImportRoutes

Posts(path) == [method |-> "POST", path |-> Template[path]]
Gets(path) == [method |-> "GET", path |-> Template[path]]

CatalogSends ==
    [catalogResolve |-> Posts("catalogResolve"), catalogQuery |-> Posts("catalogQuery"),
     listCardPrintings |-> Gets("catalogCardPrintings")]

RecordSends ==
    [query |-> Posts("userCardsQuery"), readFragments |-> Posts("userCardsFragments"),
     readPhysicalDetail |-> Gets("userCardsPhysicalDetail"), readCopies |-> Posts("copiesRead"),
     correctCopy |-> Posts("copyCorrections"), setCopyLocation |-> Posts("copyLocation"),
     listTags |-> Gets("tags"), readTags |-> Posts("tagsRead"), createTag |-> Posts("tags"),
     renameTag |-> Posts("tagRename"), listAssociations |-> Gets("tagAssociations"),
     readAssociations |-> Posts("associationsRead"), createAssociation |-> Posts("associations"),
     changeAssociation |-> Posts("associationChanges"),
     removeAssociation |-> Posts("associationRemoval")]

ImportSends ==
    [listImportSessions |-> Gets("imports"), listImportEntries |-> Gets("importEntries"),
     stageImportEntries |-> Posts("importEntries"), stageSourceImport |-> Posts("importSources"),
     stageCaptureObservation |-> Posts("importCaptures"),
     reviewImportEntry |-> Posts("importEntryReview"),
     attachImportCandidates |-> Posts("importEntryCandidates"),
     discardImportEntry |-> Posts("importEntryDiscard"),
     discardImportSession |-> Posts("importDiscard"),
     confirmImport |-> Posts("importConfirmation"),
     recoverImportOperation |-> Gets("importOperation")]

\* What each method of the clients sends.
Sends ==
    [op \in DOMAIN CatalogSends \cup DOMAIN RecordSends \cup DOMAIN ImportSends |->
        CASE op \in DOMAIN CatalogSends -> CatalogSends[op]
          [] op \in DOMAIN RecordSends -> RecordSends[op]
          [] OTHER -> ImportSends[op]]

Operations == DOMAIN Sends

Writes ==
    {"correctCopy", "setCopyLocation", "createTag", "renameTag", "createAssociation",
     "changeAssociation", "removeAssociation", "stageImportEntries", "stageSourceImport",
     "stageCaptureObservation", "reviewImportEntry", "attachImportCandidates",
     "discardImportEntry", "discardImportSession", "confirmImport"}

\* An identity is encoded, so that it stays one segment, and decoded again.
Expanded(template, name) ==
    [i \in DOMAIN template |-> IF template[i] \in Parameters THEN name ELSE template[i]]

Matches(template, path) ==
    /\ Len(template) = Len(path)
    /\ \A i \in DOMAIN path : template[i] \in Parameters \/ template[i] = path[i]

First(positions) == CHOOSE i \in positions : \A j \in positions : i <= j

\* The route a request reaches and the identity it reads, or why none is.
RouteOf(method, path) ==
    LET onPath == {i \in DOMAIN Routes : Matches(Routes[i].path, path)}
        fits == {i \in onPath : Routes[i].method = method}
    IN  IF onPath = {} THEN [kind |-> "route-not-found"]
        ELSE IF fits = {} THEN [kind |-> "method-not-allowed"]
        ELSE [kind |-> "matched", route |-> Routes[First(fits)]]

Carried(template, path) == {path[i] : i \in {j \in DOMAIN path : template[j] \in Parameters}}

--------
(* Failures.                                                               *)

Codes == {"invalid-request", "unsupported-query", "unauthorized", "not-found", "conflict",
          "stale-continuation", "busy", "cancelled", "unavailable", "timeout",
          "route-not-found", "method-not-allowed"}

\* Codes UserCards takes for proof that a change did not apply.
Definite == {"conflict", "invalid-request", "unsupported-query", "not-found", "unauthorized",
             "route-not-found", "method-not-allowed"}

\* What a component reports of work it refused or could not finish.
Reported == {"invalid-request", "not-found", "conflict", "stale-continuation", "unavailable"}

TransportStatus ==
    [c \in Codes |->
        CASE c \in {"invalid-request", "unsupported-query"} -> 400
          [] c = "unauthorized" -> 401
          [] c \in {"not-found", "route-not-found"} -> 404
          [] c = "method-not-allowed" -> 405
          [] c \in {"conflict", "stale-continuation"} -> 409
          [] c = "cancelled" -> 408
          [] c = "busy" -> 429
          [] c = "timeout" -> 504
          [] c = "unavailable" -> 503]

\* What a status says by itself, from a server that sends no code.
CodeOfStatus(status) ==
    CASE status = 400 -> "invalid-request"
      [] status \in {401, 403} -> "unauthorized"
      [] status = 404 -> "not-found"
      [] status = 405 -> "method-not-allowed"
      [] status = 409 -> "conflict"
      [] status = 429 -> "busy"
      [] OTHER -> IF status >= 500 THEN "unavailable" ELSE "invalid-request"

--------
(* Answers and how the clients read them.                                  *)

Shape(required, nullable, optional) ==
    [required |-> required, nullable |-> nullable, optional |-> optional]

RecordShapes ==
    [copy |-> Shape({"copyId", "printingId", "finish", "revision"}, {"condition"}, {}),
     tag |-> Shape({"tagId", "kind", "label", "system", "revision"}, {}, {}),
     association |-> Shape({"associationId", "tagId", "targetLevel", "targetId", "revision"}, {},
                           {"quantity"}),
     removal |-> Shape({"associationId"}, {}, {}), location |-> Shape({}, {"location"}, {})]

ImportShapes ==
    [session |-> Shape({"sessionId", "sourceKind", "sourceId", "state", "pendingEntries",
                        "confirmedEntries", "discardedEntries", "revision"}, {},
                       {"sourceReference"}),
     candidate |-> Shape({"printingId", "provider", "evidence"}, {}, {}),
     sourceLine |-> Shape({"declaredQuantity"}, {},
                          {"printingId", "name", "section", "set", "collectorNumber", "language",
                           "finish", "problem"}),
     entry |-> Shape({"entryId", "sessionId", "position", "state", "quantity", "candidates",
                      "revision"}, {"sourceLine"}, {"cardId", "printingId", "finish", "condition"}),
     last |-> Shape({}, {}, {"continuation"})]

OutcomeShapes ==
    [stage |-> Shape({"staged", "replayed"}, {}, {}), source |-> Shape({"rows", "staged"}, {}, {}),
     row |-> Shape({"position", "line", "outcome"}, {}, {"problem", "entryId", "sessionId"}),
     capture |-> Shape({"outcome", "replayed", "entry"}, {}, {}),
     receipt |-> Shape({"operationId", "sessionId", "sourceKind", "sourceId", "destination",
                        "copies", "associations"}, {}, {}),
     replay |-> Shape({"replayed"}, {}, {}), recovery |-> Shape({"outcome"}, {}, {})]

QueryShapes ==
    [private |-> Shape({"privateRevision"}, {}, {}), public |-> Shape({"revision"}, {}, {}),
     page |-> Shape({}, {"continuation"}, {}), found |-> Shape({"missing"}, {}, {}),
     counted |-> Shape({"entries", "totalCount"}, {}, {}),
     fragments |-> Shape({"fragments", "key"}, {}, {}),
     resolution |-> Shape({"cards", "printings", "missing"}, {}, {}),
     printings |-> Shape({"printings", "cardExists"}, {}, {})]

\* The fields a reader looks at: those it requires, those that may be null
\* and those that may be missing as well.
Shapes == RecordShapes @@ ImportShapes @@ OutcomeShapes @@ QueryShapes

Entry == {"entry", "candidate", "sourceLine"}
Receipt == {"receipt", "copy", "association"}

QueryReads ==
    [catalogResolve |-> {"public", "resolution"}, catalogQuery |-> {"public", "counted", "page"},
     listCardPrintings |-> {"public", "printings", "page"},
     query |-> {"private", "counted", "page"}, readFragments |-> {"private", "fragments", "found"},
     readPhysicalDetail |-> {"private", "copy", "association"}]

RecordReads ==
    [readCopies |-> {"private", "copy", "found"}, correctCopy |-> {"private", "copy"},
     setCopyLocation |-> {"private", "copy", "location", "association"},
     listTags |-> {"private", "tag", "page"}, readTags |-> {"private", "tag", "found"},
     createTag |-> {"private", "tag"}, renameTag |-> {"private", "tag"},
     listAssociations |-> {"private", "association", "page"},
     readAssociations |-> {"private", "association", "found"},
     createAssociation |-> {"private", "association"},
     changeAssociation |-> {"private", "association"}, removeAssociation |-> {"private", "removal"}]

ImportReplies ==
    [listImportSessions |-> {"private", "session", "last"},
     listImportEntries |-> {"private", "session", "last"} \cup Entry,
     stageImportEntries |-> {"private", "session", "stage"} \cup Entry,
     stageSourceImport |-> {"private", "session", "source", "row", "sourceLine"},
     stageCaptureObservation |-> {"private", "session", "capture"} \cup Entry,
     reviewImportEntry |-> {"private", "session"} \cup Entry,
     attachImportCandidates |-> {"private", "session"} \cup Entry,
     discardImportEntry |-> {"private", "session"} \cup Entry,
     discardImportSession |-> {"private", "session"},
     confirmImport |-> {"private", "replay"} \cup Receipt,
     recoverImportOperation |-> {"recovery"} \cup Receipt]

\* What makes up the answer of each operation.
Reads == QueryReads @@ RecordReads @@ ImportReplies

Whole == [in |-> "answer", field |-> "none", as |-> "value"]

\* An answer as the provider declares it, or with one field it does not have.
Answers(op) ==
    {Whole} \cup
    UNION {{[in |-> s, field |-> f, as |-> a] : a \in {"null", "missing", "other"},
              f \in Shapes[s].required \cup Shapes[s].nullable \cup Shapes[s].optional} :
           s \in Reads[op]}

\* One unreadable field makes the whole answer unreadable.
Readable(answer) ==
    \/ answer = Whole
    \/ answer.as = "null" /\ answer.field \in Shapes[answer.in].nullable
    \/ answer.as \in {"null", "missing"} /\ answer.field \in Shapes[answer.in].optional

--------
(* The request.                                                            *)

NoRun == [operation |-> "none", named |-> {}]
NoReply == [status |-> 0, code |-> "none"]

\* `over`: the session the request was opened in ended; `posted`: it can still
\* reach the server; `told`: what the component reported of its work; `reply`:
\* what the invocation answered; `got`: what the client received.
Unasked ==
    [at |-> "idle", op |-> "none", name |-> "none", over |-> FALSE, withdrawn |-> FALSE,
     posted |-> FALSE, server |-> "away", ran |-> NoRun, work |-> "none", told |-> "none",
     applied |-> FALSE, reply |-> NoReply, got |-> NoReply, answer |-> Whole,
     result |-> "none"]

TransportInit == call = [c \in Calls |-> Unasked]

Steps(c, x) == call' = [call EXCEPT ![c] = x]

Ended(x, result) == [x EXCEPT !.at = "ended", !.result = result]

PathOf(x) == Expanded(Sends[x.op].path, x.name)

Ask(c, op, name) ==
    /\ call[c].at = "idle"
    /\ (\A i \in DOMAIN Sends[op].path : Sends[op].path[i] \notin Parameters) <=> name = "none"
    /\ Steps(c, [Unasked EXCEPT !.at = "token", !.op = op, !.name = name])

\* The credential arrives: the session may have ended and the caller may have
\* gone meanwhile.
Credential(c, got) ==
    LET x == call[c]
    IN  /\ x.at = "token"
        /\ Steps(c, IF got = "unavailable" THEN Ended(x, "unavailable")
                    ELSE IF got = "absent" \/ x.over THEN Ended(x, "unauthorized")
                    ELSE IF x.withdrawn THEN Ended(x, "cancelled")
                    ELSE [x EXCEPT !.at = "sent", !.posted = TRUE])

SessionEnds(c) ==
    /\ call[c].at \in {"token", "sent", "reading"}
    /\ ~call[c].over
    /\ Steps(c, [call[c] EXCEPT !.over = TRUE])

\* The caller withdraws: a request on its way fails, its invocation does not.
Withdraw(c) ==
    LET x == call[c]
        gone == [x EXCEPT !.withdrawn = TRUE]
    IN  /\ x.at \in {"token", "sent", "reading"} /\ ~x.withdrawn
        /\ Steps(c, IF x.at = "sent" THEN Ended(gone, "cancelled") ELSE gone)

NetworkFails(c) ==
    /\ call[c].at = "sent"
    /\ Steps(c, Ended(call[c], "unavailable"))

\* What runs in front of the application answers by itself, without a code:
\* in place of the invocation, or while it goes on.
GatewayAnswers(c, status) ==
    LET x == call[c]
    IN  /\ x.at = "sent"
        /\ x.server # "away" => status >= 500
        /\ Steps(c, [x EXCEPT !.at = "reading", !.got = [status |-> status, code |-> "none"],
                              !.posted = FALSE])

Answered(x, reply) == [x EXCEPT !.server = "answered", !.reply = reply]

Fails(x, code) == Answered(x, [status |-> TransportStatus[code], code |-> code])

\* The invocation begins with its deadline: an unknown operation ends it.
Arrive(c) ==
    LET x == [call[c] EXCEPT !.posted = FALSE]
        found == RouteOf(Sends[x.op].method, PathOf(x))
    IN  /\ call[c].posted /\ call[c].server = "away"
        /\ Steps(c, IF found.kind # "matched" THEN Fails(x, found.kind)
                    ELSE [x EXCEPT !.server = "verifying",
                                   !.ran = [operation |-> found.route.operation,
                                            named |-> Carried(found.route.path, PathOf(x))]])

\* Work starts only while the invocation runs, and a private route only for
\* an account; evidence that cannot be verified is not an anonymous caller.
Verify(c, who) ==
    LET x == call[c]
        route == RouteOf(Sends[x.op].method, PathOf(x)).route
    IN  /\ x.server = "verifying"
        /\ Steps(c, CASE who = "unavailable" -> Fails(x, "unavailable")
                      [] who = "invalid" \/ (who = "anonymous" /\ route.private) ->
                           Fails(x, "unauthorized")
                      [] OTHER -> [x EXCEPT !.server = "working", !.work = "running"])

\* The component is done, in time or not.  A change whose commit answer was
\* lost is reported as unavailable; what it refused did not apply.
WorkEnds(c, told, applied) ==
    LET x == [call[c] EXCEPT !.work = "done", !.told = told, !.applied = applied]
    IN  /\ call[c].work = "running"
        /\ applied => x.op \in Writes /\ told \in {"ok", "unavailable"}
        /\ told = "ok" => (applied <=> x.op \in Writes)
        /\ Steps(c, IF x.server # "working" THEN x
                    ELSE IF told = "ok" THEN Answered(x, [status |-> 200, code |-> "none"])
                    ELSE Fails(x, told))

\* Slip: the report of an abandoned operation is that it failed.
AbandonedSlip(expired) == "conflict"

\* A deadline or a withdrawal wins over what the operation reports.
Abandoned(expired) == IF expired THEN "timeout" ELSE "cancelled"

Deadline(c, expired) ==
    LET x == call[c]
    IN  /\ x.server \in {"verifying", "working"}
        /\ ~expired => x.withdrawn
        /\ Steps(c, Fails(x, Abandoned(expired)))

Deliver(c, answer) ==
    LET x == call[c]
    IN  /\ x.at = "sent" /\ x.server = "answered"
        /\ x.reply.status # 200 => answer = Whole
        /\ Steps(c, [x EXCEPT !.at = "reading", !.got = x.reply, !.answer = answer])

\* The body is read, or cannot be.
ReadBody(c, text) ==
    LET x == call[c]
    IN  /\ x.at = "reading"
        /\ Steps(c, Ended(x,
              IF ~text THEN IF x.withdrawn THEN "cancelled" ELSE "unavailable"
              ELSE IF x.over THEN "unauthorized"
              ELSE IF x.got.status # 200
                THEN IF x.got.code \in Codes THEN x.got.code ELSE CodeOfStatus(x.got.status)
              ELSE IF Readable(x.answer) THEN "ok" ELSE "unavailable"))

TransportNext ==
    \E c \in Calls :
        \/ \E op \in Operations, name \in Identifiers \cup {"none"} : Ask(c, op, name)
        \/ \E got \in {"present", "absent", "unavailable"} : Credential(c, got)
        \/ SessionEnds(c) \/ Withdraw(c) \/ NetworkFails(c)
        \/ \E status \in {401, 403, 404, 408, 413, 429, 500, 502, 503, 504} :
              GatewayAnswers(c, status)
        \/ Arrive(c)
        \/ \E who \in {"account", "anonymous", "invalid", "unavailable"} : Verify(c, who)
        \/ \E told \in {"ok"} \cup Reported, applied \in BOOLEAN : WorkEnds(c, told, applied)
        \/ \E expired \in BOOLEAN : Deadline(c, expired)
        \/ call[c].at = "sent" /\ \E answer \in Answers(call[c].op) : Deliver(c, answer)
        \/ \E text \in BOOLEAN : ReadBody(c, text)

TransportSpec == TransportInit /\ [][TransportNext]_call

--------
(* Properties.                                                             *)

\* What runs is what was asked for, for the identity it was asked for.
RunsWhatWasAsked(x) ==
    x.ran # NoRun => x.ran.operation = x.op /\ x.ran.named \subseteq {x.name}

\* A refusal UserCards takes as proof: nothing applied, nothing still runs and
\* nothing can arrive later, unless the session ended, whose operations the
\* account boundary has released.
RefusedIsUndone(x) ==
    x.result \in Definite /\ ~x.over =>
        ~x.applied /\ x.work # "running" /\ ~x.posted

\* An answer is handed over whole, of work that was done, in the session that
\* asked for it; a component's refusal is not taken for another one.
AnsweredAsDone(x) ==
    /\ x.result = "ok" => x.told = "ok" /\ (x.applied <=> x.op \in Writes) /\ ~x.over
    /\ x.result \notin {"none", "cancelled", "unavailable", "timeout"} /\ ~x.over
         /\ x.work = "done" => x.result = x.told

\* What a caller is told of its request is true of it, however it was
\* interrupted (client.ts createAuthenticatedRequest, readFailure, request-handler.ts
\* classifyFailure, transport.ts raceDeadline, resolveRoute).
ReportedAsItWas ==
    \A c \in Calls :
        RunsWhatWasAsked(call[c]) /\ RefusedIsUndone(call[c]) /\ AnsweredAsDone(call[c])
=============================================================================

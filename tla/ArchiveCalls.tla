---------------------------- MODULE ArchiveCalls ----------------------------
(***************************************************************************)
(* The calls of the archive drivers that a publish is made of, request by  *)
(* request: InvenioRDM, Figshare and Dataverse (internal/backend), over    *)
(* the retrying client (internal/httpx) and against servers that behave as *)
(* the repository's fakes do (internal/testutil).  A reply may get lost on *)
(* its way back, a request may never arrive, and the process may die       *)
(* between any two of them; a lost reply shows as a gateway error, which   *)
(* the client answers by repeating the request where it can.               *)
(*                                                                         *)
(* One process works on one dataset.  A file has two parts and all         *)
(* contents have one size.  Metadata, DOIs and downloads are left out, and *)
(* polling once more is a stutter.                                         *)
(***************************************************************************)
EXTENDS Integers, Sequences, FiniteSets

CONSTANTS
    Kinds,            \* subset of {"invenio", "figshare", "dataverse"}
    Keys, Contents,
    MaxVersions, MaxFaults, MaxEdits, MaxDeaths

ASSUME KindsAssumption == Kinds \subseteq {"invenio", "figshare", "dataverse"}
ASSUME BoundsAssumption == {MaxVersions, MaxFaults, MaxEdits, MaxDeaths} \subseteq Nat

VARIABLES
    kind,
    offers,   \* invenio: takes multipart uploads; reports an MD5 at their end
    server,   \* the record: versions, draft, and whether one is being released
    local,    \* the content of each file in this directory
    client,   \* the driver's call under way, or how the last one ended
    faults, edits, deaths

vars == <<kind, offers, server, local, client, faults, edits, deaths>>

Whole(c) == << <<c, 1>>, <<c, 2>> >>

NoRecord == [versions |-> << >>, open |-> FALSE, files |-> {}, releasing |-> FALSE]
Fresh == [draft |-> 0, known |-> FALSE, wish |-> {}, op |-> "none", key |-> "none",
          pc |-> "idle", result |-> "none", sum |-> "none", multi |-> FALSE,
          body |-> "none", part |-> 0, n |-> 0, prior |-> 0, goal |-> {}]

At(pc) == client.pc = pc
Idle == At("idle")
Goes(pc) == [client EXCEPT !.pc = pc]
Ends(result) ==
    [client EXCEPT !.pc = "idle", !.result = result, !.body = "none", !.part = 0, !.n = 0,
                   !.wish = IF result = "ok" /\ client.op = "replace" THEN {} ELSE @]

Init ==
    /\ kind \in Kinds
    /\ offers \in IF kind = "invenio" THEN SUBSET {"multi", "md5"} ELSE {{}}
    /\ server = NoRecord
    /\ local \in [Keys -> Contents]
    /\ client = Fresh
    /\ faults = 0 /\ edits = 0 /\ deaths = 0

-----------------------------------------------------------------------------
(* The server's side of each request: the status it answers and the record *)
(* it leaves.  Draft is what the draft holds, or on Dataverse would hold   *)
(* if a mutation opened it now.                                            *)

Ok(s) == [status |-> "ok", server |-> s]
No(status) == [status |-> status, server |-> server]
Found(there) == IF there THEN Ok(server) ELSE No("notfound")

Latest == server.versions[Len(server.versions)]
Exists == server.open \/ server.versions # << >>

(* An InvenioRDM draft becomes a version of its own and is then gone. *)
DraftOpen == server.open /\ (kind = "invenio" => client.draft = Len(server.versions) + 1)

Draft == IF server.open THEN server.files
         ELSE IF kind = "dataverse" /\ server.versions # << >> THEN Latest ELSE {}

EntriesOf(key) == {f \in Draft : f.key = key}
HasComplete(key) == \E f \in EntriesOf(key) : f.n = 0 /\ f.done
Has(key) == \E f \in EntriesOf(key) : f.n = 0
Entry(data, done) == [key |-> client.key, n |-> 0, data |-> data, done |-> done]

With(data, done) ==
    {IF f.key = client.key THEN Entry(data, done) ELSE f : f \in server.files}
Data == (CHOOSE f \in server.files : f.key = client.key).data

CreateReply == Ok([NoRecord EXCEPT !.open = TRUE])

NewVersionReply ==
    IF ~Exists THEN No("notfound")
    ELSE IF kind = "invenio" /\ ~server.open
    THEN Ok([server EXCEPT !.open = TRUE, !.files = {}])
    ELSE Ok(server)

(* A draft holds a name once. *)
RegisterReply(multi) ==
    IF ~DraftOpen THEN No("notfound")
    ELSE IF EntriesOf(client.key) # {} THEN No("rejected")
    ELSE IF multi /\ "multi" \notin offers THEN No("unsupported")
    ELSE Ok([server EXCEPT !.files = @ \union {Entry(<< >>, FALSE)}])

Stored(data, done) ==
    IF DraftOpen /\ EntriesOf(client.key) # {}
    THEN Ok([server EXCEPT !.files = With(data, done)]) ELSE No("notfound")

PartReply ==
    IF DraftOpen /\ EntriesOf(client.key) # {}
    THEN Stored(Append(Data, <<local[client.key], client.part>>), FALSE) ELSE No("notfound")

CommitReply ==
    IF ~DraftOpen \/ EntriesOf(client.key) = {} THEN No("notfound")
    ELSE IF Len(Data) < 2 THEN No("rejected")
    ELSE Stored(Data, TRUE)

CompleteReply ==
    IF EntriesOf(client.key) = {} THEN No("notfound")
    ELSE IF Data # Whole(client.sum) THEN No("rejected")
    ELSE Stored(Data, TRUE)

(* Dataverse renames what would be there twice. *)
Spare(key) == CHOOSE n \in 0..Cardinality(EntriesOf(key)) :
                  /\ \A f \in EntriesOf(key) : f.n # n
                  /\ \A m \in 0..(n - 1) : \E f \in EntriesOf(key) : f.n = m

AddReply ==
    IF ~Exists THEN No("notfound")
    ELSE IF server.releasing THEN No("failed")
    ELSE Ok([server EXCEPT !.open = TRUE,
                 !.files = Draft \union {[Entry(Whole(client.body), TRUE) EXCEPT
                                             !.n = Spare(client.key)]}])

(* While a release is being finalized every change is refused. *)
DeleteReply(n) ==
    LET hit == {f \in EntriesOf(client.key) : f.n = n}
    IN  IF server.releasing THEN No("failed")
        ELSE IF hit = {} \/ (kind = "invenio" /\ ~DraftOpen) THEN No("notfound")
        ELSE Ok([server EXCEPT !.open = TRUE, !.files = Draft \ hit])

ImportReply ==
    IF ~DraftOpen THEN No("notfound")
    ELSE IF server.files # {} \/ server.versions = << >> THEN No("rejected")
    ELSE Ok([server EXCEPT !.files = Latest])

Incomplete == \E f \in server.files : ~f.done
Released(s) == [s EXCEPT !.versions = Append(@, s.files), !.open = FALSE, !.files = {},
                         !.releasing = FALSE]

InvenioPublishReply ==
    IF ~DraftOpen THEN No("notfound")
    ELSE IF Incomplete THEN No("rejected")
    ELSE Ok(Released(server))

FigsharePublishReply ==
    IF ~server.open THEN No("notfound")
    ELSE IF Incomplete \/ server.files = {} THEN No("rejected")
    ELSE Ok([server EXCEPT !.versions = Append(@, server.files)])

ReleaseReply ==
    IF server.releasing THEN No("failed")
    ELSE IF ~server.open THEN No("rejected")
    ELSE Ok([server EXCEPT !.releasing = TRUE])

DiscardReply ==
    IF ~DraftOpen /\ (kind = "invenio" \/ ~Exists) THEN No("notfound")
    ELSE IF kind # "invenio" /\ server.versions # << >> THEN No("failed")
    ELSE IF server.releasing THEN No("failed")
    ELSE Ok([server EXCEPT !.open = FALSE, !.files = {}])

-----------------------------------------------------------------------------
(* RetryClient.Do.  A request that fails at the gateway may have been      *)
(* served; it is sent again unless its body was a stream.  InvenioRDM's    *)
(* publish is repeated only when told that it was not served.              *)

Streams == client.pc \in {"content", "part"}
Only429 == kind = "invenio" /\ At("publish")

GatewayError(reply) ==
    faults < MaxFaults /\ faults' = faults + 1 /\ server' \in {server, reply.server}
Repeated == ~Streams /\ (Only429 => server' = server) /\ UNCHANGED client

Asks(reply, Then(_)) ==
    /\ \/ server' = reply.server /\ client' = Then(reply.status) /\ UNCHANGED faults
       \/ GatewayError(reply) /\ (client' = Then("failed") \/ Repeated)
    /\ UNCHANGED <<kind, offers, local, edits, deaths>>

-----------------------------------------------------------------------------
(* Opening a draft: CreateDraft, NewVersion. *)

Opened(st) ==
    IF st # "ok" THEN Ends(st)
    ELSE [Ends("ok") EXCEPT !.draft =
              IF kind = "invenio" /\ At("newversion") THEN Len(server.versions) + 1 ELSE 1]

Create == At("create") /\ Asks(CreateReply, Opened)
NewVersion == At("newversion") /\ Asks(NewVersionReply, Opened)

-----------------------------------------------------------------------------
(* DeleteDraftFile.  Figshare and Dataverse look the file up first;        *)
(* Dataverse reads the latest published version when no draft is open, and *)
(* takes the file for absent when that fails.  A replacement goes on to    *)
(* the upload when the file is gone.                                       *)

UploadStart ==
    CASE kind = "dataverse" -> "unlock"
      [] kind = "figshare" -> "find"
      [] kind = "invenio" -> IF client.multi THEN "multi" ELSE "register"
DeleteStart == IF kind = "invenio" THEN "delete" ELSE "seek"

Deleted(st) ==
    IF client.op = "replace" /\ st \in {"ok", "notfound"} THEN Goes(UploadStart) ELSE Ends(st)

Sought(st) ==
    CASE st = "ok" -> IF Has(client.key) THEN Goes("delete") ELSE Deleted("notfound")
      [] kind = "dataverse" /\ st = "notfound" -> Goes("seek published")
      [] OTHER -> Deleted(st)

Seek == At("seek") /\ Asks(Found(server.open), Sought)
SeekPublished ==
    /\ At("seek published")
    /\ Asks(Found(server.versions # << >>), LAMBDA st :
           IF st = "ok" /\ Has(client.key) THEN Goes("delete") ELSE Deleted("notfound"))
Delete == At("delete") /\ Asks(DeleteReply(0), Deleted)

-----------------------------------------------------------------------------
(* UploadFile, InvenioRDM: register, send, commit, compare.  An instance   *)
(* that does not know multipart gets the file in one piece; a multipart    *)
(* upload that fails once registered is taken back.                        *)

Unverified == client.multi /\ "md5" \notin offers
VerifiedOrMultipart(data) == client.multi \/ data = Whole(client.sum)
Verified(data) == Unverified \/ data = Whole(client.sum)

TakenBack(st) == IF client.multi THEN Goes("abort") ELSE Ends(st)

RegisterMultipart ==
    /\ At("multi")
    /\ Asks(RegisterReply(TRUE), LAMBDA st :
           CASE st = "ok" -> [Goes("part") EXCEPT !.part = 1]
             [] st = "unsupported" -> [Goes("register") EXCEPT !.multi = FALSE]
             [] OTHER -> Ends(st))

Register ==
    /\ At("register")
    /\ Asks(RegisterReply(FALSE), LAMBDA st : IF st = "ok" THEN Goes("content") ELSE Ends(st))

PutContent ==
    /\ At("content")
    /\ Asks(Stored(Whole(local[client.key]), FALSE),
            LAMBDA st : IF st = "ok" THEN Goes("commit") ELSE Ends(st))

Commit ==
    /\ At("commit")
    /\ Asks(CommitReply, LAMBDA st :
           CASE st = "ok" /\ Verified(Data) -> Ends("ok")
             [] st = "ok" /\ ~Verified(Data) -> TakenBack("failed")
             [] OTHER -> TakenBack(st))

Abort == At("abort") /\ Asks(DeleteReply(0), LAMBDA st : Ends("failed"))

-----------------------------------------------------------------------------
(* UploadFile, Figshare: replace an entry of the same name, announce the   *)
(* file with its MD5, send the parts, complete, compare.  When the lookup  *)
(* fails the upload is tried all the same.                                 *)

FindFigshare ==
    /\ At("find") /\ kind = "figshare"
    /\ Asks(Found(server.open), LAMBDA st :
           IF st = "ok" /\ Has(client.key) THEN Goes("drop") ELSE Goes("initiate"))

Adding == [Goes("add") EXCEPT !.body = local[client.key]]
Drop ==
    /\ At("drop")
    /\ Asks(DeleteReply(0), LAMBDA st :
           CASE st # "ok" -> Ends(st)
             [] st = "ok" /\ kind = "figshare" -> Goes("initiate")
             [] OTHER -> Adding)

Initiate ==
    /\ At("initiate")
    /\ Asks(RegisterReply(FALSE), LAMBDA st : IF st = "ok" THEN Goes("info") ELSE Ends(st))

UploadInfo ==
    /\ At("info")
    /\ Asks(Found(EntriesOf(client.key) # {}), LAMBDA st :
           IF st = "ok" THEN [Goes("part") EXCEPT !.part = 1] ELSE Ends(st))

(* putPart, of both *)
PutPart ==
    /\ At("part")
    /\ Asks(PartReply, LAMBDA st :
           CASE st # "ok" -> TakenBack(st)
             [] st = "ok" /\ client.part < 2 -> [client EXCEPT !.part = @ + 1]
             [] OTHER -> Goes(IF kind = "invenio" THEN "commit" ELSE "complete"))

Complete ==
    /\ At("complete")
    /\ Asks(CompleteReply, LAMBDA st : IF st = "ok" THEN Goes("final") ELSE Ends(st))

Final ==
    /\ At("final")
    /\ Asks(Found(EntriesOf(client.key) # {}), LAMBDA st :
           IF st = "ok" /\ ~Verified(Data) THEN Ends("failed") ELSE Ends(st))

-----------------------------------------------------------------------------
(* UploadFile, Dataverse: wait for the locks, replace an entry of the same *)
(* name, add, and take back what came out renamed or different (which is   *)
(* one request; that it is looked up once more is left out).  Neither a    *)
(* draft nor a version to look in is no reason not to add.                 *)

Unlock ==
    /\ At("unlock")
    /\ Asks(Found(Exists), LAMBDA st :
           CASE st # "ok" -> Ends(st)
             [] st = "ok" /\ server.releasing -> Ends("failed")
             [] OTHER -> Goes(IF client.op = "publish" THEN "before" ELSE "find"))

FoundDataverse(st) == IF st = "ok" /\ Has(client.key) THEN Goes("drop") ELSE Adding

FindDataverse ==
    /\ At("find") /\ kind = "dataverse"
    /\ Asks(Found(server.open), LAMBDA st :
           CASE st = "ok" -> FoundDataverse(st)
             [] st = "notfound" -> Goes("find published")
             [] OTHER -> Ends(st))

FindPublished ==
    At("find published") /\ Asks(Found(server.versions # << >>), FoundDataverse)

AddedOnly(st) ==
    CASE st # "ok" -> Ends(st)
      [] st = "ok" /\ (Spare(client.key) # 0 \/ client.body # client.sum) -> Ends("failed")
      [] OTHER -> Ends("ok")
Added(st) ==
    CASE st # "ok" -> Ends(st)
      [] st = "ok" /\ (Spare(client.key) # 0 \/ client.body # client.sum) ->
             [Goes("undo") EXCEPT !.n = Spare(client.key)]
      [] OTHER -> Ends("ok")

Add == At("add") /\ Asks(AddReply, Added)
Undo == At("undo") /\ Asks(DeleteReply(client.n), LAMBDA st : Ends("failed"))

-----------------------------------------------------------------------------
(* ImportPreviousFiles, which only InvenioRDM needs; and Discard. *)

ImportPreviousFiles == At("import") /\ Asks(ImportReply, Ends)
Discard ==
    /\ At("discard")
    /\ Asks(DiscardReply, LAMBDA st :
           IF st = "ok" THEN [Ends(st) EXCEPT !.draft = 0] ELSE Ends(st))

-----------------------------------------------------------------------------
(* Publish.  A refusal on validation ends it; anything else but success is *)
(* settled by reading the record back.                                     *)

Published == [Ends("ok") EXCEPT !.known = TRUE, !.draft = 0]

PublishInvenio ==
    /\ At("publish") /\ kind = "invenio"
    /\ Asks(InvenioPublishReply, LAMBDA st :
           CASE st = "ok" -> Published
             [] st = "rejected" -> Ends(st)
             [] OTHER -> Goes("reconcile"))

ReconcileReply == Found(Len(server.versions) >= client.draft)

Reconcile ==
    /\ At("reconcile")
    /\ Asks(ReconcileReply, LAMBDA st : IF st = "ok" THEN Published ELSE Ends("failed"))

PublishFigshare ==
    /\ At("publish") /\ kind = "figshare"
    /\ Asks(FigsharePublishReply, LAMBDA st :
           IF st = "rejected" THEN Ends(st) ELSE Goes("read"))

ReadPublic ==
    /\ At("read")
    /\ Asks(Found(server.versions # << >>), LAMBDA st : IF st = "ok" THEN Published ELSE Ends("failed"))

(* Dataverse releases in its own time: the published version has to show.  *)
CountBefore ==
    /\ At("before")
    /\ Asks(Found(Exists), LAMBDA st :
           IF st = "ok" THEN [Goes("release") EXCEPT !.n = Len(server.versions)] ELSE Ends(st))

Release ==
    /\ At("release")
    /\ Asks(ReleaseReply, LAMBDA st : IF st = "rejected" THEN Ends(st) ELSE Goes("poll"))

AnyVersion(st) == st = "ok" /\ server.versions # << >>
Grown(st) == st = "ok" /\ Len(server.versions) > client.n

Poll ==
    /\ At("poll")
    /\ Asks(Found(Exists), LAMBDA st : IF Grown(st) THEN Published ELSE Ends("failed"))

Finalize ==
    /\ server.releasing /\ server' = Released(server)
    /\ UNCHANGED <<kind, offers, local, client, faults, edits, deaths>>

-----------------------------------------------------------------------------
(* The process that calls: a publish, or one that is run again until a     *)
(* file is up.  The checksum is taken before anything is sent.             *)

AlreadyOut == kind = "invenio" /\ client.draft \in DOMAIN server.versions

Calls(op, key, pc, multi, wish) ==
    /\ Idle
    /\ client' = [Fresh EXCEPT
           !.draft = client.draft, !.known = client.known, !.wish = wish,
           !.op = op, !.key = key, !.pc = pc, !.multi = multi,
           !.sum = IF op \in {"upload", "replace"} THEN local[key] ELSE "none",
           !.prior = Len(server.versions),
           !.goal = CASE op # "publish" -> {}
                      [] op = "publish" /\ AlreadyOut -> Latest
                      [] OTHER -> Draft]
    /\ UNCHANGED <<kind, offers, server, local, faults, edits, deaths>>

Call(op, pc) == client.draft # 0 /\ client.wish = {} /\ Calls(op, "none", pc, FALSE, {})

Open == Calls("open", "none", IF client.known THEN "newversion" ELSE "create", FALSE, client.wish)
Big == IF kind = "invenio" THEN BOOLEAN ELSE {FALSE}

OpenFirst == client.draft = 0 /\ client.wish = {} /\ Open
CallUpload ==
    /\ client.draft # 0 /\ client.wish = {}
    /\ \E key \in Keys, multi \in Big :
           Calls("upload", key, IF kind = "invenio" /\ multi THEN "multi"
                                ELSE IF kind = "invenio" THEN "register" ELSE UploadStart, multi, {})
CallDelete == client.draft # 0 /\ client.wish = {}
                 /\ \E key \in Keys : Calls("delete", key, DeleteStart, FALSE, {})
CallImport == kind = "invenio" /\ Call("import", "import")
CallDiscard == Call("discard", "discard")
CallPublish ==
    /\ Len(server.versions) < MaxVersions
    /\ Call("publish", IF kind = "dataverse" THEN "unlock" ELSE "publish")

Insist ==
    /\ client.draft # 0 /\ client.wish = {}
    /\ \E key \in Keys, multi \in Big : Calls("replace", key, DeleteStart, multi, {key})
Retry ==
    /\ client.wish # {}
    /\ IF client.op = "open" /\ client.result = "ok"
       THEN \E key \in client.wish, multi \in Big :
                Calls("replace", key, DeleteStart, multi, client.wish)
       ELSE Open

Edit ==
    /\ edits < MaxEdits /\ edits' = edits + 1
    /\ \E key \in Keys, c \in Contents : c # local[key] /\ local' = [local EXCEPT ![key] = c]
    /\ UNCHANGED <<kind, offers, server, client, faults, deaths>>

Death ==
    /\ ~Idle /\ deaths < MaxDeaths /\ deaths' = deaths + 1
    /\ client' = [Fresh EXCEPT !.known = client.known, !.wish = client.wish]
    /\ UNCHANGED <<kind, offers, server, local, faults, edits>>

Request ==
    \/ Create \/ NewVersion \/ Seek \/ SeekPublished \/ Delete
    \/ RegisterMultipart \/ Register \/ PutContent \/ Commit \/ Abort
    \/ FindFigshare \/ Drop \/ Initiate \/ UploadInfo \/ PutPart \/ Complete \/ Final
    \/ Unlock \/ FindDataverse \/ FindPublished \/ Add \/ Undo
    \/ ImportPreviousFiles \/ Discard
    \/ PublishInvenio \/ Reconcile \/ PublishFigshare \/ ReadPublic
    \/ CountBefore \/ Release \/ Poll

Begin ==
    \/ OpenFirst \/ CallUpload \/ CallDelete \/ CallImport \/ CallDiscard \/ CallPublish \/ Insist

Next == Request \/ Begin \/ Retry \/ Finalize \/ Edit \/ Death
Spec == Init /\ [][Next]_vars

(* A call goes on, a failed publish is run again, a release gets final. *)
FairSpec == Spec /\ WF_vars(Request) /\ WF_vars(Retry) /\ WF_vars(Finalize)

-----------------------------------------------------------------------------
(* Properties.                                                             *)

Uploads == {"upload", "replace"}
Ended(op, result) == Idle /\ client.op \in op /\ client.result = result

(* backend.Backend's UploadFile: when it reports success the draft holds   *)
(* the file under its own name, complete, with the bytes that were hashed, *)
(* whatever was lost, repeated or edited on the way.  Only a multipart     *)
(* upload the instance reports no MD5 of may differ, if the file was       *)
(* edited meanwhile.                                                       *)
UploadDelivers ==
    Ended(Uploads, "ok") =>
        \E f \in EntriesOf(client.key) :
            /\ f.n = 0 /\ f.done
            /\ f.data = Whole(client.sum) \/ (Unverified /\ edits > 0)

(* backend.go:125-127 a NotFoundError tells that the file is not there     *)
(* "from transport failure": what a delete reports absent is absent.       *)
AbsenceIsReal == Ended({"delete"}, "notfound") => ~Has(client.key)

(* invenio/client.go:656-659, dataverse/client.go:587-591: what a call      *)
(* reports is so, though replies were lost, requests repeated and the      *)
(* release took its time.  A publish that succeeded made the newest        *)
(* version, of exactly the draft it was called on; one refused on          *)
(* validation made none; what a delete did not find is not there.  (A      *)
(* Figshare publish may be repeated and make two, a Dataverse release that *)
(* is repeated is refused, and Dataverse's lookup hides its failures.)     *)
ReportsTrue ==
    /\ Ended({"publish"}, "ok") /\ kind # "figshare" => server.versions # << >> /\ Latest = client.goal
    /\ Ended({"publish"}, "rejected") /\ kind # "dataverse" => Len(server.versions) = client.prior
    /\ kind # "dataverse" => AbsenceIsReal

(* dataverse/client.go:453-457, 504-509: a renamed upload would be         *)
(* published under the wrong key.  One failure or death is not enough to   *)
(* leave one behind.                                                       *)
NoStrangers ==
    Idle /\ faults + deaths <= 1 =>
        \A f \in UNION ({Draft} \union {server.versions[i] : i \in DOMAIN server.versions}) : f.n = 0

(* A file whose upload keeps being run again after failures and deaths     *)
(* gets there (figshare/client.go:301-303 "idempotent across crashed       *)
(* runs", publish.go:294-304): no leftover entry blocks it for good.       *)
UploadsEnd == client.wish # {} ~> client.wish = {}
=============================================================================

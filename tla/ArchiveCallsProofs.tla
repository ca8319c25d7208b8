------------------------- MODULE ArchiveCallsProofs -------------------------
(***************************************************************************)
(* What the archive drivers' calls keep, for any files, contents, lost     *)
(* replies, edits and deaths: proofs about ArchiveCalls.                   *)
(*                                                                         *)
(* Every request is first shown to have one of a few effects on the record *)
(* (Effects) and to move its call in one of a few ways (Waits, Going,      *)
(* Fails, Ending, ...), each with the fields it changes; what the caller   *)
(* does, the server's release, an edit and a death have forms of their     *)
(* own.  The invariants are then proved of the forms:                      *)
(*   Shape       records with their fields, numbers and a history          *)
(*   Placed      which request belongs to which call and which archive     *)
(*   Settled     whose draft is being released                             *)
(*   Sending     what an upload has sent so far        (UploadDelivers)    *)
(*   Current     whose draft is open                   (ReportsTrue)       *)
(*   Publishing  what a publish has done to its draft  (ReportsTrue)       *)
(*   Strangers   which entries are renamed ones        (NoStrangers)       *)
(***************************************************************************)
EXTENDS ArchiveCalls, FiniteSetTheorems, SequenceTheorems, TLAPS

Fields == {"draft", "known", "wish", "op", "key", "pc", "result", "sum", "multi", "body",
           "part", "n", "prior", "goal"}
IsSequence(s) == \E S : s \in Seq(S)

(* Records with their fields, numbers and a history. *)
Shape ==
    /\ kind \in {"invenio", "figshare", "dataverse"}
    /\ DOMAIN client = Fields /\ client.draft \in Nat
    /\ DOMAIN server = {"versions", "open", "files", "releasing"}
    /\ IsSequence(server.versions)
    /\ server.open \in BOOLEAN /\ server.releasing \in BOOLEAN
    /\ faults \in Nat /\ edits \in Nat /\ deaths \in Nat

-----------------------------------------------------------------------------
(* The ways a call's record and the archive's move.                        *)

Core ==
    /\ DOMAIN client' = Fields
    /\ client'.op = client.op /\ client'.key = client.key /\ client'.sum = client.sum
    /\ client'.prior = client.prior /\ client'.goal = client.goal
Same == client'.draft = client.draft /\ client'.known = client.known /\ client'.multi = client.multi
Going(pc) ==
    /\ Core /\ Same /\ client'.pc = pc /\ client'.result = client.result
    /\ client'.wish = client.wish
Ending(result, draft, known) ==
    /\ Core /\ client'.pc = "idle" /\ client'.result = result
    /\ client'.draft = draft /\ client'.known = known /\ client'.multi = client.multi
    /\ client'.wish = IF result = "ok" /\ client.op = "replace" THEN {} ELSE client.wish
Fails(result) == result # "ok" /\ Ending(result, client.draft, client.known)
Succeeds == Ending("ok", client.draft, client.known)
Waits == client' = client /\ faults' = faults + 1

Serves(versions, open, files, releasing) ==
    /\ DOMAIN server' = {"versions", "open", "files", "releasing"}
    /\ server'.versions = versions /\ server'.open = open
    /\ server'.files = files /\ server'.releasing = releasing
Holds(files) == Serves(server.versions, server.open, files, server.releasing)

Frame ==
    /\ UNCHANGED <<kind, offers, local, edits, deaths>>
    /\ faults' = faults \/ faults' = faults + 1
Looks == Frame /\ server' = server

LEMMA GoesIs ==
    ASSUME Shape, NEW p, client' = Goes(p)
    PROVE  /\ Going(p) /\ client'.part = client.part /\ client'.n = client.n
           /\ client'.body = client.body
BY DEF Goes, Shape, Fields, Going, Core, Same

LEMMA EndsIs ==
    ASSUME Shape, NEW r, client' = Ends(r)
    PROVE  Ending(r, client.draft, client.known)
BY DEF Ends, Shape, Fields, Ending, Core

LEMMA PublishedIs ==
    ASSUME Shape, client' = Published
    PROVE  Ending("ok", 0, TRUE)
BY DEF Published, Ends, Shape, Fields, Ending, Core

-----------------------------------------------------------------------------
(* What each request does.                                                 *)

LEMMA OpenedIs ==
    ASSUME Shape, NEW st, client' = Opened(st)
    PROVE  \/ Fails(st)
           \/ /\ st = "ok"
              /\ Ending("ok", IF kind = "invenio" /\ At("newversion")
                              THEN Len(server.versions) + 1 ELSE 1, client.known)
<1>1. CASE st = "ok"
  BY <1>1 DEF Opened, Ends, Shape, Fields, Ending, Core
<1>2. CASE st # "ok"
  <2>1. client' = Ends(st)
    BY <1>2 DEF Opened
  <2> QED BY <1>2, <2>1, EndsIs DEF Fails
<1> QED BY <1>1, <1>2

Remakes == Serves(<< >>, TRUE, {}, FALSE)

LEMMA CreateIs ==
    ASSUME Shape, Create
    PROVE  /\ At("create") /\ Frame
           /\ server' = server \/ Remakes
           /\ \/ Waits
              \/ Fails("failed")
              \/ Remakes /\ Ending("ok", 1, client.known)
<1>1. /\ At("create") /\ Frame
      /\ server' \in {server, CreateReply.server}
      /\ \/ Waits
         \/ client' = Opened("failed")
         \/ server' = CreateReply.server /\ client' = Opened(CreateReply.status)
  BY DEF Create, Asks, GatewayError, Repeated, Frame, Waits
<1>2. CreateReply.status = "ok" /\ (server' = CreateReply.server => Remakes)
  BY DEF CreateReply, Ok, NoRecord, Remakes, Serves
<1>3. ~At("newversion")
  BY <1>1 DEF At
<1> QED BY <1>1, <1>2, <1>3, OpenedIs DEF Fails

Drafts == Serves(server.versions, TRUE, {}, server.releasing)

LEMMA NewVersionIs ==
    ASSUME Shape, NewVersion
    PROVE  /\ At("newversion") /\ Frame
           /\ server' = server \/ (kind = "invenio" /\ ~server.open /\ Drafts)
           /\ \/ Waits
              \/ \E r : Fails(r)
              \/ /\ kind = "invenio" => server'.open
                 /\ Ending("ok", IF kind = "invenio" THEN Len(server.versions) + 1 ELSE 1,
                           client.known)
<1>1. /\ At("newversion") /\ Frame
      /\ server' \in {server, NewVersionReply.server}
      /\ \/ Waits
         \/ client' = Opened("failed")
         \/ server' = NewVersionReply.server /\ client' = Opened(NewVersionReply.status)
  BY DEF NewVersion, Asks, GatewayError, Repeated, Frame, Waits
<1>2. \/ /\ NewVersionReply.server = server
         /\ NewVersionReply.status = "ok" /\ kind = "invenio" => server.open
      \/ /\ kind = "invenio" /\ ~server.open
         /\ NewVersionReply.server = [server EXCEPT !.open = TRUE, !.files = {}]
  BY DEF NewVersionReply, Ok, No, Shape
<1>3. server' = [server EXCEPT !.open = TRUE, !.files = {}] => Drafts
  BY DEF Drafts, Serves, Shape
<1> QED BY <1>1, <1>2, <1>3, OpenedIs DEF Fails, Drafts, Serves

Deletes(st) ==
    \/ client.op = "replace" /\ st \in {"ok", "notfound"} /\ Going(UploadStart)
    \/ client.op = "replace" /\ st \notin {"ok", "notfound"} /\ Fails(st)
    \/ client.op # "replace" /\ Ending(st, client.draft, client.known)

LEMMA DeletedIs ==
    ASSUME Shape, NEW st, client' = Deleted(st)
    PROVE  Deletes(st)
<1>1. CASE client.op = "replace" /\ st \in {"ok", "notfound"}
  <2>1. client' = Goes(UploadStart)
    BY <1>1 DEF Deleted
  <2> QED BY <1>1, <2>1, GoesIs DEF Deletes
<1>2. CASE ~(client.op = "replace" /\ st \in {"ok", "notfound"})
  <2>1. client' = Ends(st)
    BY <1>2 DEF Deleted
  <2> QED BY <1>2, <2>1, EndsIs DEF Deletes, Fails
<1> QED BY <1>1, <1>2

LEMMA SeekIs ==
    ASSUME Shape, Seek
    PROVE  /\ At("seek") /\ Looks
           /\ \/ Waits
              \/ Going("delete")
              \/ kind = "dataverse" /\ Going("seek published")
              \/ Deletes("failed")
              \/ Deletes("notfound") /\ (kind # "dataverse" => ~Has(client.key))
<1>1. /\ At("seek") /\ Looks
      /\ \/ Waits
         \/ client' = Sought("failed")
         \/ client' = Sought(Found(server.open).status)
  BY DEF Seek, Asks, GatewayError, Repeated, Frame, Looks, Waits, Found, Ok, No
<1>2. Sought("failed") = Deleted("failed")
  BY DEF Sought
<1>3. CASE client' = Sought("ok")
  <2>1. client' = IF Has(client.key) THEN Goes("delete") ELSE Deleted("notfound")
    BY <1>3 DEF Sought
  <2> QED BY <1>1, <2>1, GoesIs, DeletedIs
<1>4. CASE client' = Sought("notfound") /\ ~server.open
  <2>1. client' = IF kind = "dataverse" THEN Goes("seek published") ELSE Deleted("notfound")
    BY <1>4 DEF Sought
  <2>2. kind # "dataverse" => ~Has(client.key)
    BY <1>4 DEF Has, EntriesOf, Draft
  <2> QED BY <1>1, <2>1, <2>2, GoesIs, DeletedIs
<1>5. \/ server.open /\ Found(server.open).status = "ok"
      \/ ~server.open /\ Found(server.open).status = "notfound"
  BY DEF Found, Ok, No
<1> QED BY <1>1, <1>2, <1>3, <1>4, <1>5, DeletedIs

LEMMA SeekPublishedIs ==
    ASSUME Shape, SeekPublished
    PROVE  /\ At("seek published") /\ Looks
           /\ Waits \/ Going("delete") \/ Deletes("notfound")
<1>1. /\ At("seek published") /\ Looks
      /\ Waits \/ client' \in {Goes("delete"), Deleted("notfound")}
  BY DEF SeekPublished, Asks, GatewayError, Repeated, Frame, Looks, Waits, Found, Ok, No
<1> QED BY <1>1, GoesIs, DeletedIs

Hit(n) == {f \in EntriesOf(client.key) : f.n = n}
Removes(n) ==
    /\ ~server.releasing /\ Hit(n) # {} /\ (kind = "invenio" => DraftOpen)
    /\ Serves(server.versions, TRUE, Draft \ Hit(n), server.releasing)

LEMMA DeleteReplyIs ==
    ASSUME Shape, NEW n
    PROVE  /\ server' = DeleteReply(n).server => server' = server \/ Removes(n)
           /\ \/ /\ DeleteReply(n).status = "failed" /\ server.releasing
                 /\ DeleteReply(n).server = server
              \/ /\ DeleteReply(n).status = "notfound" /\ DeleteReply(n).server = server
                 /\ Hit(n) = {} \/ (kind = "invenio" /\ ~DraftOpen)
              \/ DeleteReply(n).status = "ok" /\ (server' = DeleteReply(n).server => Removes(n))
<1>1. CASE server.releasing \/ Hit(n) = {} \/ (kind = "invenio" /\ ~DraftOpen)
  BY <1>1 DEF DeleteReply, Hit, No
<1>2. CASE ~(server.releasing \/ Hit(n) = {} \/ (kind = "invenio" /\ ~DraftOpen))
  <2>1. DeleteReply(n) = Ok([server EXCEPT !.open = TRUE, !.files = Draft \ Hit(n)])
    BY <1>2 DEF DeleteReply, Hit
  <2>2. DeleteReply(n).status = "ok"
    BY <2>1 DEF Ok
  <2>3. ASSUME server' = DeleteReply(n).server PROVE Removes(n)
    <3>1. server' = [server EXCEPT !.open = TRUE, !.files = Draft \ Hit(n)]
      BY <2>1, <2>3 DEF Ok
    <3> QED BY <1>2, <3>1 DEF Removes, Serves, Shape
  <2> QED BY <2>2, <2>3
<1> QED BY <1>1, <1>2

LEMMA DeleteIs ==
    ASSUME Shape, Delete
    PROVE  /\ At("delete") /\ Frame
           /\ server' = server \/ Removes(0)
           /\ \/ Waits
              \/ Deletes("failed")
              \/ Deletes("ok")
              \/ /\ Deletes("notfound") /\ server' = server
                 /\ Hit(0) = {} \/ (kind = "invenio" /\ ~DraftOpen)
<1>1. /\ At("delete") /\ Frame
      /\ server' \in {server, DeleteReply(0).server}
      /\ \/ Waits
         \/ client' = Deleted("failed")
         \/ server' = DeleteReply(0).server /\ client' = Deleted(DeleteReply(0).status)
  BY DEF Delete, Asks, GatewayError, Repeated, Frame, Waits
<1> QED BY <1>1, DeleteReplyIs, DeletedIs

LEMMA AbortIs ==
    ASSUME Shape, Abort
    PROVE  /\ At("abort") /\ Frame
           /\ server' = server \/ Removes(0)
           /\ Waits \/ Fails("failed")
<1>1. /\ At("abort") /\ Frame
      /\ server' \in {server, DeleteReply(0).server}
      /\ Waits \/ client' = Ends("failed")
  BY DEF Abort, Asks, GatewayError, Repeated, Frame, Waits
<1> QED BY <1>1, DeleteReplyIs, EndsIs DEF Fails

(* The entry is registered, and the draft holds nothing else of its name. *)
Registers ==
    /\ DraftOpen /\ EntriesOf(client.key) = {}
    /\ Holds(server.files \union {Entry(<< >>, FALSE)})

(* Every entry of the name becomes this one. *)
Stores(data, done) ==
    /\ DraftOpen /\ EntriesOf(client.key) # {}
    /\ Holds(With(data, done))

PartOf(n) == Going("part") /\ client'.part = n

LEMMA RegisterReplyIs ==
    ASSUME Shape, NEW multi
    PROVE  \/ RegisterReply(multi).status # "ok" /\ RegisterReply(multi).server = server
           \/ /\ RegisterReply(multi).status = "ok"
              /\ server' = RegisterReply(multi).server => Registers
<1>1. CASE ~DraftOpen \/ EntriesOf(client.key) # {} \/ (multi /\ "multi" \notin offers)
  BY <1>1 DEF RegisterReply, No
<1>2. CASE ~(~DraftOpen \/ EntriesOf(client.key) # {} \/ (multi /\ "multi" \notin offers))
  <2>1. RegisterReply(multi) =
           Ok([server EXCEPT !.files = server.files \union {Entry(<< >>, FALSE)}])
    BY <1>2 DEF RegisterReply
  <2>2. RegisterReply(multi).status = "ok"
    BY <2>1 DEF Ok
  <2>3. ASSUME server' = RegisterReply(multi).server PROVE Registers
    <3>1. server' = [server EXCEPT !.files = server.files \union {Entry(<< >>, FALSE)}]
      BY <2>1, <2>3 DEF Ok
    <3> QED BY <1>2, <3>1 DEF Registers, Holds, Serves, Shape
  <2> QED BY <2>2, <2>3
<1> QED BY <1>1, <1>2

LEMMA StoredIs ==
    ASSUME Shape, NEW data, NEW done
    PROVE  \/ Stored(data, done).status = "notfound" /\ Stored(data, done).server = server
           \/ /\ Stored(data, done).status = "ok"
              /\ server' = Stored(data, done).server => Stores(data, done)
<1>1. CASE ~(DraftOpen /\ EntriesOf(client.key) # {})
  BY <1>1 DEF Stored, No
<1>2. CASE DraftOpen /\ EntriesOf(client.key) # {}
  <2>1. Stored(data, done) = Ok([server EXCEPT !.files = With(data, done)])
    BY <1>2 DEF Stored
  <2>2. Stored(data, done).status = "ok"
    BY <2>1 DEF Ok
  <2>3. ASSUME server' = Stored(data, done).server PROVE Stores(data, done)
    <3>1. server' = [server EXCEPT !.files = With(data, done)]
      BY <2>1, <2>3 DEF Ok
    <3> QED BY <1>2, <3>1 DEF Stores, Holds, Serves, Shape
  <2> QED BY <2>2, <2>3
<1> QED BY <1>1, <1>2

LEMMA PartIs ==
    ASSUME Shape, NEW n, client' = [Goes("part") EXCEPT !.part = n]
    PROVE  PartOf(n)
BY DEF Goes, Shape, Fields, Going, Core, Same, PartOf

(* An instance that knows no multipart gets the file in one piece. *)
OnePiece ==
    /\ Core /\ client'.pc = "register" /\ client'.multi = FALSE
    /\ client'.draft = client.draft /\ client'.known = client.known
    /\ client'.result = client.result /\ client'.wish = client.wish

LEMMA RegisterMultipartIs ==
    ASSUME Shape, RegisterMultipart
    PROVE  /\ At("multi") /\ Frame
           /\ server' = server \/ Registers
           /\ \/ Waits
              \/ \E r : Fails(r)
              \/ OnePiece
              \/ Registers /\ PartOf(1)
<1> DEFINE Then(st) == CASE st = "ok" -> [Goes("part") EXCEPT !.part = 1]
                         [] st = "unsupported" -> [Goes("register") EXCEPT !.multi = FALSE]
                         [] OTHER -> Ends(st)
<1>1. /\ At("multi") /\ Frame
      /\ server' \in {server, RegisterReply(TRUE).server}
      /\ \/ Waits
         \/ client' = Then("failed")
         \/ server' = RegisterReply(TRUE).server /\ client' = Then(RegisterReply(TRUE).status)
  BY DEF RegisterMultipart, Asks, GatewayError, Repeated, Frame, Waits
<1>2. ASSUME NEW st, client' = Then(st), st # "ok" PROVE (\E r : Fails(r)) \/ OnePiece
  <2>1. CASE st = "unsupported"
    <3>1. client' = [Goes("register") EXCEPT !.multi = FALSE]
      BY <1>2, <2>1
    <3> QED BY <3>1 DEF Goes, Shape, Fields, Core, OnePiece
  <2>2. CASE st # "unsupported"
    <3>1. client' = Ends(st)
      BY <1>2, <2>2
    <3> QED BY <1>2, <3>1, EndsIs DEF Fails
  <2> QED BY <2>1, <2>2
<1>3. client' = Then("ok") => PartOf(1)
  BY PartIs
<1> HIDE DEF Then
<1> QED BY <1>1, <1>2, <1>3, RegisterReplyIs

LEMMA RegisterIs ==
    ASSUME Shape, Register
    PROVE  /\ At("register") /\ Frame
           /\ server' = server \/ Registers
           /\ Waits \/ (\E r : Fails(r)) \/ Going("content")
<1>1. /\ At("register") /\ Frame
      /\ server' \in {server, RegisterReply(FALSE).server}
      /\ Waits \/ client' = Goes("content") \/ (\E r : r # "ok" /\ client' = Ends(r))
  BY DEF Register, Asks, GatewayError, Repeated, Frame, Waits
<1> QED BY <1>1, RegisterReplyIs, EndsIs, GoesIs DEF Fails

LEMMA InitiateIs ==
    ASSUME Shape, Initiate
    PROVE  /\ At("initiate") /\ Frame
           /\ server' = server \/ Registers
           /\ Waits \/ (\E r : Fails(r)) \/ Going("info")
<1>1. /\ At("initiate") /\ Frame
      /\ server' \in {server, RegisterReply(FALSE).server}
      /\ Waits \/ client' = Goes("info") \/ (\E r : r # "ok" /\ client' = Ends(r))
  BY DEF Initiate, Asks, GatewayError, Repeated, Frame, Waits
<1> QED BY <1>1, RegisterReplyIs, EndsIs, GoesIs DEF Fails

LEMMA PutContentIs ==
    ASSUME Shape, PutContent
    PROVE  /\ At("content") /\ Frame
           /\ server' = server \/ Stores(Whole(local[client.key]), FALSE)
           /\ (\E r : Fails(r)) \/ Going("commit")
<1> DEFINE data == Whole(local[client.key])
<1>1. /\ At("content") /\ Frame
      /\ server' \in {server, Stored(data, FALSE).server}
      /\ client' = Goes("commit") \/ (\E r : r # "ok" /\ client' = Ends(r))
  BY DEF PutContent, Asks, GatewayError, Repeated, Streams, At, Frame
<1> HIDE DEF data
<1>2. server' = server \/ Stores(data, FALSE)
  BY <1>1, StoredIs
<1>3. (\E r : Fails(r)) \/ Going("commit")
  BY <1>1, EndsIs, GoesIs DEF Fails
<1> QED BY <1>1, <1>2, <1>3 DEF data

LEMMA CommitIs ==
    ASSUME Shape, Commit
    PROVE  /\ At("commit") /\ Frame
           /\ server' = server \/ Stores(Data, TRUE)
           /\ \/ Waits
              \/ \E r : Fails(r)
              \/ client.multi /\ Going("abort")
              \/ Stores(Data, TRUE) /\ Verified(Data) /\ Succeeds
<1> DEFINE Then(st) == CASE st = "ok" /\ Verified(Data) -> Ends("ok")
                         [] st = "ok" /\ ~Verified(Data) -> TakenBack("failed")
                         [] OTHER -> TakenBack(st)
<1>1. /\ At("commit") /\ Frame
      /\ server' \in {server, CommitReply.server}
      /\ \/ Waits
         \/ client' = Then("failed")
         \/ server' = CommitReply.server /\ client' = Then(CommitReply.status)
  BY DEF Commit, Asks, GatewayError, Repeated, Frame, Waits
<1>2. \/ CommitReply.status # "ok" /\ CommitReply.server = server
      \/ CommitReply.status = "ok" /\ (server' = CommitReply.server => Stores(Data, TRUE))
  <2>1. CASE ~DraftOpen \/ EntriesOf(client.key) = {} \/ Len(Data) < 2
    BY <2>1 DEF CommitReply, No
  <2>2. CASE ~(~DraftOpen \/ EntriesOf(client.key) = {} \/ Len(Data) < 2)
    <3>1. CommitReply = Stored(Data, TRUE)
      BY <2>2 DEF CommitReply
    <3> QED BY <3>1, StoredIs
  <2> QED BY <2>1, <2>2
<1>3. ASSUME NEW st, client' = TakenBack(st), st # "ok"
      PROVE  (\E r : Fails(r)) \/ (client.multi /\ Going("abort"))
  <2>1. CASE client.multi
    <3>1. client' = Goes("abort")
      BY <1>3, <2>1 DEF TakenBack
    <3> QED BY <2>1, <3>1, GoesIs
  <2>2. CASE ~client.multi
    <3>1. client' = Ends(st)
      BY <1>3, <2>2 DEF TakenBack
    <3> QED BY <1>3, <3>1, EndsIs DEF Fails
  <2> QED BY <2>1, <2>2
<1>4. ASSUME NEW st, client' = Then(st)
      PROVE  \/ \E x : client' = TakenBack(x) /\ x # "ok"
             \/ st = "ok" /\ Verified(Data) /\ Succeeds
  <2>1. CASE st = "ok" /\ Verified(Data)
    BY <1>4, <2>1, EndsIs DEF Succeeds
  <2>2. CASE st = "ok" /\ ~Verified(Data)
    BY <1>4, <2>2
  <2>3. CASE st # "ok"
    BY <1>4, <2>3
  <2> QED BY <2>1, <2>2, <2>3
<1> HIDE DEF Then
<1> QED BY <1>1, <1>2, <1>3, <1>4

LEMMA FindFigshareIs ==
    ASSUME Shape, FindFigshare
    PROVE  /\ At("find") /\ kind = "figshare" /\ Looks
           /\ Waits \/ Going("drop") \/ Going("initiate")
<1>1. /\ At("find") /\ kind = "figshare" /\ Looks
      /\ Waits \/ client' \in {Goes("drop"), Goes("initiate")}
  BY DEF FindFigshare, Asks, GatewayError, Repeated, Frame, Looks, Waits, Found, Ok, No
<1> QED BY <1>1, GoesIs

Starts ==
    /\ Core /\ Same /\ client'.pc = "add"
    /\ client'.wish = client.wish /\ client'.result = client.result

LEMMA AddingIs ==
    ASSUME Shape, client' = Adding
    PROVE  Starts
BY DEF Adding, Goes, Shape, Fields, Core, Same, Starts

LEMMA DropIs ==
    ASSUME Shape, Drop
    PROVE  /\ At("drop") /\ Frame
           /\ server' = server \/ Removes(0)
           /\ \/ Waits
              \/ \E r : Fails(r)
              \/ kind = "figshare" /\ Going("initiate")
              \/ kind # "figshare" /\ Removes(0) /\ Starts
<1> DEFINE Then(st) == CASE st # "ok" -> Ends(st)
                         [] st = "ok" /\ kind = "figshare" -> Goes("initiate")
                         [] OTHER -> Adding
<1>1. /\ At("drop") /\ Frame
      /\ server' \in {server, DeleteReply(0).server}
      /\ \/ Waits
         \/ client' = Then("failed")
         \/ server' = DeleteReply(0).server /\ client' = Then(DeleteReply(0).status)
  BY DEF Drop, Asks, GatewayError, Repeated, Frame, Waits
<1>2. ASSUME NEW st, client' = Then(st), st # "ok" PROVE \E r : Fails(r)
  <2>1. client' = Ends(st)
    BY <1>2
  <2> QED BY <1>2, <2>1, EndsIs DEF Fails
<1>3. ASSUME client' = Then("ok")
      PROVE  IF kind = "figshare" THEN Going("initiate") ELSE Starts
  <2>1. client' = IF kind = "figshare" THEN Goes("initiate") ELSE Adding
    BY <1>3
  <2> QED BY <2>1, GoesIs, AddingIs
<1> HIDE DEF Then
<1> QED BY <1>1, <1>2, <1>3, DeleteReplyIs

LEMMA FoundIs ==
    ASSUME NEW there
    PROVE  /\ Found(there).server = server
           /\ there => Found(there).status = "ok"
           /\ ~there => Found(there).status = "notfound"
BY DEF Found, Ok, No

LEMMA UploadInfoIs ==
    ASSUME Shape, UploadInfo
    PROVE  /\ At("info") /\ Looks
           /\ Waits \/ (\E r : Fails(r)) \/ PartOf(1)
<1>1. /\ At("info") /\ Looks
      /\ \/ Waits
         \/ client' = [Goes("part") EXCEPT !.part = 1]
         \/ \E r : r # "ok" /\ client' = Ends(r)
  BY DEF UploadInfo, Asks, GatewayError, Repeated, Frame, Looks, Waits, Found, Ok, No
<1> QED BY <1>1, PartIs, EndsIs DEF Fails

StoresPart == Stores(Append(Data, <<local[client.key], client.part>>), FALSE)

LEMMA PutPartIs ==
    ASSUME Shape, PutPart
    PROVE  /\ At("part") /\ Frame
           /\ server' = server \/ StoresPart
           /\ \/ \E r : Fails(r)
              \/ client.multi /\ Going("abort")
              \/ StoresPart /\ client.part < 2 /\ PartOf(client.part + 1)
              \/ /\ StoresPart /\ ~(client.part < 2)
                 /\ Going(IF kind = "invenio" THEN "commit" ELSE "complete")
<1> DEFINE Then(st) == CASE st # "ok" -> TakenBack(st)
                         [] st = "ok" /\ client.part < 2 -> [client EXCEPT !.part = @ + 1]
                         [] OTHER -> Goes(IF kind = "invenio" THEN "commit" ELSE "complete")
<1>1. /\ At("part") /\ Frame
      /\ server' \in {server, PartReply.server}
      /\ \/ client' = Then("failed")
         \/ server' = PartReply.server /\ client' = Then(PartReply.status)
  BY DEF PutPart, Asks, GatewayError, Repeated, Streams, At, Frame
<1>2. \/ PartReply.status # "ok" /\ PartReply.server = server
      \/ PartReply.status = "ok" /\ (server' = PartReply.server => StoresPart)
  <2>1. CASE DraftOpen /\ EntriesOf(client.key) # {}
    <3>1. PartReply = Stored(Append(Data, <<local[client.key], client.part>>), FALSE)
      BY <2>1 DEF PartReply
    <3> QED BY <3>1, StoredIs DEF StoresPart
  <2>2. CASE ~(DraftOpen /\ EntriesOf(client.key) # {})
    BY <2>2 DEF PartReply, No
  <2> QED BY <2>1, <2>2
<1>3. ASSUME NEW st, client' = Then(st), st # "ok"
      PROVE  (\E r : Fails(r)) \/ (client.multi /\ Going("abort"))
  <2>1. client' = IF client.multi THEN Goes("abort") ELSE Ends(st)
    BY <1>3 DEF TakenBack
  <2> QED BY <1>3, <2>1, GoesIs, EndsIs DEF Fails
<1>4. ASSUME client' = Then("ok"), client.part < 2
      PROVE  PartOf(client.part + 1)
  <2>1. client' = [client EXCEPT !.part = client.part + 1]
    BY <1>4
  <2> QED BY <2>1, <1>1 DEF At, Shape, Fields, Going, Core, Same, PartOf
<1>5. ASSUME client' = Then("ok"), ~(client.part < 2)
      PROVE  Going(IF kind = "invenio" THEN "commit" ELSE "complete")
  <2>1. client' = Goes(IF kind = "invenio" THEN "commit" ELSE "complete")
    BY <1>5
  <2> QED BY <2>1, GoesIs
<1> HIDE DEF Then
<1> QED BY <1>1, <1>2, <1>3, <1>4, <1>5

LEMMA CompleteIs ==
    ASSUME Shape, Complete
    PROVE  /\ At("complete") /\ Frame
           /\ server' = server \/ (Data = Whole(client.sum) /\ Stores(Data, TRUE))
           /\ \/ Waits
              \/ \E r : Fails(r)
              \/ Data = Whole(client.sum) /\ Stores(Data, TRUE) /\ Going("final")
<1>1. /\ At("complete") /\ Frame
      /\ server' \in {server, CompleteReply.server}
      /\ \/ Waits
         \/ \E r : r # "ok" /\ client' = Ends(r)
         \/ server' = CompleteReply.server /\ CompleteReply.status = "ok" /\ client' = Goes("final")
  BY DEF Complete, Asks, GatewayError, Repeated, Frame, Waits
<1>2. \/ CompleteReply.status # "ok" /\ CompleteReply.server = server
      \/ /\ Data = Whole(client.sum)
         /\ server' = CompleteReply.server => server' = server \/ Stores(Data, TRUE)
         /\ (server' = CompleteReply.server /\ CompleteReply.status = "ok" => Stores(Data, TRUE))
  <2>1. CASE EntriesOf(client.key) = {} \/ Data # Whole(client.sum)
    BY <2>1 DEF CompleteReply, No
  <2>2. CASE ~(EntriesOf(client.key) = {} \/ Data # Whole(client.sum))
    <3>1. CompleteReply = Stored(Data, TRUE)
      BY <2>2 DEF CompleteReply
    <3> QED BY <2>2, <3>1, StoredIs
  <2> QED BY <2>1, <2>2
<1> QED BY <1>1, <1>2, EndsIs, GoesIs DEF Fails

LEMMA FinalIs ==
    ASSUME Shape, Final
    PROVE  /\ At("final") /\ Looks
           /\ Waits \/ (\E r : Fails(r)) \/ Succeeds
<1>1. /\ At("final") /\ Looks
      /\ Waits \/ (\E r : client' = Ends(r))
  BY DEF Final, Asks, GatewayError, Repeated, Frame, Looks, Waits, Found, Ok, No
<1> QED BY <1>1, EndsIs DEF Fails, Succeeds

LEMMA UnlockIs ==
    ASSUME Shape, Unlock
    PROVE  /\ At("unlock") /\ Looks
           /\ \/ Waits
              \/ \E r : Fails(r)
              \/ /\ Exists /\ ~server.releasing
                 /\ Going(IF client.op = "publish" THEN "before" ELSE "find")
<1> DEFINE next == IF client.op = "publish" THEN "before" ELSE "find"
           Then(st) == CASE st # "ok" -> Ends(st)
                         [] st = "ok" /\ server.releasing -> Ends("failed")
                         [] OTHER -> Goes(next)
<1>1. /\ At("unlock") /\ Looks
      /\ \/ Waits
         \/ client' = Then("failed")
         \/ client' = Then(Found(Exists).status)
  BY DEF Unlock, Asks, GatewayError, Repeated, Frame, Looks, Waits, Found, Ok, No
<1>2. ASSUME NEW st, client' = Then(st), st # "ok" \/ server.releasing
      PROVE  \E r : Fails(r)
  <2>1. \E r : r # "ok" /\ client' = Ends(r)
    BY <1>2
  <2> QED BY <2>1, EndsIs DEF Fails
<1>3. ASSUME NEW st, client' = Then(st), st = "ok", ~server.releasing
      PROVE  Going(next)
  <2>1. client' = Goes(next)
    BY <1>3
  <2> QED BY <2>1, GoesIs
<1>4. ~Exists => Found(Exists).status # "ok"
  BY FoundIs
<1> HIDE DEF Then
<1> QED BY <1>1, <1>2, <1>3, <1>4

LEMMA FindDataverseIs ==
    ASSUME Shape, FindDataverse
    PROVE  /\ At("find") /\ kind = "dataverse" /\ Looks
           /\ \/ Waits
              \/ \E r : Fails(r)
              \/ Going("drop")
              \/ ~server.open /\ Going("find published")
              \/ ~Has(client.key) /\ Starts
<1> DEFINE Then(st) == CASE st = "ok" -> FoundDataverse(st)
                         [] st = "notfound" -> Goes("find published")
                         [] OTHER -> Ends(st)
<1>1. /\ At("find") /\ kind = "dataverse" /\ Looks
      /\ \/ Waits
         \/ client' = Then("failed")
         \/ client' = Then(Found(server.open).status)
  BY DEF FindDataverse, Asks, GatewayError, Repeated, Frame, Looks, Waits, Found, Ok, No
<1>2. ASSUME client' = Then("failed") PROVE \E r : Fails(r)
  <2>1. client' = Ends("failed")
    BY <1>2
  <2> QED BY <2>1, EndsIs DEF Fails
<1>3. ASSUME client' = Then("ok") PROVE Going("drop") \/ (~Has(client.key) /\ Starts)
  <2>1. client' = IF Has(client.key) THEN Goes("drop") ELSE Adding
    BY <1>3 DEF FoundDataverse
  <2> QED BY <2>1, GoesIs, AddingIs
<1>4. ASSUME client' = Then("notfound") PROVE Going("find published")
  <2>1. client' = Goes("find published")
    BY <1>4
  <2> QED BY <2>1, GoesIs
<1> HIDE DEF Then
<1> QED BY <1>1, <1>2, <1>3, <1>4, FoundIs

LEMMA FindPublishedIs ==
    ASSUME Shape, FindPublished
    PROVE  /\ At("find published") /\ Looks
           /\ \/ Waits
              \/ Going("drop")
              \/ /\ Starts
                 /\ \/ ~Has(client.key)
                    \/ server.versions = << >>
                    \/ faults' = faults + 1
<1>1. /\ At("find published") /\ Looks
      /\ \/ Waits
         \/ client' = FoundDataverse("failed") /\ faults' = faults + 1
         \/ client' = FoundDataverse(Found(server.versions # << >>).status)
  BY DEF FindPublished, Asks, GatewayError, Repeated, Frame, Looks, Waits, Found, Ok, No
<1>2. ASSUME NEW st, client' = FoundDataverse(st)
      PROVE  Going("drop") \/ (Starts /\ (st # "ok" \/ ~Has(client.key)))
  <2>1. client' = IF st = "ok" /\ Has(client.key) THEN Goes("drop") ELSE Adding
    BY <1>2 DEF FoundDataverse
  <2> QED BY <2>1, GoesIs, AddingIs
<1>3. server.versions # << >> => Found(server.versions # << >>).status = "ok"
  BY FoundIs
<1> QED BY <1>1, <1>2, <1>3

NewEntry == [Entry(Whole(client.body), TRUE) EXCEPT !.n = Spare(client.key)]
Adds ==
    /\ ~server.releasing
    /\ Serves(server.versions, TRUE, Draft \union {NewEntry}, server.releasing)

LEMMA NewEntryIs ==
    /\ NewEntry.key = client.key /\ NewEntry.n = Spare(client.key)
    /\ NewEntry.done = TRUE /\ NewEntry.data = Whole(client.body)
BY DEF NewEntry, Entry

LEMMA AddIs ==
    ASSUME Shape, Add
    PROVE  /\ At("add") /\ Frame
           /\ server' = server \/ Adds
           /\ \/ Waits
              \/ /\ \E r : Fails(r)
                 /\ faults' = faults + 1 \/ server' = server
              \/ /\ Adds /\ Going("undo") /\ client'.n = Spare(client.key)
              \/ Adds /\ Spare(client.key) = 0 /\ client.body = client.sum /\ Succeeds
<1>1. /\ At("add") /\ Frame
      /\ server' \in {server, AddReply.server}
      /\ \/ Waits
         \/ client' = Added("failed") /\ faults' = faults + 1
         \/ server' = AddReply.server /\ client' = Added(AddReply.status)
  BY DEF Add, Asks, GatewayError, Repeated, Frame, Waits
<1>2. \/ AddReply.status # "ok" /\ AddReply.server = server
      \/ AddReply.status = "ok" /\ (server' = AddReply.server => Adds)
  <2>1. CASE ~Exists \/ server.releasing
    BY <2>1 DEF AddReply, No
  <2>2. CASE ~(~Exists \/ server.releasing)
    <3>1. AddReply = Ok([server EXCEPT !.open = TRUE, !.files = Draft \union {NewEntry}])
      BY <2>2 DEF AddReply, NewEntry
    <3>2. AddReply.status = "ok"
      BY <3>1 DEF Ok
    <3>3. ASSUME server' = AddReply.server PROVE Adds
      <4>1. server' = [server EXCEPT !.open = TRUE, !.files = Draft \union {NewEntry}]
        BY <3>1, <3>3 DEF Ok
      <4> QED BY <2>2, <4>1 DEF Adds, Serves, Shape
    <3> QED BY <3>2, <3>3
  <2> QED BY <2>1, <2>2
<1>3. ASSUME NEW st, client' = Added(st), st # "ok" PROVE \E r : Fails(r)
  <2>1. client' = Ends(st)
    BY <1>3 DEF Added
  <2> QED BY <1>3, <2>1, EndsIs DEF Fails
<1>4. ASSUME client' = Added("ok")
      PROVE  \/ Going("undo") /\ client'.n = Spare(client.key)
             \/ Spare(client.key) = 0 /\ client.body = client.sum /\ Succeeds
  <2>1. CASE Spare(client.key) # 0 \/ client.body # client.sum
    <3>1. client' = [Goes("undo") EXCEPT !.n = Spare(client.key)]
      BY <1>4, <2>1 DEF Added
    <3> QED BY <3>1 DEF Goes, Shape, Fields, Going, Core, Same
  <2>2. CASE Spare(client.key) = 0 /\ client.body = client.sum
    <3>1. client' = Ends("ok")
      BY <1>4, <2>2 DEF Added
    <3> QED BY <2>2, <3>1, EndsIs DEF Succeeds
  <2> QED BY <2>1, <2>2
<1> QED BY <1>1, <1>2, <1>3, <1>4

LEMMA UndoIs ==
    ASSUME Shape, Undo
    PROVE  /\ At("undo") /\ Frame
           /\ server' = server \/ Removes(client.n)
           /\ \/ Waits
              \/ /\ Fails("failed")
                 /\ \/ faults' = faults + 1
                    \/ Removes(client.n)
                    \/ /\ server' = server
                       /\ \/ server.releasing
                          \/ Hit(client.n) = {}
                          \/ kind = "invenio"
<1>1. /\ At("undo") /\ Frame
      /\ server' \in {server, DeleteReply(client.n).server}
      /\ \/ Waits
         \/ /\ client' = Ends("failed")
            /\ faults' = faults + 1 \/ server' = DeleteReply(client.n).server
  BY DEF Undo, Asks, GatewayError, Repeated, Frame, Waits
<1> QED BY <1>1, DeleteReplyIs, EndsIs DEF Fails

Imports ==
    /\ DraftOpen /\ server.files = {} /\ server.versions # << >>
    /\ Holds(Latest)

LEMMA ImportIs ==
    ASSUME Shape, ImportPreviousFiles
    PROVE  /\ At("import") /\ Frame
           /\ server' = server \/ Imports
           /\ Waits \/ (\E r : Fails(r)) \/ Succeeds
<1>1. /\ At("import") /\ Frame
      /\ server' \in {server, ImportReply.server}
      /\ Waits \/ (\E r : client' = Ends(r))
  BY DEF ImportPreviousFiles, Asks, GatewayError, Repeated, Frame, Waits
<1>2. server' = ImportReply.server => server' = server \/ Imports
  <2>1. CASE ~DraftOpen \/ server.files # {} \/ server.versions = << >>
    BY <2>1 DEF ImportReply, No
  <2>2. CASE ~(~DraftOpen \/ server.files # {} \/ server.versions = << >>)
    <3>1. ImportReply.server = [server EXCEPT !.files = Latest]
      BY <2>2 DEF ImportReply, Ok
    <3> QED BY <2>2, <3>1 DEF Imports, Holds, Serves, Shape
  <2> QED BY <2>1, <2>2
<1> QED BY <1>1, <1>2, EndsIs DEF Fails, Succeeds

Empties == ~server.releasing /\ Serves(server.versions, FALSE, {}, server.releasing)

LEMMA DiscardIs ==
    ASSUME Shape, Discard
    PROVE  /\ At("discard") /\ Frame
           /\ server' = server \/ Empties
           /\ \/ Waits
              \/ \E r : Fails(r)
              \/ Empties /\ Ending("ok", 0, client.known)
<1> DEFINE Then(st) == IF st = "ok" THEN [Ends(st) EXCEPT !.draft = 0] ELSE Ends(st)
<1>1. /\ At("discard") /\ Frame
      /\ server' \in {server, DiscardReply.server}
      /\ \/ Waits
         \/ client' = Then("failed")
         \/ server' = DiscardReply.server /\ client' = Then(DiscardReply.status)
  BY DEF Discard, Asks, GatewayError, Repeated, Frame, Waits
<1>2. \/ DiscardReply.status # "ok" /\ DiscardReply.server = server
      \/ server' = DiscardReply.server => Empties
  <2> DEFINE refused == \/ ~DraftOpen /\ (kind = "invenio" \/ ~Exists)
                        \/ kind # "invenio" /\ server.versions # << >>
                        \/ server.releasing
  <2>1. CASE refused
    BY <2>1 DEF DiscardReply, No
  <2>2. CASE ~refused
    <3>1. DiscardReply.server = [server EXCEPT !.open = FALSE, !.files = {}]
      BY <2>2 DEF DiscardReply, Ok
    <3> QED BY <2>2, <3>1 DEF Empties, Serves, Shape
  <2> QED BY <2>1, <2>2
<1>3. ASSUME NEW st, client' = Then(st), st # "ok" PROVE \E r : Fails(r)
  BY <1>3, EndsIs DEF Fails
<1>4. ASSUME client' = Then("ok") PROVE Ending("ok", 0, client.known)
  BY <1>4 DEF Ends, Shape, Fields, Ending, Core
<1> HIDE DEF Then
<1> QED BY <1>1, <1>2, <1>3, <1>4

Releases == Serves(Append(server.versions, server.files), FALSE, {}, FALSE)

LEMMA ReleasedIs ==
    ASSUME Shape, server' = Released(server)
    PROVE  Releases
BY DEF Released, Releases, Serves, Shape

LEMMA PublishInvenioIs ==
    ASSUME Shape, PublishInvenio
    PROVE  /\ At("publish") /\ kind = "invenio" /\ Frame
           /\ server' = server \/ (DraftOpen /\ Releases)
           /\ \/ Waits /\ server' = server
              \/ Fails("rejected") /\ server' = server
              \/ Going("reconcile")
              \/ DraftOpen /\ Releases /\ Ending("ok", 0, TRUE)
<1> DEFINE Then(st) == CASE st = "ok" -> Published
                         [] st = "rejected" -> Ends(st)
                         [] OTHER -> Goes("reconcile")
<1>1. /\ At("publish") /\ kind = "invenio" /\ Frame
      /\ server' \in {server, InvenioPublishReply.server}
      /\ \/ Waits /\ server' = server
         \/ client' = Then("failed")
         \/ server' = InvenioPublishReply.server /\ client' = Then(InvenioPublishReply.status)
  BY DEF PublishInvenio, Asks, GatewayError, Repeated, Only429, At, Frame, Waits
<1>2. \/ InvenioPublishReply.status # "ok" /\ InvenioPublishReply.server = server
      \/ /\ InvenioPublishReply.status = "ok"
         /\ server' = InvenioPublishReply.server => DraftOpen /\ Releases
  <2>1. CASE ~DraftOpen \/ Incomplete
    BY <2>1 DEF InvenioPublishReply, No
  <2>2. CASE ~(~DraftOpen \/ Incomplete)
    <3>1. InvenioPublishReply.status = "ok" /\ InvenioPublishReply.server = Released(server)
      BY <2>2 DEF InvenioPublishReply, Ok
    <3> QED BY <2>2, <3>1, ReleasedIs
  <2> QED BY <2>1, <2>2
<1>3. client' = Then("ok") => Ending("ok", 0, TRUE)
  BY PublishedIs
<1>4. client' = Then("rejected") => Fails("rejected")
  BY EndsIs DEF Fails
<1>5. ASSUME NEW st, client' = Then(st), st \notin {"ok", "rejected"} PROVE Going("reconcile")
  <2>1. client' = Goes("reconcile")
    BY <1>5
  <2> QED BY <2>1, GoesIs
<1> HIDE DEF Then
<1> QED BY <1>1, <1>2, <1>3, <1>4, <1>5

LEMMA ReconcileIs ==
    ASSUME Shape, Reconcile
    PROVE  /\ At("reconcile") /\ Looks
           /\ \/ Waits
              \/ Fails("failed")
              \/ Len(server.versions) >= client.draft /\ Ending("ok", 0, TRUE)
<1>1. /\ At("reconcile") /\ Looks
      /\ \/ Waits
         \/ client' = Ends("failed")
         \/ ReconcileReply.status = "ok" /\ client' = Published
  BY DEF Reconcile, Asks, GatewayError, Repeated, Frame, Looks, Waits, ReconcileReply, Found, Ok, No
<1>2. ASSUME ~(Len(server.versions) >= client.draft) PROVE ReconcileReply.status # "ok"
  BY <1>2 DEF ReconcileReply, Found, No
<1> QED BY <1>1, <1>2, EndsIs, PublishedIs DEF Fails

Appends ==
    Serves(Append(server.versions, server.files), server.open, server.files, server.releasing)
Publishable == server.open /\ ~Incomplete /\ server.files # {}

LEMMA PublishFigshareIs ==
    ASSUME Shape, PublishFigshare
    PROVE  /\ At("publish") /\ kind = "figshare" /\ Frame
           /\ server' = server \/ (Publishable /\ Appends)
           /\ \/ Waits
              \/ Fails("rejected") /\ server' = server /\ ~Publishable
              \/ Going("read")
<1>1. /\ At("publish") /\ kind = "figshare" /\ Frame
      /\ server' \in {server, FigsharePublishReply.server}
      /\ \/ Waits
         \/ client' = Goes("read")
         \/ /\ server' = FigsharePublishReply.server /\ FigsharePublishReply.status = "rejected"
            /\ client' = Ends("rejected")
  BY DEF PublishFigshare, Asks, GatewayError, Repeated, Frame, Waits
<1>2. \/ FigsharePublishReply.status # "ok" /\ FigsharePublishReply.server = server /\ ~Publishable
      \/ /\ FigsharePublishReply.status = "ok"
         /\ server' = FigsharePublishReply.server => Publishable /\ Appends
  <2>1. CASE ~Publishable
    BY <2>1 DEF FigsharePublishReply, No, Publishable
  <2>2. CASE Publishable
    <3>1. /\ FigsharePublishReply.status = "ok"
          /\ FigsharePublishReply.server =
                [server EXCEPT !.versions = Append(server.versions, server.files)]
      BY <2>2 DEF FigsharePublishReply, Ok, Publishable
    <3> QED BY <2>2, <3>1 DEF Appends, Serves, Shape
  <2> QED BY <2>1, <2>2
<1> QED BY <1>1, <1>2, EndsIs, GoesIs DEF Fails

LEMMA ReadPublicIs ==
    ASSUME Shape, ReadPublic
    PROVE  /\ At("read") /\ Looks
           /\ Waits \/ Fails("failed") \/ Ending("ok", 0, TRUE)
<1>1. /\ At("read") /\ Looks
      /\ Waits \/ client' \in {Ends("failed"), Published}
  BY DEF ReadPublic, Asks, GatewayError, Repeated, Frame, Looks, Waits, Found, Ok, No
<1> QED BY <1>1, EndsIs, PublishedIs DEF Fails

LEMMA CountBeforeIs ==
    ASSUME Shape, CountBefore
    PROVE  /\ At("before") /\ Looks
           /\ \/ Waits
              \/ \E r : Fails(r)
              \/ Going("release") /\ client'.n = Len(server.versions)
<1>1. /\ At("before") /\ Looks
      /\ \/ Waits
         \/ \E r : r # "ok" /\ client' = Ends(r)
         \/ client' = [Goes("release") EXCEPT !.n = Len(server.versions)]
  BY DEF CountBefore, Asks, GatewayError, Repeated, Frame, Looks, Waits, Found, Ok, No
<1>2. client' = [Goes("release") EXCEPT !.n = Len(server.versions)]
         => Going("release") /\ client'.n = Len(server.versions)
  BY DEF Goes, Shape, Fields, Going, Core, Same
<1> QED BY <1>1, <1>2, EndsIs DEF Fails

Accepts ==
    /\ ~server.releasing /\ server.open
    /\ Serves(server.versions, server.open, server.files, TRUE)

LEMMA ReleaseIs ==
    ASSUME Shape, Release
    PROVE  /\ At("release") /\ Frame
           /\ server' = server \/ Accepts
           /\ Waits \/ Fails("rejected") \/ (Going("poll") /\ client'.n = client.n)
<1>1. /\ At("release") /\ Frame
      /\ server' \in {server, ReleaseReply.server}
      /\ Waits \/ client' \in {Ends("rejected"), Goes("poll")}
  BY DEF Release, Asks, GatewayError, Repeated, Frame, Waits
<1>2. server' = ReleaseReply.server => server' = server \/ Accepts
  <2>1. CASE server.releasing \/ ~server.open
    BY <2>1 DEF ReleaseReply, No
  <2>2. CASE ~(server.releasing \/ ~server.open)
    <3>1. ReleaseReply.server = [server EXCEPT !.releasing = TRUE]
      BY <2>2 DEF ReleaseReply, Ok
    <3> QED BY <2>2, <3>1 DEF Accepts, Serves, Shape
  <2> QED BY <2>1, <2>2
<1> QED BY <1>1, <1>2, EndsIs, GoesIs DEF Fails

LEMMA PollIs ==
    ASSUME Shape, Poll
    PROVE  /\ At("poll") /\ Looks
           /\ \/ Waits
              \/ Fails("failed")
              \/ Len(server.versions) > client.n /\ Ending("ok", 0, TRUE)
<1>1. /\ At("poll") /\ Looks
      /\ \/ Waits
         \/ client' = Ends("failed")
         \/ Len(server.versions) > client.n /\ client' = Published
  BY DEF Poll, Asks, GatewayError, Repeated, Frame, Looks, Waits, Grown, Found, Ok, No
<1> QED BY <1>1, EndsIs, PublishedIs DEF Fails

-----------------------------------------------------------------------------
(* What the caller does, and the others.                                   *)

Rest == server' = server /\ UNCHANGED <<kind, offers, local, faults, edits, deaths>>

(* A call begins. *)
Begins(op, key, pc, multi, wish) ==
    /\ Idle /\ Rest /\ DOMAIN client' = Fields
    /\ client'.draft = client.draft /\ client'.known = client.known /\ client'.wish = wish
    /\ client'.op = op /\ client'.key = key /\ client'.pc = pc /\ client'.multi = multi
    /\ client'.result = "none"
    /\ op \in Uploads => client'.sum = local[key]
    /\ client'.prior = Len(server.versions)
    /\ op = "publish" => client'.goal = IF AlreadyOut THEN Latest ELSE Draft

LEMMA CallsIs ==
    ASSUME Shape, NEW op, NEW key, NEW pc, NEW multi, NEW wish,
           Calls(op, key, pc, multi, wish)
    PROVE  Begins(op, key, pc, multi, wish)
<1> DEFINE goal == CASE op # "publish" -> {}
                     [] op = "publish" /\ AlreadyOut -> Latest
                     [] OTHER -> Draft
           sum == IF op \in {"upload", "replace"} THEN local[key] ELSE "none"
<1>1. /\ Idle /\ Rest
      /\ client' = [Fresh EXCEPT
           !.draft = client.draft, !.known = client.known, !.wish = wish,
           !.op = op, !.key = key, !.pc = pc, !.multi = multi,
           !.sum = sum, !.prior = Len(server.versions), !.goal = goal]
  BY DEF Calls, Rest
<1>2. op = "publish" => goal = IF AlreadyOut THEN Latest ELSE Draft
  OBVIOUS
<1>3. op \in Uploads => sum = local[key]
  BY DEF Uploads
<1> HIDE DEF goal, sum
<1>4. /\ DOMAIN client' = Fields
      /\ client'.draft = client.draft /\ client'.known = client.known /\ client'.wish = wish
      /\ client'.op = op /\ client'.key = key /\ client'.pc = pc /\ client'.multi = multi
      /\ client'.result = "none" /\ client'.sum = sum
      /\ client'.prior = Len(server.versions) /\ client'.goal = goal
  BY <1>1 DEF Fresh, Fields
<1> QED BY <1>1, <1>2, <1>3, <1>4 DEF Begins

(* The caller opens a draft, or opens it again to run an upload once more. *)
Reopens == client.wish # {} /\ ~(client.op = "open" /\ client.result = "ok")
BeginsOpen ==
    /\ (client.draft = 0 /\ client.wish = {}) \/ Reopens
    /\ \E pc \in {"create", "newversion"} : Begins("open", "none", pc, FALSE, client.wish)

UploadPlaces ==
    CASE kind = "invenio" -> {"multi", "register"}
      [] kind = "figshare" -> {"find"}
      [] kind = "dataverse" -> {"unlock"}
BeginsUpload ==
    /\ client.draft # 0 /\ client.wish = {}
    /\ \E key \in Keys, multi \in Big, pc \in UploadPlaces :
          /\ Begins("upload", key, pc, multi, {})
          /\ pc = "register" => ~multi
BeginsReplace ==
    /\ \/ client.draft # 0 /\ client.wish = {}
       \/ client.wish # {} /\ client.op = "open" /\ client.result = "ok"
    /\ \E key, wish : \E multi \in Big : Begins("replace", key, DeleteStart, multi, wish)
BeginsDelete ==
    /\ client.draft # 0 /\ client.wish = {}
    /\ \E key \in Keys : Begins("delete", key, DeleteStart, FALSE, {})
BeginsOther ==
    /\ client.draft # 0 /\ client.wish = {}
    /\ \/ kind = "invenio" /\ Begins("import", "none", "import", FALSE, {})
       \/ Begins("discard", "none", "discard", FALSE, {})
BeginsPublish ==
    /\ client.draft # 0 /\ client.wish = {}
    /\ Begins("publish", "none", IF kind = "dataverse" THEN "unlock" ELSE "publish", FALSE, {})

LEMMA BeginIs ==
    ASSUME Shape, Begin \/ Retry
    PROVE  \/ BeginsOpen \/ BeginsUpload \/ BeginsReplace \/ BeginsDelete
           \/ BeginsOther \/ BeginsPublish
<1>1. ASSUME Open, (client.draft = 0 /\ client.wish = {}) \/ Reopens PROVE BeginsOpen
  BY <1>1, CallsIs DEF Open, BeginsOpen
<1>2. CASE OpenFirst
  BY <1>1, <1>2 DEF OpenFirst
<1>3. CASE CallUpload
  <2>1. PICK key \in Keys, multi \in Big :
           Calls("upload", key,
                 IF kind = "invenio" /\ multi THEN "multi"
                 ELSE IF kind = "invenio" THEN "register" ELSE UploadStart, multi, {})
    BY <1>3 DEF CallUpload
  <2> DEFINE pc == IF kind = "invenio" /\ multi THEN "multi"
                   ELSE IF kind = "invenio" THEN "register" ELSE UploadStart
  <2>2. pc \in UploadPlaces /\ (pc = "register" => ~multi)
    BY DEF UploadPlaces, UploadStart, Shape
  <2> HIDE DEF pc
  <2>3. Begins("upload", key, pc, multi, {})
    BY <2>1, CallsIs DEF pc
  <2> QED BY <1>3, <2>2, <2>3 DEF CallUpload, BeginsUpload
<1>4. CASE CallDelete
  BY <1>4, CallsIs DEF CallDelete, BeginsDelete
<1>5. CASE CallImport
  BY <1>5, CallsIs DEF CallImport, Call, BeginsOther
<1>6. CASE CallDiscard
  BY <1>6, CallsIs DEF CallDiscard, Call, BeginsOther
<1>7. CASE CallPublish
  BY <1>7, CallsIs DEF CallPublish, Call, BeginsPublish
<1>8. CASE Insist
  <2>1. PICK key \in Keys, multi \in Big : Calls("replace", key, DeleteStart, multi, {key})
    BY <1>8 DEF Insist
  <2>2. Begins("replace", key, DeleteStart, multi, {key})
    BY <2>1, CallsIs
  <2> QED BY <1>8, <2>2 DEF Insist, BeginsReplace
<1>9. CASE Retry
  <2>1. CASE client.op = "open" /\ client.result = "ok"
    <3>1. PICK key \in client.wish, multi \in Big :
             Calls("replace", key, DeleteStart, multi, client.wish)
      BY <1>9, <2>1 DEF Retry
    <3>2. Begins("replace", key, DeleteStart, multi, client.wish)
      BY <3>1, CallsIs
    <3> QED BY <1>9, <2>1, <3>2 DEF Retry, BeginsReplace
  <2>2. CASE ~(client.op = "open" /\ client.result = "ok")
    BY <1>1, <1>9, <2>2 DEF Retry, Reopens
  <2> QED BY <2>1, <2>2
<1> QED BY <1>2, <1>3, <1>4, <1>5, <1>6, <1>7, <1>8, <1>9 DEF Begin

Dies ==
    /\ server' = server /\ UNCHANGED <<kind, offers, local, faults, edits>>
    /\ deaths' = deaths + 1 /\ DOMAIN client' = Fields
    /\ client'.draft = 0 /\ client'.pc = "idle" /\ client'.op = "none"
    /\ client'.result = "none" /\ client'.multi = FALSE

LEMMA DeathIs ==
    ASSUME Shape, Death
    PROVE  Dies
<1>1. client' = [Fresh EXCEPT !.known = client.known, !.wish = client.wish]
  BY DEF Death
<1>2. /\ DOMAIN client' = Fields
      /\ client'.draft = 0 /\ client'.pc = "idle" /\ client'.op = "none"
      /\ client'.result = "none" /\ client'.multi = FALSE
  BY <1>1 DEF Fresh, Fields
<1> QED BY <1>2 DEF Death, Dies

-----------------------------------------------------------------------------
(* Histories.                                                              *)

LEMMA HistoryIs ==
    ASSUME NEW v, IsSequence(v)
    PROVE  /\ Len(v) \in Nat /\ DOMAIN v = 1..Len(v)
           /\ v # << >> <=> Len(v) > 0
BY DEF IsSequence

LEMMA AppendIs ==
    ASSUME NEW v, IsSequence(v), NEW e
    PROVE  /\ IsSequence(Append(v, e))
           /\ Len(Append(v, e)) = Len(v) + 1
           /\ Append(v, e)[Len(v) + 1] = e
           /\ \A i \in 1..Len(v) : Append(v, e)[i] = v[i]
<1>1. PICK S : v \in Seq(S)
  BY DEF IsSequence
<1>2. v \in Seq(S \union {e})
  BY <1>1
<1>3. Append(v, e) \in Seq(S \union {e})
  BY <1>2
<1> QED BY <1>2, <1>3 DEF IsSequence

(* The request's effect on the archive, whatever becomes of the reply.     *)
Effects ==
    \/ server' = server
    \/ At("create") /\ Remakes
    \/ At("newversion") /\ kind = "invenio" /\ ~server.open /\ Drafts
    \/ (At("delete") \/ At("abort") \/ At("drop")) /\ Removes(0)
    \/ At("undo") /\ Removes(client.n)
    \/ (At("multi") \/ At("register") \/ At("initiate")) /\ Registers
    \/ At("content") /\ Stores(Whole(local[client.key]), FALSE)
    \/ At("part") /\ StoresPart
    \/ At("commit") /\ Stores(Data, TRUE)
    \/ At("complete") /\ Data = Whole(client.sum) /\ Stores(Data, TRUE)
    \/ At("add") /\ Adds
    \/ At("import") /\ Imports
    \/ At("discard") /\ Empties
    \/ At("publish") /\ kind = "invenio" /\ DraftOpen /\ Releases
    \/ At("publish") /\ kind = "figshare" /\ Publishable /\ Appends
    \/ At("release") /\ Accepts

LEMMA RequestEffects ==
    ASSUME Shape, Request
    PROVE  Effects /\ Frame
<1> USE DEF Effects, Looks
<1>1. CASE Create \/ NewVersion
  BY <1>1, CreateIs, NewVersionIs
<1>2. CASE Seek \/ SeekPublished \/ Delete \/ Abort \/ Drop \/ Undo
  BY <1>2, SeekIs, SeekPublishedIs, DeleteIs, AbortIs, DropIs, UndoIs
<1>3. CASE RegisterMultipart \/ Register \/ Initiate
  BY <1>3, RegisterMultipartIs, RegisterIs, InitiateIs
<1>4. CASE PutContent
  BY <1>4, PutContentIs
<1>5. CASE PutPart
  BY <1>5, PutPartIs
<1>6. CASE Commit
  BY <1>6, CommitIs
<1>7. CASE Complete
  BY <1>7, CompleteIs
<1>8. CASE FindFigshare \/ UploadInfo \/ Final \/ Unlock \/ FindDataverse \/ FindPublished
  BY <1>8, FindFigshareIs, UploadInfoIs, FinalIs, UnlockIs, FindDataverseIs, FindPublishedIs
<1>9. CASE Add \/ ImportPreviousFiles \/ Discard
  BY <1>9, AddIs, ImportIs, DiscardIs
<1>10. CASE PublishInvenio \/ Reconcile \/ PublishFigshare \/ ReadPublic
  BY <1>10, PublishInvenioIs, ReconcileIs, PublishFigshareIs, ReadPublicIs
<1>11. CASE CountBefore \/ Release \/ Poll
  BY <1>11, CountBeforeIs, ReleaseIs, PollIs
<1> QED BY <1>1, <1>2, <1>3, <1>4, <1>5, <1>6, <1>7, <1>8, <1>9, <1>10, <1>11 DEF Request

(* A request leaves alone what its call was made with. *)
Moves ==
    \/ client' = client
    \/ /\ Core
       /\ client'.draft \in {client.draft, 0, 1, Len(server.versions) + 1}

LEMMA GoingMoves ==
    ASSUME Waits \/ (\E p : Going(p)) \/ (\E r, k : Ending(r, client.draft, k)) \/ (\E r : Fails(r))
             \/ Succeeds \/ Starts \/ OnePiece \/ (\E n : PartOf(n)) \/ (\E st : Deletes(st))
             \/ (\E r, k : Ending(r, 0, k))
    PROVE  Moves
BY DEF Waits, Going, Ending, Fails, Succeeds, Starts, OnePiece, PartOf, Deletes, Core, Same, Moves

LEMMA RequestMoves ==
    ASSUME Shape, Request
    PROVE  Moves
<1> USE GoingMoves
<1>0. ASSUME NEW d \in {1, Len(server.versions) + 1}, NEW r, NEW k, Ending(r, d, k) PROVE Moves
  BY <1>0 DEF Ending, Core, Moves
<1>1. CASE Create
  BY <1>0, <1>1, CreateIs
<1>2. CASE NewVersion
  BY <1>0, <1>2, NewVersionIs
<1>3. CASE Seek
  BY <1>3, SeekIs
<1>4. CASE SeekPublished
  BY <1>4, SeekPublishedIs
<1>5. CASE Delete
  BY <1>5, DeleteIs
<1>6. CASE RegisterMultipart
  BY <1>6, RegisterMultipartIs
<1>7. CASE Register
  BY <1>7, RegisterIs
<1>8. CASE PutContent
  BY <1>8, PutContentIs
<1>9. CASE Commit
  BY <1>9, CommitIs
<1>10. CASE Abort
  BY <1>10, AbortIs
<1>11. CASE FindFigshare
  BY <1>11, FindFigshareIs
<1>12. CASE Drop
  BY <1>12, DropIs
<1>13. CASE Initiate
  BY <1>13, InitiateIs
<1>14. CASE UploadInfo
  BY <1>14, UploadInfoIs
<1>15. CASE PutPart
  BY <1>15, PutPartIs
<1>16. CASE Complete
  BY <1>16, CompleteIs
<1>17. CASE Final
  BY <1>17, FinalIs
<1>18. CASE Unlock
  BY <1>18, UnlockIs
<1>19. CASE FindDataverse
  BY <1>19, FindDataverseIs
<1>20. CASE FindPublished
  BY <1>20, FindPublishedIs
<1>21. CASE Add
  BY <1>21, AddIs
<1>22. CASE Undo
  BY <1>22, UndoIs
<1>23. CASE ImportPreviousFiles
  BY <1>23, ImportIs
<1>24. CASE Discard
  BY <1>24, DiscardIs
<1>25. CASE PublishInvenio
  BY <1>25, PublishInvenioIs
<1>26. CASE Reconcile
  BY <1>26, ReconcileIs
<1>27. CASE PublishFigshare
  BY <1>27, PublishFigshareIs
<1>28. CASE ReadPublic
  BY <1>28, ReadPublicIs
<1>29. CASE CountBefore
  BY <1>29, CountBeforeIs
<1>30. CASE Release
  BY <1>30, ReleaseIs
<1>31. CASE Poll
  BY <1>31, PollIs
<1> QED BY <1>1, <1>2, <1>3, <1>4, <1>5, <1>6, <1>7, <1>8, <1>9, <1>10, <1>11, <1>12, <1>13,
           <1>14, <1>15, <1>16, <1>17, <1>18, <1>19, <1>20, <1>21, <1>22, <1>23, <1>24, <1>25,
           <1>26, <1>27, <1>28, <1>29, <1>30, <1>31 DEF Request

BeginsSome ==
    \/ BeginsOpen \/ BeginsUpload \/ BeginsReplace \/ BeginsDelete \/ BeginsOther
    \/ BeginsPublish

LEMMA BeginsMoves ==
    ASSUME BeginsSome
    PROVE  /\ Idle /\ Rest
           /\ DOMAIN client' = Fields /\ client'.draft = client.draft /\ client'.result = "none"
BY DEF BeginsSome, BeginsOpen, BeginsUpload, BeginsReplace, BeginsDelete, BeginsOther,
       BeginsPublish, Begins

LEMMA FinalizeIs ==
    ASSUME Shape, Finalize
    PROVE  /\ server.releasing /\ Releases
           /\ UNCHANGED <<kind, offers, local, client, faults, edits, deaths>>
BY ReleasedIs DEF Finalize

LEMMA EditIs ==
    ASSUME Shape, Edit
    PROVE  /\ edits' = edits + 1 /\ UNCHANGED <<kind, offers, server, client, faults, deaths>>
BY DEF Edit

ServerShape ==
    /\ DOMAIN server = {"versions", "open", "files", "releasing"}
    /\ IsSequence(server.versions)
    /\ server.open \in BOOLEAN /\ server.releasing \in BOOLEAN

LEMMA EffectsShape ==
    ASSUME Shape, Effects \/ Releases
    PROVE  ServerShape'
<1>1. ASSUME NEW v, IsSequence(v), NEW f, NEW o \in BOOLEAN, NEW r \in BOOLEAN, Serves(v, o, f, r)
      PROVE  ServerShape'
  BY <1>1 DEF Serves, ServerShape
<1>2. IsSequence(<< >>) /\ IsSequence(server.versions)
  BY DEF IsSequence, Shape
<1>3. \A e : IsSequence(Append(server.versions, e))
  BY AppendIs DEF Shape
<1>4. server.open \in BOOLEAN /\ server.releasing \in BOOLEAN
  BY DEF Shape
<1>5. CASE server' = server
  BY <1>5 DEF Shape, ServerShape
<1>6. CASE Remakes
  BY <1>1, <1>2, <1>6 DEF Remakes
<1>7. CASE Drafts
  BY <1>1, <1>2, <1>4, <1>7 DEF Drafts
<1>8. CASE Removes(0) \/ Removes(client.n)
  BY <1>1, <1>2, <1>4, <1>8 DEF Removes
<1>9. CASE Registers
  BY <1>1, <1>2, <1>4, <1>9 DEF Registers, Holds
<1>10. ASSUME NEW data, NEW done, Stores(data, done) PROVE ServerShape'
  BY <1>1, <1>2, <1>4, <1>10 DEF Stores, Holds
<1>11. CASE Adds
  BY <1>1, <1>2, <1>4, <1>11 DEF Adds
<1>12. CASE Imports
  BY <1>1, <1>2, <1>4, <1>12 DEF Imports, Holds
<1>13. CASE Empties
  BY <1>1, <1>2, <1>4, <1>13 DEF Empties
<1>14. CASE Releases
  BY <1>1, <1>3, <1>14 DEF Releases
<1>15. CASE Appends
  BY <1>1, <1>3, <1>4, <1>15 DEF Appends
<1>16. CASE Accepts
  BY <1>1, <1>2, <1>4, <1>16 DEF Accepts
<1> QED BY <1>5, <1>6, <1>7, <1>8, <1>9, <1>10, <1>11, <1>12, <1>13, <1>14, <1>15, <1>16
    DEF Effects, StoresPart

LEMMA ShapeNext ==
    ASSUME Shape, [Next]_vars
    PROVE  Shape'
<1> USE HistoryIs
<1>1. CASE Request
  <2>1. ServerShape'
    BY <1>1, RequestEffects, EffectsShape
  <2>2. DOMAIN client' = Fields /\ client'.draft \in Nat
    BY <1>1, RequestMoves DEF Moves, Core, Shape
  <2>3. Frame
    BY <1>1, RequestEffects
  <2> QED BY <2>1, <2>2, <2>3 DEF Shape, ServerShape, Frame
<1>2. CASE Begin \/ Retry
  <2>1. BeginsSome
    BY <1>2, BeginIs DEF BeginsSome
  <2> QED BY <2>1, BeginsMoves DEF Rest, Shape
<1>3. CASE Finalize
  <2>1. ServerShape'
    BY <1>3, FinalizeIs, EffectsShape
  <2> QED BY <1>3, <2>1, FinalizeIs DEF Shape, ServerShape
<1>4. CASE Edit
  BY <1>4, EditIs DEF Shape
<1>5. CASE Death
  <2>1. Dies
    BY <1>5, DeathIs
  <2>2. kind' = kind /\ server' = server /\ faults' = faults /\ edits' = edits
        /\ deaths' = deaths + 1 /\ DOMAIN client' = Fields /\ client'.draft = 0
    BY <2>1 DEF Dies
  <2> QED BY <2>2 DEF Shape
<1>6. CASE UNCHANGED vars
  BY <1>6 DEF vars, Shape
<1> QED BY <1>1, <1>2, <1>3, <1>4, <1>5, <1>6 DEF Next

-----------------------------------------------------------------------------
(* Which request belongs to which call, and to which archive.              *)

OfInvenio == {"multi", "register", "content", "commit", "abort"}
OfFigshare == {"initiate", "info", "complete", "final"}
OfDataverse == {"find published", "add", "undo"}

Fits(pc, op) ==
    /\ pc \in {"create", "newversion"} => op = "open"
    /\ pc \in {"seek", "seek published", "delete"} => op \in {"delete", "replace"}
    /\ pc = "seek published" => kind = "dataverse"
    /\ pc \in OfInvenio => kind = "invenio" /\ op \in Uploads
    /\ pc \in OfFigshare => kind = "figshare" /\ op \in Uploads
    /\ pc \in OfDataverse => kind = "dataverse" /\ op \in Uploads
    /\ pc \in {"find", "drop"} => kind # "invenio" /\ op \in Uploads
    /\ pc = "part" => kind # "dataverse" /\ op \in Uploads
    /\ pc = "unlock" => kind = "dataverse" /\ op \in Uploads \union {"publish"}
    /\ pc = "import" => kind = "invenio" /\ op = "import"
    /\ pc = "discard" => op = "discard"
    /\ pc = "publish" => kind # "dataverse" /\ op = "publish"
    /\ pc = "reconcile" => kind = "invenio" /\ op = "publish"
    /\ pc = "read" => kind = "figshare" /\ op = "publish"
    /\ pc \in {"before", "release", "poll"} => kind = "dataverse" /\ op = "publish"
Placed == Fits(client.pc, client.op) /\ (client.multi => kind = "invenio")

LEMMA PlacedTo ==
    ASSUME Placed, kind' = kind, client'.op = client.op, Fits(client'.pc, client.op),
           client'.multi => client.multi
    PROVE  Placed'
<1>1. Fits(client.pc, client.op)' = Fits(client'.pc, client'.op)
  BY DEF Fits
<1> QED BY <1>1 DEF Placed

LEMMA IdleFits == \A op : Fits("idle", op)
BY DEF Fits, OfInvenio, OfFigshare, OfDataverse

LEMMA EndingPlaced ==
    ASSUME Placed, kind' = kind,
           Waits \/ (\E r : Fails(r)) \/ (\E r, d, k : Ending(r, d, k)) \/ Succeeds
    PROVE  Placed'
<1>1. CASE Waits
  BY <1>1, PlacedTo DEF Waits, Placed
<1>2. CASE ~Waits
  BY <1>2, PlacedTo, IdleFits DEF Fails, Ending, Succeeds, Core
<1> QED BY <1>1, <1>2

LEMMA GoingPlaced ==
    ASSUME Placed, kind' = kind, NEW p, Fits(p, client.op),
           Going(p) \/ (p = "add" /\ Starts) \/ (p = "part" /\ \E n : PartOf(n))
             \/ (p = "register" /\ OnePiece)
    PROVE  Placed'
BY PlacedTo DEF Going, Starts, PartOf, OnePiece, Core, Same

LEMMA DeletesPlaced ==
    ASSUME Shape, Placed, kind' = kind, NEW st, Deletes(st)
    PROVE  Placed'
<1>1. client.op = "replace" => Fits(UploadStart, client.op)
  BY DEF UploadStart, Shape, Fits, OfInvenio, OfFigshare, OfDataverse, Uploads
<1> QED BY <1>1, EndingPlaced, GoingPlaced DEF Deletes

LEMMA PlacedRequest ==
    ASSUME Shape, Placed, Request
    PROVE  Placed'
<1>1. kind' = kind /\ Fits(client.pc, client.op)
  BY RequestEffects DEF Frame, Placed
<1>2. ASSUME Waits \/ (\E r : Fails(r)) \/ (\E r, d, k : Ending(r, d, k)) \/ Succeeds
             \/ (\E st : Deletes(st))
      PROVE  Placed'
  BY <1>1, <1>2, EndingPlaced, DeletesPlaced
<1>3. ASSUME NEW p, Fits(p, client.op),
             Going(p) \/ (p = "add" /\ Starts) \/ (p = "part" /\ \E n : PartOf(n))
             \/ (p = "register" /\ OnePiece)
      PROVE  Placed'
  BY <1>1, <1>3, GoingPlaced
<1> USE DEF Fits, OfInvenio, OfFigshare, OfDataverse, Uploads, Shape, At
<1>4. CASE Create \/ NewVersion
  BY <1>2, <1>4, CreateIs, NewVersionIs
<1>5. CASE Seek \/ SeekPublished \/ Delete
  <2>1. ASSUME At("seek") \/ At("seek published") \/ At("delete")
        PROVE  /\ Fits("delete", client.op)
               /\ kind = "dataverse" => Fits("seek published", client.op)
    BY <1>1, <2>1
  <2> QED BY <1>2, <1>3, <1>5, <2>1, SeekIs, SeekPublishedIs, DeleteIs
<1>6. CASE RegisterMultipart
  <2>1. At("multi") => Fits("register", client.op) /\ Fits("part", client.op)
    BY <1>1
  <2> QED BY <1>2, <1>3, <1>6, <2>1, RegisterMultipartIs
<1>7. CASE Register
  <2>1. At("register") => Fits("content", client.op)
    BY <1>1
  <2> QED BY <1>2, <1>3, <1>7, <2>1, RegisterIs
<1>8. CASE PutContent
  <2>1. At("content") => Fits("commit", client.op)
    BY <1>1
  <2> QED BY <1>2, <1>3, <1>8, <2>1, PutContentIs
<1>9. CASE Commit
  <2>1. At("commit") => Fits("abort", client.op)
    BY <1>1
  <2> QED BY <1>2, <1>3, <1>9, <2>1, CommitIs
<1>10. CASE Abort
  BY <1>2, <1>10, AbortIs
<1>11. CASE FindFigshare
  <2>1. At("find") /\ kind = "figshare" => Fits("drop", client.op) /\ Fits("initiate", client.op)
    BY <1>1
  <2> QED BY <1>2, <1>3, <1>11, <2>1, FindFigshareIs
<1>12. CASE Drop
  <2>1. At("drop") =>
           IF kind = "figshare" THEN Fits("initiate", client.op) ELSE Fits("add", client.op)
    BY <1>1
  <2> QED BY <1>2, <1>3, <1>12, <2>1, DropIs
<1>13. CASE Initiate
  <2>1. At("initiate") => Fits("info", client.op)
    BY <1>1
  <2> QED BY <1>2, <1>3, <1>13, <2>1, InitiateIs
<1>14. CASE UploadInfo
  <2>1. At("info") => Fits("part", client.op)
    BY <1>1
  <2> QED BY <1>2, <1>3, <1>14, <2>1, UploadInfoIs
<1>15. CASE PutPart
  <2>1. At("part") =>
          /\ Fits("part", client.op)
          /\ client.multi => Fits("abort", client.op)
          /\ Fits(IF kind = "invenio" THEN "commit" ELSE "complete", client.op)
    BY <1>1 DEF Placed
  <2> QED BY <1>2, <1>3, <1>15, <2>1, PutPartIs
<1>16. CASE Complete
  <2>1. At("complete") => Fits("final", client.op)
    BY <1>1
  <2> QED BY <1>2, <1>3, <1>16, <2>1, CompleteIs
<1>17. CASE Final \/ Undo \/ ImportPreviousFiles \/ Discard
  BY <1>2, <1>17, FinalIs, UndoIs, ImportIs, DiscardIs
<1>18. CASE Unlock
  <2>1. At("unlock") => Fits(IF client.op = "publish" THEN "before" ELSE "find", client.op)
    BY <1>1
  <2> QED BY <1>2, <1>3, <1>18, <2>1, UnlockIs
<1>19. CASE FindDataverse
  <2>1. At("find") /\ kind = "dataverse" =>
           Fits("drop", client.op) /\ Fits("find published", client.op) /\ Fits("add", client.op)
    BY <1>1
  <2> QED BY <1>2, <1>3, <1>19, <2>1, FindDataverseIs
<1>20. CASE FindPublished
  <2>1. At("find published") => Fits("drop", client.op) /\ Fits("add", client.op)
    BY <1>1
  <2> QED BY <1>2, <1>3, <1>20, <2>1, FindPublishedIs
<1>21. CASE Add
  <2>1. At("add") => Fits("undo", client.op)
    BY <1>1
  <2> QED BY <1>2, <1>3, <1>21, <2>1, AddIs
<1>22. CASE PublishInvenio
  <2>1. At("publish") /\ kind = "invenio" => Fits("reconcile", client.op)
    BY <1>1
  <2> QED BY <1>2, <1>3, <1>22, <2>1, PublishInvenioIs
<1>23. CASE PublishFigshare
  <2>1. At("publish") /\ kind = "figshare" => Fits("read", client.op)
    BY <1>1
  <2> QED BY <1>2, <1>3, <1>23, <2>1, PublishFigshareIs
<1>24. CASE Reconcile \/ ReadPublic \/ Poll
  BY <1>2, <1>24, ReconcileIs, ReadPublicIs, PollIs
<1>25. CASE CountBefore
  <2>1. At("before") => Fits("release", client.op)
    BY <1>1
  <2> QED BY <1>2, <1>3, <1>25, <2>1, CountBeforeIs
<1>26. CASE Release
  <2>1. At("release") => Fits("poll", client.op)
    BY <1>1
  <2> QED BY <1>2, <1>3, <1>26, <2>1, ReleaseIs
<1> QED BY <1>4, <1>5, <1>6, <1>7, <1>8, <1>9, <1>10, <1>11, <1>12, <1>13, <1>14, <1>15, <1>16,
           <1>17, <1>18, <1>19, <1>20, <1>21, <1>22, <1>23, <1>24, <1>25, <1>26 DEF Request

LEMMA PlacedBegin ==
    ASSUME Shape, Placed, BeginsSome
    PROVE  Placed'
<1>1. ASSUME NEW op, NEW key, NEW pc, NEW multi, NEW wish, Begins(op, key, pc, multi, wish),
             Fits(pc, op), multi => kind = "invenio"
      PROVE  Placed'
  <2>1. kind' = kind /\ client'.pc = pc /\ client'.op = op /\ client'.multi = multi
    BY <1>1 DEF Begins, Rest
  <2> QED BY <1>1, <2>1 DEF Placed, Fits
<1>2. \A multi \in Big : multi => kind = "invenio"
  BY DEF Big
<1> USE DEF Fits, OfInvenio, OfFigshare, OfDataverse, Uploads, Shape
<1>3. CASE BeginsOpen
  BY <1>1, <1>3 DEF BeginsOpen
<1>4. CASE BeginsUpload
  <2>1. \A pc \in UploadPlaces : Fits(pc, "upload")
    BY DEF UploadPlaces
  <2>2. PICK key \in Keys, multi \in Big, pc \in UploadPlaces : Begins("upload", key, pc, multi, {})
    BY <1>4 DEF BeginsUpload
  <2>3. Fits(pc, "upload") /\ (multi => kind = "invenio")
    BY <1>2, <2>1, <2>2
  <2> HIDE DEF Fits
  <2> QED BY <1>1, <2>2, <2>3
<1>5. Fits(DeleteStart, "replace") /\ Fits(DeleteStart, "delete")
  BY DEF DeleteStart
<1>6. CASE BeginsReplace
  <2>1. PICK key, wish : \E multi \in Big : Begins("replace", key, DeleteStart, multi, wish)
    BY <1>6 DEF BeginsReplace
  <2>2. PICK multi \in Big : Begins("replace", key, DeleteStart, multi, wish)
    BY <2>1
  <2>3. multi => kind = "invenio"
    BY <1>2, <2>2
  <2> HIDE DEF Fits
  <2> QED BY <1>1, <1>5, <2>2, <2>3
<1>7. CASE BeginsDelete
  BY <1>1, <1>5, <1>7 DEF BeginsDelete
<1>8. CASE BeginsOther
  BY <1>1, <1>8 DEF BeginsOther
<1>9. CASE BeginsPublish
  <2>1. Fits(IF kind = "dataverse" THEN "unlock" ELSE "publish", "publish")
    OBVIOUS
  <2> QED BY <1>1, <1>9, <2>1 DEF BeginsPublish
<1> QED BY <1>3, <1>4, <1>6, <1>7, <1>8, <1>9 DEF BeginsSome

LEMMA PlacedNext ==
    ASSUME Shape, Placed, [Next]_vars
    PROVE  Placed'
<1>1. CASE Begin \/ Retry
  BY <1>1, BeginIs, PlacedBegin DEF BeginsSome
<1>2. CASE Finalize \/ Edit \/ UNCHANGED vars
  BY <1>2, FinalizeIs, EditIs, PlacedTo DEF vars, Placed
<1>3. CASE Death
  <2>1. kind' = kind /\ client'.pc = "idle" /\ client'.multi = FALSE
    BY <1>3, DeathIs DEF Dies
  <2> QED BY <2>1 DEF Placed, Fits, OfInvenio, OfFigshare, OfDataverse
<1> QED BY <1>1, <1>2, <1>3, PlacedRequest DEF Next

(* Where a call begins. *)
LEMMA BeginsPlaces ==
    ASSUME Shape, BeginsSome
    PROVE  /\ client'.pc \in {"create", "newversion", "multi", "register", "find", "unlock",
                              "delete", "seek", "import", "discard", "publish"}
           /\ client'.pc = "find" => kind = "figshare"
           /\ client'.pc = "publish" => client'.op = "publish"
           /\ client'.pc = "register" => ~client'.multi
BY DEF BeginsSome, BeginsOpen, BeginsUpload, BeginsReplace, BeginsDelete, BeginsOther,
       BeginsPublish, Begins, UploadPlaces, DeleteStart, Shape

-----------------------------------------------------------------------------
(* Only Dataverse releases, an open draft, and an upload meets no release. *)

Quiet == {"find", "drop", "before"} \union OfDataverse
Settled ==
    /\ server.releasing => kind = "dataverse" /\ server.open
    /\ client.pc \in Quiet \/ Ended(Uploads, "ok") => ~server.releasing

(* An archive that is not releasing does not start to, but to publish.     *)
LEMMA ReleasingEffects ==
    ASSUME Shape, Settled, Effects
    PROVE  \/ /\ server'.releasing => server.releasing /\ server'.open
           \/ At("release") /\ Accepts
<1>1. CASE server' = server
  BY <1>1 DEF Settled
<1>2. CASE At("create") /\ Remakes
  BY <1>2 DEF Remakes, Serves
<1>3. CASE At("newversion") /\ kind = "invenio" /\ ~server.open /\ Drafts
  BY <1>3 DEF Drafts, Serves, Settled
<1>4. ASSUME NEW n, Removes(n) PROVE server'.releasing => server.releasing /\ server'.open
  BY <1>4 DEF Removes, Serves
<1>5. CASE Registers \/ Imports
  BY <1>5 DEF Registers, Imports, Holds, Serves, Settled
<1>6. ASSUME NEW data, NEW done, Stores(data, done)
      PROVE  server'.releasing => server.releasing /\ server'.open
  BY <1>6 DEF Stores, Holds, Serves, Settled
<1>7. CASE Adds \/ Empties
  BY <1>7 DEF Adds, Empties, Serves
<1>8. CASE Releases \/ Appends
  BY <1>8 DEF Releases, Appends, Serves, Settled
<1> QED BY <1>1, <1>2, <1>3, <1>4, <1>5, <1>6, <1>7, <1>8 DEF Effects, StoresPart

LEMMA SettledElsewhere ==
    ASSUME Shape, Settled, Placed, Request, kind # "dataverse"
    PROVE  Settled'
<1>1. ~server.releasing /\ ~At("release")
  BY DEF Settled, Placed, Fits, At
<1>2. ~server'.releasing
  BY <1>1, RequestEffects, ReleasingEffects
<1> QED BY <1>2 DEF Settled

LEMMA SettledTo ==
    ASSUME Settled, kind' = kind, server'.releasing => server.releasing /\ server'.open,
           client'.pc \in Quiet \/ Ended(Uploads, "ok")' => ~server.releasing
    PROVE  Settled'
BY DEF Settled

LEMMA EndedUploads ==
    /\ (\E r : Fails(r)) => ~Ended(Uploads, "ok")'
    /\ \A r, d, k : Ending(r, d, k) /\ client.op \notin Uploads => ~Ended(Uploads, "ok")'
    /\ client'.pc # "idle" => ~Ended(Uploads, "ok")'
BY DEF Fails, Ending, Core, Ended, Idle, At, Uploads

LEMMA SettledDeletes ==
    ASSUME Shape, Settled, kind = "dataverse", kind' = kind, NEW st, Deletes(st),
           server'.releasing => server.releasing /\ server'.open,
           client.op \in {"delete", "replace"}
    PROVE  Settled'
<1>1. client'.pc \notin Quiet /\ ~Ended(Uploads, "ok")'
  BY EndedUploads DEF Deletes, Going, Fails, Ending, UploadStart, Uploads, Quiet, OfDataverse
<1> QED BY <1>1, SettledTo

LEMMA SettledDataverse ==
    ASSUME Shape, Settled, Placed, Request, kind = "dataverse"
    PROVE  Settled'
<1>1. kind' = kind /\ Effects
  BY RequestEffects DEF Frame
<1>2. \/ server'.releasing => server.releasing /\ server'.open
      \/ At("release") /\ Accepts
  BY <1>1, ReleasingEffects
<1>3. Fits(client.pc, client.op)
  BY DEF Placed
<1>4. ASSUME Waits, ~At("release")
      PROVE  Settled'
  BY <1>1, <1>2, <1>4, SettledTo DEF Waits, Settled, Ended, Idle, At
<1>5. ASSUME NEW p, p \notin Quiet, p # "idle", Going(p), ~At("release")
      PROVE  Settled'
  BY <1>1, <1>2, <1>5, SettledTo, EndedUploads DEF Going
<1>6. ASSUME \/ \E r : Fails(r)
             \/ client.op \notin Uploads /\ \E r, d, k : Ending(r, d, k),
             ~At("release")
      PROVE  Settled'
  <2>1. client'.pc \notin Quiet
    BY <1>6 DEF Fails, Ending, Quiet, OfDataverse
  <2> QED BY <1>1, <1>2, <1>6, <2>1, SettledTo, EndedUploads
<1>7. ASSUME ~server.releasing, ~At("release")
      PROVE  Settled'
  BY <1>1, <1>2, <1>7, SettledTo
<1>8. client.pc \in Quiet => ~server.releasing
  BY DEF Settled
<1> USE DEF At, Fits
<1>9. CASE Create \/ NewVersion
  BY <1>3, <1>4, <1>6, <1>9, CreateIs, NewVersionIs DEF Uploads
<1>10. CASE Seek \/ SeekPublished \/ Delete
  <2>1. client.op \in {"delete", "replace"} /\ ~At("release")
    BY <1>3, <1>10, SeekIs, SeekPublishedIs, DeleteIs
  <2>2. \A st : Deletes(st) => Settled'
    BY <1>1, <1>2, <2>1, SettledDeletes
  <2> QED BY <1>4, <1>5, <1>10, <2>1, <2>2, SeekIs, SeekPublishedIs, DeleteIs DEF Quiet, OfDataverse
<1>11. CASE FindFigshare \/ FindDataverse \/ FindPublished \/ Drop \/ Add \/ Undo \/ CountBefore
  BY <1>7, <1>8, <1>11, FindFigshareIs, FindDataverseIs, FindPublishedIs, DropIs, AddIs, UndoIs,
     CountBeforeIs DEF Quiet, OfDataverse
<1>12. CASE Unlock
  BY <1>4, <1>6, <1>7, <1>12, UnlockIs
<1>13. CASE Discard \/ Poll
  BY <1>3, <1>4, <1>6, <1>13, DiscardIs, PollIs DEF Uploads
<1>14. CASE ImportPreviousFiles
  BY <1>3, <1>4, <1>6, <1>14, ImportIs DEF Uploads, Succeeds
<1>15. CASE Release
  <2>1. client.op = "publish" /\ server'.releasing => server'.open
    BY <1>2, <1>3, <1>15, ReleaseIs DEF Accepts, Serves, Settled
  <2>2. client'.pc \notin Quiet /\ client'.op = "publish"
    BY <1>3, <1>15, ReleaseIs DEF Waits, Fails, Ending, Going, Core, Quiet, OfDataverse
  <2>3. server'.releasing => server'.open
    BY <1>1, <1>3, <1>15, ReleaseIs DEF Accepts, Serves, Settled
  <2> QED BY <1>1, <2>2, <2>3 DEF Settled, Ended, Uploads
<1>16. CASE RegisterMultipart \/ Register \/ PutContent \/ Commit \/ Abort
  BY <1>3, <1>16, RegisterMultipartIs, RegisterIs, PutContentIs, CommitIs, AbortIs DEF OfInvenio
<1>17. CASE Initiate \/ UploadInfo \/ PutPart \/ Complete \/ Final
  BY <1>3, <1>17, InitiateIs, UploadInfoIs, PutPartIs, CompleteIs, FinalIs DEF OfFigshare
<1>18. CASE PublishInvenio \/ Reconcile \/ PublishFigshare \/ ReadPublic
  BY <1>3, <1>18, PublishInvenioIs, ReconcileIs, PublishFigshareIs, ReadPublicIs
<1> QED BY <1>9, <1>10, <1>11, <1>12, <1>13, <1>14, <1>15, <1>16, <1>17, <1>18 DEF Request

LEMMA SettledNext ==
    ASSUME Shape, Placed, Settled, [Next]_vars
    PROVE  Settled'
<1>1. CASE Request
  BY <1>1, SettledElsewhere, SettledDataverse
<1>2. CASE Begin \/ Retry
  <2>1. BeginsSome
    BY <1>2, BeginIs DEF BeginsSome
  <2>2. kind' = kind /\ server' = server /\ client'.result = "none"
    BY <2>1, BeginsMoves DEF Rest
  <2>3. client'.pc \notin Quiet \/ (kind = "figshare" /\ ~server.releasing)
    BY <2>1, BeginsPlaces DEF Settled, Quiet, OfDataverse
  <2> QED BY <2>2, <2>3, SettledTo DEF Settled, Ended
<1>3. CASE Finalize
  BY <1>3, FinalizeIs DEF Releases, Serves, Settled
<1>4. CASE Edit \/ UNCHANGED vars
  BY <1>4, EditIs DEF vars, Settled, Ended, Idle, At
<1>5. CASE Death
  <2>1. kind' = kind /\ server' = server /\ client'.pc = "idle" /\ client'.result = "none"
    BY <1>5, DeathIs DEF Dies
  <2> QED BY <2>1 DEF Settled, Ended, Quiet, OfDataverse
<1> QED BY <1>1, <1>2, <1>3, <1>4, <1>5 DEF Next

-----------------------------------------------------------------------------
(* What an upload hashed, and what it has sent so far.                     *)

Mine == {f \in server.files : f.key = client.key}
AllHave(files, data) == \A f \in files : f.data = data
Held(files, data) == \E f \in files : f.n = 0 /\ f.done /\ f.data = data
Half == << <<client.sum, 1>> >>

Sent ==
    /\ client.pc \in {"register", "content"} => ~client.multi
    /\ At("part") => client.part \in {1, 2}
    /\ client.multi /\ edits = 0 =>
          /\ At("part") => AllHave(Mine, IF client.part = 1 THEN << >> ELSE Half)
          /\ At("commit") => AllHave(Mine, Whole(client.sum))
    /\ At("final") => server.open /\ Held(Mine, Whole(client.sum))
Sending == (edits = 0 /\ client.op \in Uploads => client.sum = local[client.key]) /\ Sent

Sends == {"register", "content", "part", "commit", "final"}

LEMMA SentTo ==
    ASSUME client'.pc \notin Sends
    PROVE  Sent'
BY DEF Sent, Sends, At

LEMMA OpenDraft ==
    ASSUME server.open
    PROVE  Draft = server.files /\ EntriesOf(client.key) = Mine
BY DEF Draft, EntriesOf, Mine

(* The data of a file that is there. *)
LEMMA DataIs ==
    ASSUME Mine # {}
    PROVE  /\ \E f \in Mine : Data = f.data
           /\ \A data : AllHave(Mine, data) => Data = data
<1>1. PICK f \in server.files : f.key = client.key
  BY DEF Mine
<1>2. \E g : g \in server.files /\ g.key = client.key /\ Data = g.data
  BY <1>1 DEF Data
<1> QED BY <1>2 DEF Mine, AllHave

(* What storing does to the files of the call. *)
LEMMA StoresIs ==
    ASSUME NEW data, NEW done, Stores(data, done), client'.key = client.key
    PROVE  /\ server.open /\ Mine # {}
           /\ AllHave(Mine', data)
           /\ done => Held(Mine', data)
<1>1. server.open /\ Mine # {}
  BY OpenDraft DEF Stores, DraftOpen
<1>2. server'.files = With(data, done) /\ server'.open = server.open
  BY DEF Stores, Holds, Serves
<1>3. Entry(data, done).key = client.key /\ Entry(data, done).data = data
      /\ Entry(data, done).n = 0 /\ Entry(data, done).done = done
  BY DEF Entry
<1>4. \A f \in With(data, done) : f.key = client.key => f.data = data
  BY <1>3 DEF With
<1>5. Entry(data, done) \in With(data, done)
  BY <1>1 DEF With, Mine
<1>6. Mine' = {f \in With(data, done) : f.key = client.key}
  BY <1>2 DEF Mine
<1>7. AllHave(Mine', data)
  BY <1>4, <1>6 DEF AllHave
<1>8. done => Held(Mine', data)
  BY <1>1, <1>2, <1>3, <1>5, <1>6 DEF Held
<1> QED BY <1>1, <1>7, <1>8

LEMMA RegistersIs ==
    ASSUME Registers, client'.key = client.key
    PROVE  AllHave(Mine', << >>)
<1>1. server'.files = server.files \union {Entry(<< >>, FALSE)} /\ Mine = {}
  BY OpenDraft DEF Registers, Holds, Serves, DraftOpen
<1>2. Entry(<< >>, FALSE).data = << >>
  BY DEF Entry
<1>3. \A f \in server'.files : f.key = client.key => f.data = << >>
  BY <1>1, <1>2 DEF Mine
<1> QED BY <1>3 DEF Mine, AllHave

LEMMA WholeIs ==
    ASSUME client.sum = local[client.key]
    PROVE  /\ Append(<< >>, <<local[client.key], 1>>) = Half
           /\ Append(Half, <<local[client.key], 2>>) = Whole(client.sum)
<1>1. \A x : Append(<< >>, x) = <<x>>
  OBVIOUS
<1>2. ASSUME NEW x, NEW y
      PROVE  Append(<<x>>, y) = <<x, y>>
  <2>1. <<x>> \in Seq({x, y}) /\ <<x, y>> \in Seq({x, y}) /\ y \in {x, y}
    OBVIOUS
  <2>2. /\ Append(<<x>>, y) \in Seq({x, y})
        /\ Len(Append(<<x>>, y)) = 2
        /\ Append(<<x>>, y)[1] = x /\ Append(<<x>>, y)[2] = y
    BY <2>1, AppendProperties
  <2>3. Len(<<x, y>>) = 2 /\ <<x, y>>[1] = x /\ <<x, y>>[2] = y
    OBVIOUS
  <2>4. \A i \in 1..2 : i = 1 \/ i = 2
    OBVIOUS
  <2>5. \A i \in 1..Len(Append(<<x>>, y)) : Append(<<x>>, y)[i] = <<x, y>>[i]
    BY <2>2, <2>3, <2>4
  <2> QED BY <2>1, <2>2, <2>3, <2>5, SeqEqual
<1> QED BY <1>1, <1>2 DEF Half, Whole

(* The parts. *)
LEMMA SentPutPart ==
    ASSUME Shape, Placed, Sending, PutPart
    PROVE  Sent'
<1>1. At("part") /\ Frame /\ client.op \in Uploads /\ client.part \in {1, 2}
  BY PutPartIs DEF Placed, Fits, At, Sending, Sent, OfInvenio
<1>2. CASE (\E r : Fails(r)) \/ Going("abort") \/ Going("complete")
  BY <1>2, SentTo DEF Fails, Ending, Going, Sends
<1>3. ASSUME StoresPart, client.multi, edits = 0, client'.key = client.key
      PROVE  /\ client.part = 1 => AllHave(Mine', Half)
             /\ client.part = 2 => AllHave(Mine', Whole(client.sum))
  <2>1. client.sum = local[client.key]
    BY <1>1, <1>3 DEF Sending
  <2>2. Mine # {}
    BY <1>3, StoresIs DEF StoresPart
  <2>3. CASE client.part = 1
    <3>1. Data = << >>
      BY <1>1, <1>3, <2>2, <2>3, DataIs DEF Sending, Sent
    <3>2. Stores(Half, FALSE)
      BY <1>3, <2>1, <2>3, <3>1, WholeIs DEF StoresPart
    <3>3. AllHave(Mine', Half)
      BY <1>3, <3>2, StoresIs
    <3> QED BY <2>3, <3>3
  <2>4. CASE client.part = 2
    <3>1. Data = Half
      BY <1>1, <1>3, <2>2, <2>4, DataIs DEF Sending, Sent
    <3>2. Stores(Whole(client.sum), FALSE)
      BY <1>3, <2>1, <2>4, <3>1, WholeIs DEF StoresPart
    <3>3. AllHave(Mine', Whole(client.sum))
      BY <1>3, <3>2, StoresIs
    <3> QED BY <2>4, <3>3
  <2> QED BY <1>1, <2>3, <2>4
<1>4. Half' = << <<client'.sum, 1>> >> /\ edits' = edits
  BY <1>1 DEF Half, Frame
<1>5. CASE StoresPart /\ client.part < 2 /\ PartOf(client.part + 1)
  <2>1. client'.pc = "part" /\ client'.part = 2 /\ client.part = 1 /\ client'.key = client.key
        /\ client'.multi = client.multi /\ client'.sum = client.sum
    BY <1>1, <1>5 DEF PartOf, Going, Core, Same
  <2>2. client.multi /\ edits = 0 => AllHave(Mine', Half)
    BY <1>3, <1>5, <2>1
  <2> QED BY <1>4, <2>1, <2>2 DEF Sent, At, Half
<1>6. CASE StoresPart /\ ~(client.part < 2) /\ Going("commit")
  <2>1. client'.pc = "commit" /\ client.part = 2 /\ client'.key = client.key
        /\ client'.multi = client.multi /\ client'.sum = client.sum
    BY <1>1, <1>6 DEF Going, Core, Same
  <2>2. client.multi /\ edits = 0 => AllHave(Mine', Whole(client.sum))
    BY <1>3, <1>6, <2>1
  <2> QED BY <1>4, <2>1, <2>2 DEF Sent, At, Whole
<1> QED BY <1>2, <1>5, <1>6, PutPartIs

LEMMA SentWaits ==
    ASSUME Waits, client.pc \notin Sends
    PROVE  Sent'
BY SentTo DEF Waits

LEMMA SentPlain ==
    ASSUME \/ \E r : Fails(r)
           \/ \E r, d, k : Ending(r, d, k)
           \/ Succeeds
           \/ \E p : p \notin Sends /\ Going(p)
           \/ Starts
    PROVE  Sent'
BY SentTo DEF Fails, Ending, Succeeds, Going, Starts, Sends

LEMMA SentDeletes ==
    ASSUME Shape, NEW st, Deletes(st)
    PROVE  Sent'
<1>1. CASE Going(UploadStart)
  <2>1. client'.pc = UploadStart /\ client'.multi = client.multi
    BY <1>1 DEF Going, Same
  <2>2. UploadStart \in {"unlock", "find", "multi"} \/ (UploadStart = "register" /\ ~client.multi)
    BY DEF UploadStart, Shape
  <2> QED BY <2>1, <2>2 DEF Sent, At
<1> QED BY <1>1, SentPlain DEF Deletes

LEMMA SentCommit ==
    ASSUME Shape, Sending, Commit
    PROVE  Sent'
<1>1. At("commit") /\ edits' = edits
  BY CommitIs DEF Frame
<1>2. CASE Waits
  <2>1. client' = client
    BY <1>2 DEF Waits
  <2>2. client.multi /\ edits = 0 => AllHave(Mine', Whole(client.sum))
    <3>1. CASE server' = server
      BY <1>1, <2>1, <3>1 DEF Sending, Sent, Mine, At
    <3>2. CASE Stores(Data, TRUE)
      <4>1. AllHave(Mine', Data) /\ Mine # {}
        BY <2>1, <3>2, StoresIs
      <4>2. client.multi /\ edits = 0 => Data = Whole(client.sum)
        BY <1>1, <4>1, DataIs DEF Sending, Sent
      <4> QED BY <4>1, <4>2
    <3> QED BY <3>1, <3>2, CommitIs
  <2> QED BY <1>1, <2>1, <2>2 DEF Sent, At, Whole
<1> QED BY <1>2, CommitIs, SentPlain DEF Sends

LEMMA SentRegister ==
    ASSUME Shape, Sending, RegisterMultipart \/ Register \/ PutContent
    PROVE  Sent'
<1>1. CASE RegisterMultipart
  <2>1. CASE Registers /\ PartOf(1)
    <3>1. client'.key = client.key /\ client'.pc = "part" /\ client'.part = 1
      BY <2>1 DEF PartOf, Going, Core
    <3>2. AllHave(Mine', << >>)
      BY <2>1, <3>1, RegistersIs
    <3> QED BY <3>1, <3>2 DEF Sent, At
  <2>2. CASE OnePiece
    BY <2>2 DEF OnePiece, Sent, At
  <2> QED BY <1>1, <2>1, <2>2, RegisterMultipartIs, SentPlain, SentWaits DEF Sends, At
<1>2. CASE Register
  <2>1. ~client.multi
    BY <1>2, RegisterIs DEF Sending, Sent, At
  <2>2. CASE Waits \/ Going("content")
    BY <1>2, <2>1, <2>2, RegisterIs DEF Waits, Going, Same, Sent, At
  <2> QED BY <1>2, <2>2, RegisterIs, SentPlain
<1>3. CASE PutContent
  <2>1. ~client.multi
    BY <1>3, PutContentIs DEF Sending, Sent, At
  <2>2. CASE Going("commit")
    BY <2>1, <2>2 DEF Going, Same, Sent, At
  <2> QED BY <1>3, <2>2, PutContentIs, SentPlain
<1> QED BY <1>1, <1>2, <1>3

LEMMA SentFigshare ==
    ASSUME Shape, Placed, Sending, UploadInfo \/ Complete \/ Final
    PROVE  Sent'
<1>1. CASE UploadInfo
  <2>1. ~client.multi
    BY <1>1, UploadInfoIs DEF Placed, Fits, At, OfFigshare
  <2>2. CASE PartOf(1)
    BY <2>1, <2>2 DEF PartOf, Going, Same, Sent, At
  <2> QED BY <1>1, <2>2, UploadInfoIs, SentPlain, SentWaits DEF Sends, At
<1>2. CASE Complete
  <2>1. CASE Data = Whole(client.sum) /\ Stores(Data, TRUE) /\ Going("final")
    <3>1. client'.key = client.key /\ client'.sum = client.sum /\ client'.pc = "final"
      BY <2>1 DEF Going, Core
    <3>2. server.open /\ Held(Mine', Whole(client.sum))
      BY <2>1, <3>1, StoresIs
    <3>3. server'.open = server.open
      BY <2>1 DEF Stores, Holds, Serves
    <3> QED BY <3>1, <3>2, <3>3 DEF Sent, At, Whole
  <2> QED BY <1>2, <2>1, CompleteIs, SentPlain, SentWaits DEF Sends, At
<1>3. CASE Final
  <2>1. CASE Waits
    <3>1. client' = client /\ server' = server /\ At("final")
      BY <1>3, <2>1, FinalIs DEF Waits, Looks
    <3> QED BY <3>1 DEF Sending, Sent, At, Mine, Whole
  <2> QED BY <1>3, <2>1, FinalIs, SentPlain
<1> QED BY <1>1, <1>2, <1>3

LEMMA SentRequest ==
    ASSUME Shape, Placed, Sending, Request
    PROVE  Sent'
<1>1. ASSUME \/ Waits /\ client.pc \notin Sends
             \/ \E r : Fails(r)
             \/ \E r, d, k : Ending(r, d, k)
             \/ Succeeds
             \/ \E p : p \notin Sends /\ Going(p)
             \/ Starts
             \/ \E st : Deletes(st)
      PROVE  Sent'
  BY <1>1, SentWaits, SentPlain, SentDeletes
<1> USE DEF At, Sends
<1>2. CASE Create \/ NewVersion
  BY <1>1, <1>2, CreateIs, NewVersionIs
<1>3. CASE Seek \/ SeekPublished \/ Delete
  BY <1>1, <1>3, SeekIs, SeekPublishedIs, DeleteIs
<1>4. CASE Abort \/ FindFigshare \/ Drop \/ Initiate
  BY <1>1, <1>4, AbortIs, FindFigshareIs, DropIs, InitiateIs
<1>5. CASE Unlock
  BY <1>1, <1>5, UnlockIs
<1>6. CASE FindDataverse \/ FindPublished \/ Add \/ Undo
  BY <1>1, <1>6, FindDataverseIs, FindPublishedIs, AddIs, UndoIs
<1>7. CASE ImportPreviousFiles \/ Discard
  BY <1>1, <1>7, ImportIs, DiscardIs
<1>8. CASE PublishInvenio \/ Reconcile \/ PublishFigshare \/ ReadPublic
  BY <1>1, <1>8, PublishInvenioIs, ReconcileIs, PublishFigshareIs, ReadPublicIs
<1>9. CASE CountBefore \/ Release \/ Poll
  BY <1>1, <1>9, CountBeforeIs, ReleaseIs, PollIs
<1> QED BY <1>2, <1>3, <1>4, <1>5, <1>6, <1>7, <1>8, <1>9, SentCommit, SentRegister, SentFigshare,
           SentPutPart DEF Request

LEMMA BeginsSum ==
    ASSUME BeginsSome, client'.op \in Uploads
    PROVE  client'.sum = local[client'.key] /\ local' = local
BY DEF BeginsSome, BeginsOpen, BeginsUpload, BeginsReplace, BeginsDelete, BeginsOther,
       BeginsPublish, Begins, Rest

LEMMA SendingNext ==
    ASSUME Shape, Placed, Settled, Sending, [Next]_vars
    PROVE  Sending'
<1>1. CASE Request
  <2>1. client'.op = client.op /\ client'.key = client.key /\ client'.sum = client.sum
    BY <1>1, RequestMoves DEF Moves, Core
  <2>2. local' = local /\ edits' = edits
    BY <1>1, RequestEffects DEF Frame
  <2> QED BY <1>1, <2>1, <2>2, SentRequest DEF Sending
<1>2. CASE Begin \/ Retry
  <2>1. BeginsSome
    BY <1>2, BeginIs DEF BeginsSome
  <2>2. Sent'
    BY <2>1, BeginsPlaces DEF Sent, At
  <2> QED BY <2>1, <2>2, BeginsSum DEF Sending
<1>3. CASE Finalize
  <2>1. kind = "dataverse" /\ ~client.multi /\ ~At("final")
    BY <1>3, FinalizeIs DEF Settled, Placed, Fits, OfFigshare, At
  <2> QED BY <1>3, <2>1, FinalizeIs DEF Sending, Sent, At
<1>4. CASE Edit
  <2>1. edits' # 0 /\ client' = client /\ server' = server
    BY <1>4, EditIs DEF Shape
  <2> QED BY <2>1 DEF Sending, Sent, At, Mine, Whole
<1>5. CASE Death
  <2>1. client'.pc = "idle" /\ client'.op = "none"
    BY <1>5, DeathIs DEF Dies
  <2> QED BY <2>1 DEF Sending, Sent, At, Uploads
<1>6. CASE UNCHANGED vars
  BY <1>6 DEF vars, Sending, Sent, At, Mine, Half, Whole
<1> QED BY <1>1, <1>2, <1>3, <1>4, <1>5, <1>6 DEF Next

-----------------------------------------------------------------------------
(* An upload that reports success has delivered.                           *)

Delivered(f) == f.n = 0 /\ f.done /\ (f.data = Whole(client.sum) \/ (Unverified /\ edits > 0))

LEMMA DeliversTo ==
    ASSUME NEW f, f \in server'.files, server'.open, f.key = client'.key, Delivered(f)'
    PROVE  UploadDelivers'
BY DEF UploadDelivers, EntriesOf, Draft, Delivered

LEMMA DeliversOther ==
    ASSUME ~Ended(Uploads, "ok")'
    PROVE  UploadDelivers'
BY DEF UploadDelivers

LEMMA DeliversSame ==
    ASSUME UploadDelivers, Shape, Shape', kind' = kind, offers' = offers, server' = server,
           client' = client, edits' = edits \/ edits' = edits + 1
    PROVE  UploadDelivers'
<1> SUFFICES ASSUME Ended(Uploads, "ok")' PROVE UploadDelivers'
  BY DeliversOther
<1>1. PICK f \in EntriesOf(client.key) : Delivered(f)
  BY DEF UploadDelivers, Ended, Idle, At, Delivered
<1>2. Delivered(f)'
  BY <1>1 DEF Delivered, Unverified, Whole, Shape
<1>3. EntriesOf(client.key)' = EntriesOf(client.key)
  BY DEF EntriesOf, Draft, Latest
<1>4. f \in EntriesOf(client.key)'
  BY <1>1, <1>3
<1> QED BY <1>2, <1>4 DEF UploadDelivers, Delivered

LEMMA DeliversCommit ==
    ASSUME Shape, Sending, Commit, Stores(Data, TRUE), Verified(Data), Succeeds
    PROVE  UploadDelivers'
<1>1. /\ client'.key = client.key /\ client'.sum = client.sum /\ client'.multi = client.multi
      /\ offers' = offers /\ edits' = edits
  BY CommitIs DEF Succeeds, Ending, Core, Frame
<1>2. server.open /\ Mine # {} /\ Held(Mine', Data)
  BY <1>1, StoresIs
<1>3. PICK f \in Mine' : f.n = 0 /\ f.done /\ f.data = Data
  BY <1>2 DEF Held
<1>4. server'.open /\ f \in server'.files /\ f.key = client'.key
  BY <1>1, <1>2, <1>3 DEF Stores, Holds, Serves, Mine
<1>5. edits = 0 => Data = Whole(client.sum)
  <2>1. CASE edits = 0 /\ client.multi
    <3>1. AllHave(Mine, Whole(client.sum))
      BY <2>1, CommitIs DEF Sending, Sent
    <3> QED BY <1>2, <3>1, DataIs
  <2>2. CASE ~client.multi
    BY <2>2 DEF Verified, Unverified
  <2> QED BY <2>1, <2>2
<1>6. Unverified' = Unverified /\ Whole(client.sum)' = Whole(client.sum)
  BY <1>1 DEF Unverified, Whole
<1>7. Data = Whole(client.sum) \/ (Unverified /\ edits > 0)
  BY <1>5 DEF Verified, Shape
<1>8. Delivered(f)'
  BY <1>1, <1>3, <1>6, <1>7 DEF Delivered
<1> QED BY <1>4, <1>8, DeliversTo

LEMMA DeliversFinal ==
    ASSUME Sending, Final, Succeeds, Shape
    PROVE  UploadDelivers'
<1>1. /\ client'.key = client.key /\ client'.sum = client.sum /\ server' = server /\ At("final")
  BY FinalIs DEF Succeeds, Ending, Core, Looks
<1>2. server.open /\ Held(Mine, Whole(client.sum))
  BY <1>1 DEF Sending, Sent
<1>3. PICK f \in Mine : f.n = 0 /\ f.done /\ f.data = Whole(client.sum)
  BY <1>2 DEF Held
<1>4. Delivered(f)'
  BY <1>1, <1>3 DEF Delivered, Whole
<1> QED BY <1>1, <1>2, <1>3, <1>4, DeliversTo DEF Mine

LEMMA DeliversAdd ==
    ASSUME Adds, Spare(client.key) = 0, client.body = client.sum, Succeeds
    PROVE  UploadDelivers'
<1>1. client'.key = client.key /\ client'.sum = client.sum
  BY DEF Succeeds, Ending, Core
<1>2. server'.open /\ NewEntry \in server'.files
  BY DEF Adds, Serves
<1>3. /\ NewEntry.key = client.key /\ NewEntry.n = 0
      /\ NewEntry.done = TRUE /\ NewEntry.data = Whole(client.sum)
  BY NewEntryIs
<1>4. PICK f : f = NewEntry
  OBVIOUS
<1>5. Delivered(f)'
  BY <1>1, <1>3, <1>4 DEF Delivered, Whole
<1> QED BY <1>1, <1>2, <1>3, <1>4, <1>5, DeliversTo

LEMMA DeliversRequest ==
    ASSUME Shape, Placed, Sending, Request
    PROVE  UploadDelivers'
<1>1. Fits(client.pc, client.op)
  BY DEF Placed
<1>2. ASSUME \/ Waits /\ ~Idle
             \/ \E r : Fails(r)
             \/ client.op \notin Uploads /\ \E r, d, k : Ending(r, d, k)
             \/ client.op \notin Uploads /\ Succeeds
             \/ \E p : p # "idle" /\ Going(p)
             \/ Starts
             \/ OnePiece
             \/ PartOf(1)
      PROVE  UploadDelivers'
  <2>1. CASE Waits /\ ~Idle
    BY <2>1, DeliversOther DEF Waits, Ended, Idle, At
  <2>2. CASE Starts \/ OnePiece \/ PartOf(1)
    BY <2>2, EndedUploads, DeliversOther DEF Starts, OnePiece, PartOf, Going
  <2> QED BY <1>2, <2>1, <2>2, EndedUploads, DeliversOther DEF Going, Succeeds
<1>3. ASSUME NEW st, Deletes(st), client.op \in {"delete", "replace"}
      PROVE  UploadDelivers'
  <2>1. UploadStart # "idle"
    BY DEF UploadStart, Shape
  <2> QED BY <1>2, <1>3, <2>1 DEF Deletes, Uploads
<1> USE DEF At, Fits, Idle
<1>4. CASE Create \/ NewVersion
  BY <1>1, <1>2, <1>4, CreateIs, NewVersionIs DEF Uploads
<1>5. CASE Seek \/ SeekPublished \/ Delete
  <2>1. client.op \in {"delete", "replace"}
    BY <1>1, <1>5, SeekIs, SeekPublishedIs, DeleteIs
  <2> QED BY <1>2, <1>3, <1>5, <2>1, SeekIs, SeekPublishedIs, DeleteIs
<1>6. CASE RegisterMultipart \/ Register \/ PutContent \/ Abort
  BY <1>2, <1>6, RegisterMultipartIs, RegisterIs, PutContentIs, AbortIs
<1>7. CASE Commit
  BY <1>2, <1>7, CommitIs, DeliversCommit
<1>8. CASE FindFigshare \/ Drop \/ Initiate \/ UploadInfo \/ Complete
  BY <1>2, <1>8, FindFigshareIs, DropIs, InitiateIs, UploadInfoIs, CompleteIs
<1>9. CASE PutPart
  <2>1. \A n : PartOf(n) => UploadDelivers'
    BY EndedUploads, DeliversOther DEF PartOf, Going
  <2> QED BY <1>2, <1>9, <2>1, PutPartIs
<1>10. CASE Final
  BY <1>2, <1>10, FinalIs, DeliversFinal
<1>11. CASE Unlock \/ FindDataverse \/ FindPublished \/ Undo
  BY <1>2, <1>11, UnlockIs, FindDataverseIs, FindPublishedIs, UndoIs
<1>12. CASE Add
  BY <1>2, <1>12, AddIs, DeliversAdd
<1>13. CASE ImportPreviousFiles \/ Discard
  BY <1>1, <1>2, <1>13, ImportIs, DiscardIs DEF Uploads
<1>14. CASE PublishInvenio \/ Reconcile \/ PublishFigshare \/ ReadPublic
  BY <1>1, <1>2, <1>14, PublishInvenioIs, ReconcileIs, PublishFigshareIs, ReadPublicIs DEF Uploads
<1>15. CASE CountBefore \/ Release \/ Poll
  BY <1>1, <1>2, <1>15, CountBeforeIs, ReleaseIs, PollIs DEF Uploads
<1> QED BY <1>4, <1>5, <1>6, <1>7, <1>8, <1>9, <1>10, <1>11, <1>12, <1>13, <1>14, <1>15 DEF Request

LEMMA DeliversNext ==
    ASSUME Shape, Placed, Settled, Sending, UploadDelivers, [Next]_vars
    PROVE  UploadDelivers'
<1>1. CASE Request
  BY <1>1, DeliversRequest
<1>2. CASE Begin \/ Retry
  <2>1. client'.result = "none"
    BY <1>2, BeginIs, BeginsMoves DEF BeginsSome
  <2> QED BY <2>1, DeliversOther DEF Ended
<1>3. CASE Finalize
  <2>1. ~Ended(Uploads, "ok") /\ client' = client
    BY <1>3, FinalizeIs DEF Settled
  <2> QED BY <2>1, DeliversOther DEF Ended, Idle, At
<1>4. CASE Edit
  BY <1>4, EditIs, ShapeNext, DeliversSame
<1>5. CASE Death
  <2>1. client'.result = "none"
    BY <1>5, DeathIs DEF Dies
  <2> QED BY <2>1, DeliversOther DEF Ended
<1>6. CASE UNCHANGED vars
  BY <1>6, ShapeNext, DeliversSame DEF vars
<1> QED BY <1>1, <1>2, <1>3, <1>4, <1>5, <1>6 DEF Next

-----------------------------------------------------------------------------
(* An InvenioRDM draft that is open is the caller's, but while one is      *)
(* being opened; a delete and a publish are called on a draft.             *)

Opens == client.op = "open" /\ ~(Idle /\ client.result = "ok")
Current ==
    /\ Opens /\ client.wish = {} => client.draft = 0
    /\ kind = "invenio" /\ server.open /\ client.draft # 0 /\ ~Opens =>
          client.draft = Len(server.versions) + 1
    /\ client.op \in {"delete", "publish"} /\ ~Ended({"publish"}, "ok") => client.draft # 0

LEMMA Busy ==
    ASSUME Request
    PROVE  ~Idle
BY DEF Request, Create, NewVersion, Seek, SeekPublished, Delete, RegisterMultipart, Register,
       PutContent, Commit, Abort, FindFigshare, Drop, Initiate, UploadInfo, PutPart, Complete,
       Final, Unlock, FindDataverse, FindPublished, Add, Undo, ImportPreviousFiles, Discard,
       PublishInvenio, Reconcile, PublishFigshare, ReadPublic, CountBefore, Release, Poll,
       Idle, At

LEMMA DraftKept ==
    ASSUME Shape, Placed, Request, ~At("create"), ~At("newversion")
    PROVE  \/ client'.draft = client.draft
           \/ /\ client'.draft = 0 /\ client.op \in {"discard", "publish"}
              /\ client'.pc = "idle" /\ client'.result = "ok"
<1>1. Fits(client.pc, client.op)
  BY DEF Placed
<1>2. ASSUME \/ Waits
             \/ \E r : Fails(r)
             \/ Succeeds
             \/ \E p : Going(p)
             \/ Starts
             \/ OnePiece
             \/ \E n : PartOf(n)
             \/ \E st : Deletes(st)
      PROVE  client'.draft = client.draft
  BY <1>2 DEF Waits, Fails, Succeeds, Ending, Going, Starts, OnePiece, PartOf, Deletes, Same
<1>3. ASSUME NEW k, Ending("ok", 0, k)
      PROVE  client'.draft = 0 /\ client'.pc = "idle" /\ client'.result = "ok"
  BY <1>3 DEF Ending
<1> USE DEF At, Fits
<1>4. CASE Create \/ NewVersion
  BY <1>4, CreateIs, NewVersionIs
<1>5. CASE Seek \/ SeekPublished \/ Delete
  BY <1>2, <1>5, SeekIs, SeekPublishedIs, DeleteIs
<1>6. CASE RegisterMultipart \/ Register \/ PutContent \/ Commit \/ Abort
  BY <1>2, <1>6, RegisterMultipartIs, RegisterIs, PutContentIs, CommitIs, AbortIs
<1>7. CASE FindFigshare \/ Drop \/ Initiate \/ UploadInfo \/ PutPart \/ Complete \/ Final
  BY <1>2, <1>7, FindFigshareIs, DropIs, InitiateIs, UploadInfoIs, PutPartIs, CompleteIs, FinalIs
<1>8. CASE Unlock \/ FindDataverse \/ FindPublished \/ Add \/ Undo
  BY <1>2, <1>8, UnlockIs, FindDataverseIs, FindPublishedIs, AddIs, UndoIs
<1>9. CASE ImportPreviousFiles \/ Discard
  BY <1>1, <1>2, <1>3, <1>9, ImportIs, DiscardIs
<1>10. CASE PublishInvenio \/ Reconcile \/ PublishFigshare \/ ReadPublic
  BY <1>1, <1>2, <1>3, <1>10, PublishInvenioIs, ReconcileIs, PublishFigshareIs, ReadPublicIs
<1>11. CASE CountBefore \/ Release \/ Poll
  BY <1>1, <1>2, <1>3, <1>11, CountBeforeIs, ReleaseIs, PollIs
<1> QED BY <1>4, <1>5, <1>6, <1>7, <1>8, <1>9, <1>10, <1>11 DEF Request

LEMMA OpenKept ==
    ASSUME Shape, Placed, Effects, kind = "invenio", ~At("create"), ~At("newversion"), server'.open
    PROVE  server.open /\ server'.versions = server.versions
<1>1. ~At("add") /\ ~At("release") /\ ~At("undo")
  BY DEF Placed, Fits, OfDataverse, At
<1>2. CASE Removes(0)
  BY <1>2 DEF Removes, Serves, DraftOpen
<1>3. CASE Registers \/ Imports
  BY <1>3 DEF Registers, Imports, Holds, Serves, DraftOpen
<1>4. ASSUME NEW data, NEW done, Stores(data, done)
      PROVE  server.open /\ server'.versions = server.versions
  BY <1>4 DEF Stores, Holds, Serves, DraftOpen
<1>5. CASE Empties
  BY <1>5 DEF Empties, Serves
<1>6. CASE Releases
  BY <1>6 DEF Releases, Serves
<1> QED BY <1>1, <1>2, <1>3, <1>4, <1>5, <1>6 DEF Effects, StoresPart

LEMMA CurrentOpening ==
    ASSUME Shape, Placed, Current, Create \/ NewVersion
    PROVE  Current'
<1>1. client.op = "open" /\ Opens /\ Frame
  BY CreateIs, NewVersionIs DEF Placed, Fits, At, Opens, Idle
<1>2. CASE Waits
  BY <1>1, <1>2 DEF Waits, Current, Opens, Idle, At, Ended
<1>3. CASE \E r : Fails(r)
  BY <1>1, <1>3 DEF Fails, Ending, Core, Current, Opens, Idle, At, Ended
<1>4. ASSUME NEW d, Ending("ok", d, client.known),
             kind = "invenio" => d = Len(server'.versions) + 1
      PROVE  Current'
  <2>1. client'.op = "open" /\ ~Opens' /\ client'.draft = d
    BY <1>1, <1>4 DEF Ending, Core, Opens, Idle, At
  <2> QED BY <1>1, <1>4, <2>1 DEF Current, Frame
<1>5. CASE Create
  <2>1. Remakes => server'.versions = << >>
    BY DEF Remakes, Serves
  <2>2. Len(<< >>) + 1 = 1
    OBVIOUS
  <2> QED BY <1>2, <1>3, <1>4, <1>5, <2>1, <2>2, CreateIs
<1>6. CASE NewVersion
  <2>1. server'.versions = server.versions
    BY <1>6, NewVersionIs DEF Drafts, Serves
  <2> QED BY <1>2, <1>3, <1>4, <1>6, <2>1, NewVersionIs
<1> QED BY <1>5, <1>6

LEMMA OpenPlaced ==
    ASSUME Placed, Request, ~At("create"), ~At("newversion"), Shape
    PROVE  client.op # "open"
<1>1. Fits(client.pc, client.op)
  BY DEF Placed
<1> USE DEF At, Fits, OfInvenio, OfFigshare, OfDataverse, Uploads
<1>2. CASE Create \/ NewVersion \/ Seek \/ SeekPublished \/ Delete
  BY <1>1, <1>2, CreateIs, NewVersionIs, SeekIs, SeekPublishedIs, DeleteIs
<1>3. CASE RegisterMultipart \/ Register \/ PutContent \/ Commit \/ Abort
  BY <1>1, <1>3, RegisterMultipartIs, RegisterIs, PutContentIs, CommitIs, AbortIs
<1>4. CASE FindFigshare \/ Drop \/ Initiate \/ UploadInfo \/ PutPart \/ Complete \/ Final
  BY <1>1, <1>4, FindFigshareIs, DropIs, InitiateIs, UploadInfoIs, PutPartIs, CompleteIs, FinalIs
<1>5. CASE Unlock \/ FindDataverse \/ FindPublished \/ Add \/ Undo
  BY <1>1, <1>5, UnlockIs, FindDataverseIs, FindPublishedIs, AddIs, UndoIs
<1>6. CASE ImportPreviousFiles \/ Discard
  BY <1>1, <1>6, ImportIs, DiscardIs
<1>7. CASE PublishInvenio \/ Reconcile \/ PublishFigshare \/ ReadPublic
  BY <1>1, <1>7, PublishInvenioIs, ReconcileIs, PublishFigshareIs, ReadPublicIs
<1>8. CASE CountBefore \/ Release \/ Poll
  BY <1>1, <1>8, CountBeforeIs, ReleaseIs, PollIs
<1> QED BY <1>2, <1>3, <1>4, <1>5, <1>6, <1>7, <1>8 DEF Request

LEMMA CurrentRequest ==
    ASSUME Shape, Placed, Current, Request
    PROVE  Current'
<1>1. CASE At("create") \/ At("newversion")
  <2>1. Create \/ NewVersion
    BY <1>1 DEF Request, Create, NewVersion, Seek, SeekPublished, Delete, RegisterMultipart,
       Register, PutContent, Commit, Abort, FindFigshare, Drop, Initiate, UploadInfo, PutPart,
       Complete, Final, Unlock, FindDataverse, FindPublished, Add, Undo, ImportPreviousFiles,
       Discard, PublishInvenio, Reconcile, PublishFigshare, ReadPublic, CountBefore, Release,
       Poll, At
  <2> QED BY <2>1, CurrentOpening
<1>2. CASE ~At("create") /\ ~At("newversion")
  <2>1. client.op # "open" /\ client'.op = client.op /\ ~Idle
    BY <1>2, Busy, OpenPlaced, RequestMoves DEF Moves, Core
  <2>2. Effects /\ kind' = kind
    BY RequestEffects DEF Frame
  <2>3. kind = "invenio" /\ server'.open => server.open /\ server'.versions = server.versions
    BY <1>2, <2>2, OpenKept
  <2> QED BY <1>2, <2>1, <2>2, <2>3, DraftKept DEF Current, Opens, Ended, Idle, At
<1> QED BY <1>1, <1>2

LEMMA CurrentBegin ==
    ASSUME Shape, Placed, Current, BeginsSome
    PROVE  Current'
<1>1. /\ Idle /\ kind' = kind /\ server' = server /\ client'.draft = client.draft
      /\ client'.result = "none"
  BY BeginsMoves DEF Rest
<1>2. CASE BeginsOpen
  <2>1. /\ client'.op = "open" /\ client'.wish = client.wish
        /\ client'.wish = {} => client.draft = 0
    BY <1>2 DEF BeginsOpen, Begins, Reopens
  <2> QED BY <1>1, <2>1 DEF Current, Opens
<1>3. CASE BeginsUpload \/ BeginsDelete \/ BeginsOther \/ BeginsPublish
  <2>1. client'.op # "open" /\ client.draft # 0 /\ client.wish = {}
    BY <1>3 DEF BeginsUpload, BeginsDelete, BeginsOther, BeginsPublish, Begins
  <2> QED BY <1>1, <2>1 DEF Current, Opens
<1>4. CASE BeginsReplace
  <2>1. client'.op = "replace" /\ (~Opens \/ client.draft = 0)
    BY <1>1, <1>4 DEF BeginsReplace, Begins, Current, Opens
  <2> QED BY <1>1, <2>1 DEF Current, Opens
<1> QED BY <1>2, <1>3, <1>4 DEF BeginsSome

LEMMA CurrentNext ==
    ASSUME Shape, Placed, Settled, Current, [Next]_vars
    PROVE  Current'
<1>1. CASE Begin \/ Retry
  BY <1>1, BeginIs, CurrentBegin DEF BeginsSome
<1>2. CASE Finalize
  BY <1>2, FinalizeIs DEF Settled, Current, Opens, Ended, Idle, At
<1>3. CASE Edit \/ UNCHANGED vars
  BY <1>3, EditIs DEF vars, Current, Opens, Ended, Idle, At
<1>4. CASE Death
  <2>1. kind' = kind /\ client'.draft = 0 /\ client'.op = "none"
    BY <1>4, DeathIs DEF Dies
  <2> QED BY <2>1 DEF Current, Opens
<1> QED BY <1>1, <1>2, <1>3, <1>4, CurrentRequest DEF Next

-----------------------------------------------------------------------------
(* What a publish has done to the draft it was called on.                  *)

OnInvenio ==
    /\ client.pc \in {"publish", "reconcile"} =>
          /\ client.draft <= Len(server.versions) => Latest = client.goal
          /\ DraftOpen => server.files = client.goal
    /\ At("publish") => Len(server.versions) = client.prior
OnFigshare == At("publish") => Len(server.versions) = client.prior \/ Publishable
OnDataverse ==
    /\ client.op = "publish" /\ ~Idle => Draft = client.goal
    /\ client.pc \in {"release", "poll"} =>
          client.n \in Nat /\ (Len(server.versions) > client.n => ~server.open)
    /\ Ended({"publish"}, "ok") => ~server.open
Publishing ==
    /\ kind = "invenio" => OnInvenio
    /\ kind = "figshare" => OnFigshare
    /\ kind = "dataverse" => OnDataverse

PublishTrue ==
    /\ Ended({"publish"}, "ok") /\ kind # "figshare" =>
          server.versions # << >> /\ Latest = client.goal
    /\ Ended({"publish"}, "rejected") /\ kind # "dataverse" => Len(server.versions) = client.prior

LEMMA PublishOther ==
    ASSUME Placed', client'.op # "publish"
    PROVE  Publishing' /\ PublishTrue'
<1>1. client'.pc \notin {"publish", "reconcile", "release", "poll"}
  BY DEF Placed, Fits
<1> QED BY <1>1 DEF Publishing, OnInvenio, OnFigshare, OnDataverse, PublishTrue, Ended, At

(* The version a release makes, and the draft it leaves.                   *)
LEMMA ReleasesIs ==
    ASSUME Shape, Releases
    PROVE  /\ server'.versions # << >> /\ Latest' = server.files
           /\ Len(server'.versions) = Len(server.versions) + 1
           /\ ~server'.open
<1>1. server'.versions = Append(server.versions, server.files) /\ ~server'.open
  BY DEF Releases, Serves
<1>2. Len(server'.versions) = Len(server.versions) + 1
      /\ server'.versions[Len(server.versions) + 1] = server.files
      /\ IsSequence(server'.versions)
  BY <1>1, AppendIs DEF Shape
<1>3. Latest' = server'.versions[Len(server'.versions)]
  BY DEF Latest
<1>4. Len(server.versions) \in Nat
  BY HistoryIs DEF Shape
<1>5. server'.versions # << >>
  BY <1>2, <1>4, HistoryIs
<1> QED BY <1>1, <1>2, <1>3, <1>5

LEMMA PublishSame ==
    ASSUME Publishing, kind' = kind, server' = server, client' = client
    PROVE  Publishing'
BY DEF Publishing, OnInvenio, OnFigshare, OnDataverse, At, Idle, Ended, Latest, DraftOpen,
       Draft, Publishable, Incomplete

LEMMA PublishBusy ==
    ASSUME client'.pc # "idle"
    PROVE  PublishTrue'
BY DEF PublishTrue, Ended, Idle, At

LEMMA PublishesInvenio ==
    ASSUME Shape, Publishing, PublishInvenio
    PROVE  Publishing' /\ PublishTrue'
<1>1. /\ kind = "invenio" /\ kind' = kind /\ OnInvenio /\ At("publish")
      /\ DOMAIN server.versions = 1..Len(server.versions) /\ Len(server.versions) \in Nat
  BY PublishInvenioIs, HistoryIs DEF Frame, Publishing, Shape
<1>2. DraftOpen /\ Releases => Latest' = client.goal /\ server'.versions # << >>
                               /\ Len(server'.versions) = client.draft /\ ~server'.open
  BY <1>1, ReleasesIs DEF OnInvenio, At, DraftOpen
<1>3. CASE Waits /\ server' = server
  BY <1>1, <1>3, PublishSame, PublishBusy DEF Waits, At
<1>4. CASE Fails("rejected") /\ server' = server
  <2>1. client'.pc = "idle" /\ client'.result = "rejected" /\ client'.prior = client.prior
    BY <1>4 DEF Fails, Ending, Core
  <2> QED BY <1>1, <1>4, <2>1 DEF Publishing, OnInvenio, PublishTrue, Ended, At
<1>5. CASE Going("reconcile")
  <2>1. client'.pc = "reconcile" /\ client'.draft = client.draft /\ client'.goal = client.goal
    BY <1>5 DEF Going, Core, Same
  <2>2. CASE server' = server
    <3>1. Latest' = Latest /\ (DraftOpen' <=> DraftOpen)
      BY <1>1, <2>1, <2>2 DEF Latest, DraftOpen
    <3> QED BY <1>1, <2>1, <2>2, <3>1, PublishBusy DEF Publishing, OnInvenio, At
  <2>3. CASE DraftOpen /\ Releases
    BY <1>1, <1>2, <2>1, <2>3, PublishBusy DEF Publishing, OnInvenio, At, DraftOpen
  <2> QED BY <2>2, <2>3, PublishInvenioIs
<1>6. CASE DraftOpen /\ Releases /\ Ending("ok", 0, TRUE)
  <2>1. client'.pc = "idle" /\ client'.result = "ok" /\ client'.goal = client.goal
    BY <1>6 DEF Ending, Core
  <2> QED BY <1>1, <1>2, <1>6, <2>1 DEF Publishing, OnInvenio, PublishTrue, Ended, At
<1> QED BY <1>3, <1>4, <1>5, <1>6, PublishInvenioIs

LEMMA Reconciles ==
    ASSUME Shape, Placed, Current, Publishing, Reconcile
    PROVE  Publishing' /\ PublishTrue'
<1>1. /\ At("reconcile") /\ kind = "invenio" /\ client.op = "publish"
      /\ kind' = kind /\ server' = server /\ OnInvenio
  BY ReconcileIs DEF Placed, Fits, At, Looks, Frame, Publishing
<1>2. CASE Waits
  BY <1>1, <1>2, PublishSame, PublishBusy DEF Waits, At
<1>3. CASE Fails("failed")
  <2>1. client'.pc = "idle" /\ client'.result = "failed"
    BY <1>3 DEF Fails, Ending
  <2> QED BY <1>1, <2>1 DEF Publishing, OnInvenio, PublishTrue, Ended, At
<1>4. CASE Len(server.versions) >= client.draft /\ Ending("ok", 0, TRUE)
  <2>1. client'.pc = "idle" /\ client'.result = "ok" /\ client'.goal = client.goal
    BY <1>4 DEF Ending, Core
  <2>2. client.draft \in Nat /\ client.draft # 0 /\ Len(server.versions) \in Nat
    BY <1>1, HistoryIs DEF Current, Ended, Idle, At, Shape
  <2>3. Latest = client.goal /\ server.versions # << >>
    BY <1>1, <1>4, <2>2, HistoryIs DEF OnInvenio, At, Shape
  <2> QED BY <1>1, <2>1, <2>3 DEF Publishing, OnInvenio, PublishTrue, Ended, At, Latest
<1> QED BY <1>2, <1>3, <1>4, ReconcileIs

LEMMA PublishesFigshare ==
    ASSUME Shape, Placed, Publishing, PublishFigshare \/ ReadPublic
    PROVE  Publishing' /\ PublishTrue'
<1>1. kind = "figshare" /\ kind' = kind /\ (At("publish") \/ At("read")) /\ OnFigshare
  BY PublishFigshareIs, ReadPublicIs DEF Looks, Frame, Publishing, Placed, Fits, At
<1>2. CASE Waits
  <2>1. client' = client /\ client'.pc # "idle"
    BY <1>1, <1>2 DEF Waits, At
  <2>2. At("publish") /\ Publishable /\ Appends => Publishable'
    BY DEF Publishable, Appends, Serves, Incomplete
  <2>3. At("publish") => server' = server \/ (Publishable /\ Appends)
    BY PublishFigshareIs, ReadPublicIs DEF At
  <2>4. server' = server => (Publishable' <=> Publishable)
    BY DEF Publishable, Incomplete
  <2>5. OnFigshare'
    BY <1>1, <2>1, <2>2, <2>3, <2>4 DEF OnFigshare, At
  <2> QED BY <1>1, <2>1, <2>5, PublishBusy DEF Publishing
<1>3. CASE At("publish") /\ Fails("rejected") /\ server' = server /\ ~Publishable
  <2>1. client'.pc = "idle" /\ client'.result = "rejected" /\ client'.prior = client.prior
    BY <1>3 DEF Fails, Ending, Core
  <2> QED BY <1>1, <1>3, <2>1 DEF Publishing, OnFigshare, PublishTrue, Ended, At
<1>4. CASE Going("read")
  BY <1>1, <1>4, PublishBusy DEF Going, Publishing, OnFigshare, At
<1>5. CASE Fails("failed") \/ Ending("ok", 0, TRUE)
  <2>1. client'.pc = "idle" /\ client'.result \in {"failed", "ok"}
    BY <1>5 DEF Fails, Ending
  <2> QED BY <1>1, <2>1 DEF Publishing, OnFigshare, PublishTrue, Ended, At
<1> QED BY <1>2, <1>3, <1>4, <1>5, PublishFigshareIs, ReadPublicIs

LEMMA PublishesDataverse ==
    ASSUME Shape, Placed, Publishing, kind = "dataverse", client.op = "publish",
           Unlock \/ CountBefore \/ Release \/ Poll
    PROVE  Publishing' /\ PublishTrue'
<1>1. kind' = kind /\ OnDataverse /\ ~Idle /\ Len(server.versions) \in Nat
  BY UnlockIs, CountBeforeIs, ReleaseIs, PollIs, HistoryIs
     DEF Looks, Frame, Publishing, At, Idle, Shape
<1>2. server' = server \/ Accepts
  BY UnlockIs, CountBeforeIs, ReleaseIs, PollIs DEF Looks
<1>3. /\ server'.versions = server.versions /\ server'.open = server.open
      /\ Draft' = Draft /\ Latest' = Latest
  BY <1>1, <1>2 DEF Accepts, Serves, Draft, Latest
<1>4. client'.op = "publish" /\ client'.goal = client.goal
  BY RequestMoves DEF Moves, Core, Request
<1>5. ASSUME client'.pc # "idle",
             client'.pc \in {"release", "poll"} =>
                client'.n \in Nat /\ (Len(server.versions) > client'.n => ~server.open)
      PROVE  Publishing' /\ PublishTrue'
  <2>1. OnDataverse'
    BY <1>1, <1>3, <1>4, <1>5 DEF OnDataverse, Ended, Idle, At
  <2> QED BY <1>1, <1>5, <2>1, PublishBusy DEF Publishing
<1>6. CASE Waits
  BY <1>1, <1>5, <1>6 DEF Waits, OnDataverse, Idle, At
<1>7. CASE \E r : Fails(r)
  <2>1. client'.pc = "idle" /\ client'.result # "ok"
    BY <1>7 DEF Fails, Ending
  <2> QED BY <1>1, <2>1 DEF Publishing, OnDataverse, PublishTrue, Ended, Idle, At
<1>8. CASE Going("before")
  BY <1>5, <1>8 DEF Going
<1>9. CASE Going("release") /\ client'.n = Len(server.versions)
  BY <1>1, <1>5, <1>9 DEF Going
<1>10. CASE At("release") /\ Going("poll") /\ client'.n = client.n
  BY <1>1, <1>5, <1>10 DEF Going, OnDataverse, At
<1>11. CASE At("poll") /\ Len(server.versions) > client.n /\ Ending("ok", 0, TRUE)
  <2>1. client'.pc = "idle" /\ client'.result = "ok"
    BY <1>11 DEF Ending
  <2>2. client.n \in Nat /\ ~server.open /\ Draft = client.goal
    BY <1>1, <1>11 DEF OnDataverse, At
  <2>3. server.versions # << >> /\ Latest = client.goal
    BY <1>1, <1>11, <2>2, HistoryIs DEF Draft, Shape
  <2> QED BY <1>1, <1>3, <1>4, <2>1, <2>2, <2>3
      DEF Publishing, OnDataverse, PublishTrue, Ended, Idle, At
<1> QED BY <1>6, <1>7, <1>8, <1>9, <1>10, <1>11, UnlockIs, CountBeforeIs, ReleaseIs, PollIs

LEMMA PublishRequests ==
    ASSUME Shape, Placed, Request, client.op = "publish"
    PROVE  \/ PublishInvenio \/ Reconcile \/ PublishFigshare \/ ReadPublic
           \/ kind = "dataverse" /\ (Unlock \/ CountBefore \/ Release \/ Poll)
<1>1. Fits(client.pc, client.op)
  BY DEF Placed
<1> USE DEF At, Fits, OfInvenio, OfFigshare, OfDataverse, Uploads
<1>2. CASE Create \/ NewVersion \/ Seek \/ SeekPublished \/ Delete
  BY <1>1, <1>2, CreateIs, NewVersionIs, SeekIs, SeekPublishedIs, DeleteIs
<1>3. CASE RegisterMultipart \/ Register \/ PutContent \/ Commit \/ Abort
  BY <1>1, <1>3, RegisterMultipartIs, RegisterIs, PutContentIs, CommitIs, AbortIs
<1>4. CASE FindFigshare \/ Drop \/ Initiate \/ UploadInfo \/ PutPart \/ Complete \/ Final
  BY <1>1, <1>4, FindFigshareIs, DropIs, InitiateIs, UploadInfoIs, PutPartIs, CompleteIs, FinalIs
<1>5. CASE FindDataverse \/ FindPublished \/ Add \/ Undo
  BY <1>1, <1>5, FindDataverseIs, FindPublishedIs, AddIs, UndoIs
<1>6. CASE ImportPreviousFiles \/ Discard
  BY <1>1, <1>6, ImportIs, DiscardIs
<1>7. CASE Unlock \/ CountBefore \/ Release \/ Poll
  BY <1>1, <1>7, UnlockIs, CountBeforeIs, ReleaseIs, PollIs
<1> QED BY <1>2, <1>3, <1>4, <1>5, <1>6, <1>7 DEF Request

LEMMA PublishingBegin ==
    ASSUME Shape, Placed, BeginsSome
    PROVE  Publishing' /\ PublishTrue'
<1>1. /\ kind' = kind /\ server' = server /\ client'.draft = client.draft
      /\ Placed' /\ client'.result = "none" /\ client'.pc # "idle"
  BY BeginsMoves, BeginsPlaces, PlacedBegin DEF Rest
<1>2. CASE client'.op = "publish"
  <2>1. /\ client.draft # 0 /\ client'.prior = Len(server.versions)
        /\ client'.goal = IF AlreadyOut THEN Latest ELSE Draft
        /\ client'.pc = IF kind = "dataverse" THEN "unlock" ELSE "publish"
    BY <1>2 DEF BeginsSome, BeginsOpen, BeginsUpload, BeginsReplace, BeginsDelete, BeginsOther,
       BeginsPublish, Begins
  <2>2. CASE kind = "invenio"
    <3>1. DOMAIN server.versions = 1..Len(server.versions) /\ Len(server.versions) \in Nat
          /\ client.draft \in Nat
      BY HistoryIs DEF Shape
    <3>2. client.draft <= Len(server.versions) => client'.goal = Latest
      BY <2>1, <2>2, <3>1 DEF AlreadyOut
    <3>3. DraftOpen => client'.goal = server.files
      BY <2>1, <2>2, <3>1 DEF AlreadyOut, DraftOpen, Draft
    <3>4. Latest' = Latest /\ (DraftOpen' <=> DraftOpen)
      BY <1>1 DEF Latest, DraftOpen
    <3>5. OnInvenio'
      BY <1>1, <2>1, <3>2, <3>3, <3>4 DEF OnInvenio, At
    <3> QED BY <1>1, <2>2, <3>5, PublishBusy DEF Publishing
  <2>3. CASE kind = "figshare"
    <3>1. OnFigshare'
      BY <1>1, <2>1 DEF OnFigshare
    <3> QED BY <1>1, <2>3, <3>1, PublishBusy DEF Publishing
  <2>4. CASE kind = "dataverse"
    <3>1. ~AlreadyOut /\ Draft' = Draft
      BY <1>1, <2>4 DEF AlreadyOut, Draft, Latest
    <3>2. OnDataverse'
      BY <1>1, <2>1, <2>4, <3>1 DEF OnDataverse, Ended
    <3> QED BY <1>1, <2>4, <3>2, PublishBusy DEF Publishing
  <2> QED BY <2>2, <2>3, <2>4 DEF Shape
<1> QED BY <1>1, <1>2, PublishOther

LEMMA PublishingFinalize ==
    ASSUME Shape, Settled, Publishing, PublishTrue, Finalize
    PROVE  Publishing' /\ PublishTrue'
<1>1. /\ kind = "dataverse" /\ kind' = kind /\ client' = client /\ server.open
      /\ OnDataverse /\ Len(server.versions) \in Nat
  BY FinalizeIs, HistoryIs DEF Settled, Publishing, Shape
<1>2. /\ server'.versions # << >> /\ Latest' = server.files
      /\ Len(server'.versions) = Len(server.versions) + 1 /\ ~server'.open
  BY FinalizeIs, ReleasesIs
<1>3. Draft = server.files /\ Draft' = server.files
  BY <1>1, <1>2 DEF Draft
<1>4. OnDataverse'
  BY <1>1, <1>2, <1>3 DEF OnDataverse, Ended, Idle, At
<1>5. ~Ended({"publish"}, "ok")
  BY <1>1 DEF OnDataverse
<1> QED BY <1>1, <1>4, <1>5 DEF Publishing, PublishTrue, Ended, Idle, At

LEMMA PublishingNext ==
    ASSUME Shape, Placed, Settled, Current, Publishing, PublishTrue, [Next]_vars
    PROVE  Publishing' /\ PublishTrue'
<1>1. CASE Request
  <2>1. CASE client.op # "publish"
    BY <1>1, <2>1, PlacedRequest, RequestMoves, PublishOther DEF Moves, Core
  <2>2. CASE client.op = "publish"
    BY <1>1, <2>2, PublishRequests, PublishesInvenio, Reconciles, PublishesFigshare,
       PublishesDataverse
  <2> QED BY <2>1, <2>2
<1>2. CASE Begin \/ Retry
  BY <1>2, BeginIs, PublishingBegin DEF BeginsSome
<1>3. CASE Finalize
  BY <1>3, PublishingFinalize
<1>4. CASE Edit \/ UNCHANGED vars
  <2>1. kind' = kind /\ server' = server /\ client' = client
    BY <1>4, EditIs DEF vars
  <2> QED BY <2>1, PublishSame DEF PublishTrue, Ended, Idle, At, Latest
<1>5. CASE Death
  <2>1. client'.op # "publish"
    BY <1>5, DeathIs DEF Dies
  <2> QED BY <2>1, PlacedNext, PublishOther
<1> QED BY <1>1, <1>2, <1>3, <1>4, <1>5 DEF Next

-----------------------------------------------------------------------------
(* What a delete reports absent.                                           *)

LEMMA AbsenceOther ==
    ASSUME ~Ended({"delete"}, "notfound")'
    PROVE  AbsenceIsReal'
BY DEF AbsenceIsReal

LEMMA AbsenceSame ==
    ASSUME AbsenceIsReal, kind' = kind, server' = server, client' = client
    PROVE  AbsenceIsReal'
BY DEF AbsenceIsReal, Ended, Idle, At, Has, EntriesOf, Draft, Latest

LEMMA AbsenceRequests ==
    ASSUME Shape, Placed, Request, client.op = "delete"
    PROVE  Seek \/ SeekPublished \/ Delete
<1>1. Fits(client.pc, client.op)
  BY DEF Placed
<1> USE DEF At, Fits, OfInvenio, OfFigshare, OfDataverse, Uploads
<1>2. CASE Create \/ NewVersion
  BY <1>1, <1>2, CreateIs, NewVersionIs
<1>3. CASE RegisterMultipart \/ Register \/ PutContent \/ Commit \/ Abort
  BY <1>1, <1>3, RegisterMultipartIs, RegisterIs, PutContentIs, CommitIs, AbortIs
<1>4. CASE FindFigshare \/ Drop \/ Initiate \/ UploadInfo \/ PutPart \/ Complete \/ Final
  BY <1>1, <1>4, FindFigshareIs, DropIs, InitiateIs, UploadInfoIs, PutPartIs, CompleteIs, FinalIs
<1>5. CASE Unlock \/ FindDataverse \/ FindPublished \/ Add \/ Undo
  BY <1>1, <1>5, UnlockIs, FindDataverseIs, FindPublishedIs, AddIs, UndoIs
<1>6. CASE ImportPreviousFiles \/ Discard
  BY <1>1, <1>6, ImportIs, DiscardIs
<1>7. CASE PublishInvenio \/ Reconcile \/ PublishFigshare \/ ReadPublic
  BY <1>1, <1>7, PublishInvenioIs, ReconcileIs, PublishFigshareIs, ReadPublicIs
<1>8. CASE CountBefore \/ Release \/ Poll
  BY <1>1, <1>8, CountBeforeIs, ReleaseIs, PollIs
<1> QED BY <1>2, <1>3, <1>4, <1>5, <1>6, <1>7, <1>8 DEF Request

(* A draft that is not the caller's is not open, and InvenioRDM shows the  *)
(* files of an open draft only.                                            *)
LEMMA AbsenceRequest ==
    ASSUME Shape, Placed, Current, Request, kind # "dataverse"
    PROVE  AbsenceIsReal'
<1> SUFFICES ASSUME Ended({"delete"}, "notfound")' PROVE AbsenceIsReal'
  BY AbsenceOther
<1>1. /\ client.op = "delete" /\ client'.key = client.key /\ kind' = kind
      /\ client'.pc = "idle" /\ client'.result = "notfound" /\ ~Idle
  BY Busy, RequestMoves, RequestEffects DEF Ended, Idle, At, Moves, Core, Frame
<1>2. ASSUME server' = server, ~Has(client.key)
      PROVE  AbsenceIsReal'
  BY <1>1, <1>2 DEF AbsenceIsReal, Has, EntriesOf, Draft, Latest
<1>3. Hit(0) = {} => ~Has(client.key)
  BY DEF Hit, Has
<1>4. kind = "invenio" /\ ~DraftOpen => ~Has(client.key)
  <2>1. client.draft # 0 /\ ~Opens
    BY <1>1 DEF Current, Ended, Opens
  <2>2. kind = "invenio" /\ ~DraftOpen => ~server.open
    BY <2>1 DEF Current, DraftOpen
  <2> QED BY <2>2 DEF Has, EntriesOf, Draft
<1>5. ~Waits /\ \A p : p # "idle" => ~Going(p)
  BY <1>1 DEF Waits, Idle, At, Going
<1>6. ~Deletes("failed") /\ ~Deletes("ok")
  BY <1>1 DEF Deletes, Ending
<1>7. Seek \/ Delete
  BY <1>1, AbsenceRequests, SeekPublishedIs DEF Placed, Fits, At
<1>8. CASE Seek
  BY <1>2, <1>5, <1>6, <1>8, SeekIs DEF Looks
<1>9. CASE Delete
  BY <1>2, <1>3, <1>4, <1>5, <1>6, <1>9, DeleteIs
<1> QED BY <1>7, <1>8, <1>9

LEMMA AbsenceNext ==
    ASSUME Shape, Placed, Settled, Current, kind # "dataverse" => AbsenceIsReal, [Next]_vars
    PROVE  kind' # "dataverse" => AbsenceIsReal'
<1>1. kind' = kind
  BY RequestEffects, BeginIs, BeginsMoves, FinalizeIs, EditIs, DeathIs
     DEF Next, Frame, BeginsSome, Rest, Dies, vars
<1>2. CASE Request
  BY <1>1, <1>2, AbsenceRequest
<1>3. CASE Begin \/ Retry
  <2>1. client'.result = "none"
    BY <1>3, BeginIs, BeginsMoves DEF BeginsSome
  <2> QED BY <2>1, AbsenceOther DEF Ended
<1>4. CASE Finalize
  BY <1>1, <1>4, FinalizeIs DEF Settled
<1>5. CASE Edit \/ UNCHANGED vars
  BY <1>1, <1>5, EditIs, AbsenceSame DEF vars
<1>6. CASE Death
  <2>1. client'.result = "none"
    BY <1>6, DeathIs DEF Dies
  <2> QED BY <2>1, AbsenceOther DEF Ended
<1> QED BY <1>2, <1>3, <1>4, <1>5, <1>6 DEF Next

-----------------------------------------------------------------------------
(* No name but the caller's is left behind.                                *)

Plain(files) == \A f \in files : f.n = 0
PlainVersions == \A i \in 1..Len(server.versions) : Plain(server.versions[i])
AllPlain == Plain(Draft) /\ PlainVersions

(* The entry that came out renamed, before it is taken back. *)
Stray ==
    /\ At("undo") /\ faults + deaths = 1 /\ PlainVersions /\ server.open
    /\ \A f \in server.files : f.n # 0 => f.key = client.key /\ f.n = client.n

Strangers ==
    /\ kind # "dataverse" => Plain(server.files) /\ PlainVersions
    /\ kind = "dataverse" =>
          /\ At("find published") => ~server.open
          /\ faults + deaths <= 1 => AllPlain \/ Stray
          /\ At("add") /\ faults + deaths = 0 => EntriesOf(client.key) = {}

LEMMA SpareIs ==
    ASSUME NEW key, EntriesOf(key) = {}
    PROVE  Spare(key) = 0
<1>1. Cardinality(EntriesOf(key)) = 0
  BY FS_EmptySet
<1> DEFINE Free(n) == /\ \A f \in EntriesOf(key) : f.n # n
                      /\ \A m \in 0..(n - 1) : \E f \in EntriesOf(key) : f.n = m
<1>2. 0 \in 0..0 /\ (\A n \in 0..0 : n = 0) /\ Free(0)
  OBVIOUS
<1>3. Spare(key) = CHOOSE n \in 0..0 : Free(n)
  BY <1>1 DEF Spare
<1> QED BY <1>2, <1>3

LEMMA PlainAppend ==
    ASSUME Shape, PlainVersions, Plain(server.files),
           server'.versions = Append(server.versions, server.files)
    PROVE  PlainVersions'
<1>1. /\ Len(server.versions) \in Nat
      /\ Len(server'.versions) = Len(server.versions) + 1
      /\ server'.versions[Len(server.versions) + 1] = server.files
      /\ \A i \in 1..Len(server.versions) : server'.versions[i] = server.versions[i]
  BY HistoryIs, AppendIs DEF Shape
<1>2. ASSUME NEW i \in 1..Len(server'.versions)
      PROVE  Plain(server'.versions[i])
  <2>1. i \in 1..Len(server.versions) \/ i = Len(server.versions) + 1
    BY <1>1, <1>2
  <2> QED BY <1>1, <2>1 DEF PlainVersions
<1> QED BY <1>2 DEF PlainVersions

(* Archives without renames. *)
LEMMA PlainElsewhere ==
    ASSUME Shape, Placed, Effects, kind # "dataverse", Plain(server.files), PlainVersions
    PROVE  Plain(server'.files) /\ PlainVersions'
<1>1. ~At("add") /\ ~At("undo") /\ ~At("release")
  BY DEF Placed, Fits, OfDataverse, At
<1>2. Plain(Draft) /\ Plain({})
  BY DEF Plain, Draft
<1>3. ASSUME NEW o, NEW f, NEW r, Plain(f), Serves(server.versions, o, f, r)
      PROVE  Plain(server'.files) /\ PlainVersions'
  BY <1>3 DEF Serves, PlainVersions
<1>4. CASE server' = server
  BY <1>4 DEF PlainVersions
<1>5. CASE Remakes
  <2>1. server'.versions = << >> /\ server'.files = {} /\ Len(<< >>) = 0
    BY <1>5 DEF Remakes, Serves
  <2> QED BY <1>2, <2>1 DEF PlainVersions
<1>6. CASE Drafts \/ Empties
  BY <1>2, <1>3, <1>6 DEF Drafts, Empties
<1>7. CASE Removes(0)
  <2>1. Plain(Draft \ Hit(0))
    BY <1>2 DEF Plain
  <2> QED BY <1>3, <1>7, <2>1 DEF Removes
<1>8. \A data, done : Entry(data, done).n = 0
  BY DEF Entry
<1>9. CASE Registers
  <2>1. Plain(server.files \union {Entry(<< >>, FALSE)})
    BY <1>8 DEF Plain
  <2> QED BY <1>3, <1>9, <2>1 DEF Registers, Holds
<1>10. ASSUME NEW data, NEW done, Stores(data, done)
       PROVE  Plain(server'.files) /\ PlainVersions'
  <2>1. Plain(With(data, done))
    BY <1>8 DEF Plain, With
  <2> QED BY <1>3, <1>10, <2>1 DEF Stores, Holds
<1>11. CASE Imports
  <2>1. Plain(Latest)
    BY <1>11, HistoryIs DEF Imports, PlainVersions, Latest, Shape
  <2> QED BY <1>3, <1>11, <2>1 DEF Imports, Holds
<1>12. CASE Releases \/ Appends
  <2>1. server'.versions = Append(server.versions, server.files)
        /\ (server'.files = {} \/ server'.files = server.files)
    BY <1>12 DEF Releases, Appends, Serves
  <2>2. PlainVersions'
    BY <2>1, PlainAppend
  <2> QED BY <1>2, <2>1, <2>2
<1> QED BY <1>1, <1>4, <1>5, <1>6, <1>7, <1>9, <1>10, <1>11, <1>12 DEF Effects, StoresPart

(* On Dataverse every request keeps the versions, but a new record's. *)
LEMMA VersionsKept ==
    ASSUME Shape, Placed, Effects, kind = "dataverse", PlainVersions
    PROVE  PlainVersions'
<1>1. CASE At("create") /\ Remakes
  <2>1. server'.versions = << >> /\ Len(<< >>) = 0
    BY <1>1 DEF Remakes, Serves
  <2> QED BY <2>1 DEF PlainVersions
<1>2. CASE server'.versions = server.versions
  BY <1>2 DEF PlainVersions
<1> QED BY <1>1, <1>2 DEF Effects, Removes, Registers, Stores, StoresPart, Adds, Imports, Empties,
           Accepts, Drafts, Holds, Serves

LEMMA DataverseEffects ==
    ASSUME Placed, Effects, kind = "dataverse"
    PROVE  \/ server' = server
           \/ Remakes \/ Removes(0) \/ Empties \/ Accepts
           \/ At("undo") /\ Removes(client.n)
           \/ At("add") /\ Adds
<1>1. /\ client.pc \notin OfInvenio \union OfFigshare
      /\ ~At("part") /\ ~At("import")
  BY DEF Placed, Fits, At
<1> QED BY <1>1 DEF OfInvenio, OfFigshare, At, Effects

LEMMA PlainKept ==
    ASSUME Shape, Placed, Effects, kind = "dataverse", kind' = kind, AllPlain, ~At("add")
    PROVE  AllPlain'
<1>1. PlainVersions'
  BY VersionsKept DEF AllPlain
<1>2. CASE server' = server
  BY <1>1, <1>2 DEF AllPlain, Draft, Latest
<1>3. ASSUME NEW n, Removes(n)
      PROVE  AllPlain'
  BY <1>1, <1>3 DEF Removes, Serves, AllPlain, Plain, Draft
<1>4. CASE Remakes
  BY <1>1, <1>4 DEF Remakes, Serves, AllPlain, Plain, Draft
<1>5. CASE Accepts
  BY <1>1, <1>5 DEF Accepts, Serves, AllPlain, Draft, Latest
<1>6. CASE Empties
  <2>1. ~server'.open /\ server'.versions = server.versions
    BY <1>6 DEF Empties, Serves
  <2>2. server.versions # << >> => Plain(Latest)
    BY HistoryIs DEF AllPlain, PlainVersions, Latest, Shape
  <2> QED BY <1>1, <2>1, <2>2 DEF AllPlain, Plain, Draft, Latest
<1> QED BY <1>2, <1>3, <1>4, <1>5, <1>6, DataverseEffects

LEMMA StrangersTo ==
    ASSUME kind = "dataverse", kind' = kind,
           client'.pc \notin {"add", "find published"},
           faults' + deaths' <= 1 => AllPlain' \/ Stray'
    PROVE  Strangers'
BY DEF Strangers, At

LEMMA NoEntries ==
    ASSUME Plain(Draft), ~Has(client.key)
    PROVE  EntriesOf(client.key) = {}
BY DEF Plain, Has, EntriesOf

LEMMA StrangersOrdinary ==
    ASSUME Shape, Placed, Strangers, kind = "dataverse", Request, ~At("add"), ~At("undo")
    PROVE  /\ kind' = kind
           /\ faults' + deaths' <= 1 => AllPlain /\ AllPlain'
           /\ faults' + deaths' = 0 => faults + deaths = 0 /\ AllPlain
<1>1. Effects /\ Frame
  BY RequestEffects
<1>2. faults + deaths <= 1 => AllPlain
  BY DEF Strangers, Stray
<1> QED BY <1>1, <1>2, PlainKept DEF Frame, Shape

LEMMA StrangersFindDataverse ==
    ASSUME Shape, Placed, Strangers, FindDataverse
    PROVE  Strangers'
<1>1. At("find") /\ kind = "dataverse" /\ server' = server /\ Request
  BY FindDataverseIs DEF Looks, Request
<1>2. /\ kind' = kind
      /\ faults' + deaths' <= 1 => AllPlain'
      /\ faults' + deaths' = 0 => AllPlain
  BY <1>1, StrangersOrdinary DEF At
<1>3. ASSUME client'.pc \notin {"add", "find published"}
      PROVE  Strangers'
  BY <1>1, <1>2, <1>3, StrangersTo
<1>4. CASE ~server.open /\ Going("find published")
  BY <1>1, <1>2, <1>4 DEF Going, Strangers, At
<1>5. CASE ~Has(client.key) /\ Starts
  <2>1. client'.pc = "add" /\ client'.key = client.key
    BY <1>5 DEF Starts, Core
  <2>2. AllPlain => EntriesOf(client.key) = {}
    BY <1>5, NoEntries DEF AllPlain
  <2>3. EntriesOf(client.key)' = EntriesOf(client.key)
    BY <1>1, <1>2, <2>1 DEF EntriesOf, Draft, Latest
  <2> QED BY <1>1, <1>2, <2>1, <2>2, <2>3 DEF Strangers, At
<1> QED BY <1>1, <1>3, <1>4, <1>5, FindDataverseIs DEF Waits, Fails, Ending, Going, At

LEMMA StrangersFindPublished ==
    ASSUME Shape, Placed, Strangers, FindPublished
    PROVE  Strangers'
<1>1. /\ At("find published") /\ kind = "dataverse" /\ server' = server /\ Request
      /\ ~server.open /\ Frame
  BY FindPublishedIs DEF Looks, Request, Placed, Fits, OfDataverse, At, Strangers
<1>2. /\ kind' = kind
      /\ faults' + deaths' <= 1 => AllPlain'
      /\ faults' + deaths' = 0 => AllPlain
  BY <1>1, StrangersOrdinary DEF At
<1>3. CASE Waits
  BY <1>1, <1>2, <1>3 DEF Waits, Strangers, At
<1>4. CASE Going("drop")
  BY <1>1, <1>2, <1>4, StrangersTo DEF Going
<1>5. CASE Starts
  <2>1. client'.pc = "add" /\ client'.key = client.key
    BY <1>5 DEF Starts, Core
  <2>2. faults' + deaths' = 0 => faults' # faults + 1
    <3>1. faults \in Nat /\ deaths \in Nat /\ deaths' = deaths
      BY <1>1 DEF Frame, Shape
    <3> QED BY <3>1
  <2>3. ~Waits /\ ~Going("drop")
    BY <1>1, <1>5 DEF Starts, Waits, Going, At
  <2>4. faults' + deaths' = 0 => ~Has(client.key) \/ server.versions = << >>
    BY <1>5, <2>2, <2>3, FindPublishedIs
  <2>5. server.versions = << >> => EntriesOf(client.key) = {}
    BY <1>1 DEF EntriesOf, Draft
  <2>6. faults' + deaths' = 0 => EntriesOf(client.key) = {}
    BY <1>2, <2>4, <2>5, NoEntries DEF AllPlain
  <2>7. EntriesOf(client.key)' = EntriesOf(client.key)
    BY <1>1, <1>2, <2>1 DEF EntriesOf, Draft, Latest
  <2> QED BY <1>1, <1>2, <2>1, <2>6, <2>7 DEF Strangers, At
<1> QED BY <1>3, <1>4, <1>5, FindPublishedIs

LEMMA StrangersDrop ==
    ASSUME Shape, Placed, Strangers, kind = "dataverse", Drop
    PROVE  Strangers'
<1>1. At("drop") /\ Request
  BY DropIs DEF Request
<1>2. /\ kind' = kind
      /\ faults' + deaths' <= 1 => AllPlain'
      /\ faults' + deaths' = 0 => AllPlain
  BY <1>1, StrangersOrdinary DEF At
<1>3. ASSUME client'.pc \notin {"add", "find published"}
      PROVE  Strangers'
  BY <1>2, <1>3, StrangersTo
<1>4. CASE Removes(0) /\ Starts
  <2>1. client'.pc = "add" /\ client'.key = client.key
    BY <1>4 DEF Starts, Core
  <2>2. Draft' = Draft \ Hit(0)
    BY <1>4 DEF Removes, Serves, Draft
  <2>3. AllPlain => EntriesOf(client.key)' = {}
    BY <2>1, <2>2 DEF AllPlain, Plain, EntriesOf, Hit
  <2> QED BY <1>2, <2>1, <2>3 DEF Strangers, At
<1> QED BY <1>1, <1>3, <1>4, DropIs DEF Waits, Fails, Ending, Going, At

LEMMA StrangersAdd ==
    ASSUME Shape, Placed, Strangers, Add
    PROVE  Strangers'
<1>1. /\ At("add") /\ kind = "dataverse" /\ kind' = kind /\ Effects /\ Frame
      /\ server' = server \/ Adds
  BY AddIs, RequestEffects DEF Request, Placed, Fits, OfDataverse, At, Frame
<1>2. /\ faults + deaths <= 1 => AllPlain
      /\ faults + deaths = 0 => EntriesOf(client.key) = {}
  BY <1>1 DEF Strangers, Stray, At
<1>3. NewEntry.key = client.key /\ NewEntry.n = Spare(client.key)
  BY NewEntryIs
<1>4. Adds => Draft' = Draft \union {NewEntry} /\ server'.files = Draft \union {NewEntry}
              /\ server'.open
  BY DEF Adds, Serves, Draft
<1>5. PlainVersions => PlainVersions'
  BY <1>1, VersionsKept
<1>6. AllPlain /\ Adds /\ Spare(client.key) = 0 => AllPlain'
  BY <1>3, <1>4, <1>5 DEF AllPlain, Plain
<1>7. AllPlain /\ server' = server => AllPlain'
  BY <1>1, <1>5 DEF AllPlain, Draft, Latest
<1>8. faults' + deaths' <= 1 => faults + deaths <= 1
  BY <1>1 DEF Frame, Shape
<1>9. faults + deaths = 0 => Spare(client.key) = 0
  BY <1>2, SpareIs
<1>10. faults' = faults + 1 /\ faults' + deaths' <= 1 => faults + deaths = 0
  BY <1>1 DEF Frame, Shape
<1>11. (faults' = faults + 1 \/ server' = server) /\ faults' + deaths' <= 1 => AllPlain'
  BY <1>1, <1>2, <1>6, <1>7, <1>8, <1>9, <1>10
<1>12. CASE Waits
  <2>1. client'.pc = "add" /\ faults' + deaths' # 0
    BY <1>1, <1>12 DEF Waits, At, Frame, Shape
  <2> QED BY <1>1, <1>11, <1>12, <2>1 DEF Waits, Strangers, At
<1>13. CASE (\E r : Fails(r)) /\ (faults' = faults + 1 \/ server' = server)
  BY <1>1, <1>11, <1>13, StrangersTo DEF Fails, Ending
<1>14. CASE Adds /\ Going("undo") /\ client'.n = Spare(client.key)
  <2>1. client'.pc = "undo" /\ client'.key = client.key
    BY <1>14 DEF Going, Core
  <2>2. CASE faults + deaths = 0 \/ ~(faults' + deaths' <= 1)
    BY <1>1, <1>2, <1>6, <1>9, <1>14, <2>1, <2>2, StrangersTo
  <2>3. CASE faults' + deaths' <= 1 /\ faults + deaths # 0
    <3>1. faults' + deaths' = 1
      BY <1>1, <2>3 DEF Frame, Shape
    <3>2. AllPlain
      BY <1>2, <1>8, <2>3
    <3>3. \A f \in server'.files : f.n # 0 => f.key = client'.key /\ f.n = client'.n
      BY <1>3, <1>4, <1>14, <2>1, <3>2 DEF AllPlain, Plain
    <3>4. Stray'
      BY <1>4, <1>5, <1>14, <2>1, <3>1, <3>2, <3>3 DEF Stray, At, AllPlain
    <3> QED BY <1>1, <2>1, <3>4, StrangersTo
  <2> QED BY <2>2, <2>3
<1>15. CASE Adds /\ Spare(client.key) = 0 /\ Succeeds
  BY <1>1, <1>2, <1>6, <1>8, <1>15, StrangersTo DEF Succeeds, Ending
<1> QED BY <1>12, <1>13, <1>14, <1>15, AddIs

LEMMA StrangersUndo ==
    ASSUME Shape, Placed, Settled, Strangers, Undo
    PROVE  Strangers'
<1>1. /\ At("undo") /\ kind = "dataverse" /\ kind' = kind /\ Effects /\ Frame
      /\ ~server.releasing
  BY UndoIs, RequestEffects DEF Request, Placed, Fits, OfDataverse, At, Frame, Settled, Quiet
<1>2. client'.pc \notin {"add", "find published"}
  BY <1>1, UndoIs DEF Waits, Fails, Ending, At
<1>3. faults' + deaths' <= 1 => faults + deaths <= 1
  BY <1>1 DEF Frame, Shape
<1>4. AllPlain => AllPlain'
  BY <1>1, PlainKept DEF At
<1>5. ASSUME Stray, faults' + deaths' <= 1
      PROVE  AllPlain'
  <2>1. faults' # faults + 1
    BY <1>1, <1>5 DEF Stray, Frame, Shape
  <2>2. \/ Removes(client.n)
        \/ server' = server /\ Hit(client.n) = {}
    BY <1>1, <2>1, UndoIs DEF Waits
  <2>3. PlainVersions' /\ server.open
    BY <1>1, <1>5, VersionsKept DEF Stray
  <2>4. Draft = server.files /\ (\A f \in Draft : f.n # 0 => f \in Hit(client.n))
    BY <1>5, <2>3 DEF Stray, Draft, Hit, EntriesOf
  <2>5. CASE Removes(client.n)
    <3>1. Draft' = Draft \ Hit(client.n)
      BY <2>5 DEF Removes, Serves, Draft
    <3> QED BY <2>3, <2>4, <3>1 DEF AllPlain, Plain
  <2>6. CASE server' = server /\ Hit(client.n) = {}
    <3>1. Draft' = Draft
      BY <1>1, <2>6 DEF Draft, Latest
    <3> QED BY <2>3, <2>4, <2>6, <3>1 DEF AllPlain, Plain
  <2> QED BY <2>2, <2>5, <2>6
<1>6. faults + deaths <= 1 => AllPlain \/ Stray
  BY <1>1 DEF Strangers
<1> QED BY <1>1, <1>2, <1>3, <1>4, <1>5, <1>6, StrangersTo

LEMMA StrangersRequest ==
    ASSUME Shape, Placed, Settled, Strangers, Request, kind = "dataverse"
    PROVE  Strangers'
<1>1. Fits(client.pc, client.op)
  BY DEF Placed
<1>2. ASSUME client.pc \notin {"add", "find published", "undo"},
             \/ Waits
             \/ \E r, d, k : Ending(r, d, k)
             \/ \E r : Fails(r)
             \/ Succeeds
             \/ \E p : p \notin {"add", "find published"} /\ Going(p)
             \/ \E st : Deletes(st)
      PROVE  Strangers'
  <2>1. client'.pc \notin {"add", "find published"}
    BY <1>2 DEF Waits, Ending, Fails, Succeeds, Going, Deletes, UploadStart, Shape
  <2> QED BY <1>2, <2>1, StrangersOrdinary, StrangersTo DEF At
<1> USE DEF At, Fits
<1>3. CASE Create \/ NewVersion \/ Seek \/ SeekPublished \/ Delete
  BY <1>2, <1>3, CreateIs, NewVersionIs, SeekIs, SeekPublishedIs, DeleteIs
<1>4. CASE RegisterMultipart \/ Register \/ PutContent \/ Commit \/ Abort
  BY <1>1, <1>4, RegisterMultipartIs, RegisterIs, PutContentIs, CommitIs, AbortIs DEF OfInvenio
<1>5. CASE FindFigshare \/ Initiate \/ UploadInfo \/ PutPart \/ Complete \/ Final
  BY <1>1, <1>5, FindFigshareIs, InitiateIs, UploadInfoIs, PutPartIs, CompleteIs, FinalIs
     DEF OfFigshare
<1>6. CASE Unlock
  BY <1>2, <1>6, UnlockIs
<1>7. CASE ImportPreviousFiles \/ Discard
  BY <1>2, <1>7, ImportIs, DiscardIs
<1>8. CASE PublishInvenio \/ Reconcile \/ PublishFigshare \/ ReadPublic
  BY <1>1, <1>8, PublishInvenioIs, ReconcileIs, PublishFigshareIs, ReadPublicIs
<1>9. CASE CountBefore \/ Release \/ Poll
  BY <1>2, <1>9, CountBeforeIs, ReleaseIs, PollIs
<1> QED BY <1>3, <1>4, <1>5, <1>6, <1>7, <1>8, <1>9, StrangersFindDataverse,
           StrangersFindPublished, StrangersDrop, StrangersAdd, StrangersUndo DEF Request

LEMMA StrangersFinalize ==
    ASSUME Shape, Settled, Strangers, Finalize
    PROVE  Strangers'
<1>1. /\ kind = "dataverse" /\ kind' = kind /\ server.open /\ client' = client
      /\ faults' = faults /\ deaths' = deaths
      /\ client.pc \notin {"add", "find published", "undo"}
  BY FinalizeIs DEF Settled, Quiet, OfDataverse
<1>2. /\ server'.versions = Append(server.versions, server.files) /\ ~server'.open
      /\ Latest' = server.files /\ Draft = server.files
  BY <1>1, FinalizeIs, ReleasesIs DEF Releases, Serves, Draft
<1>3. Draft' \in {server.files, {}}
  BY <1>1, <1>2 DEF Draft
<1>4. AllPlain => AllPlain'
  BY <1>2, <1>3, PlainAppend DEF AllPlain, Plain
<1> QED BY <1>1, <1>4, StrangersTo DEF Strangers, Stray, At

LEMMA StrangersNext ==
    ASSUME Shape, Placed, Settled, Strangers, [Next]_vars
    PROVE  Strangers'
<1>1. CASE Request
  <2>1. CASE kind # "dataverse"
    <3>1. Plain(server'.files) /\ PlainVersions' /\ kind' = kind
      BY <1>1, <2>1, RequestEffects, PlainElsewhere DEF Strangers, Frame
    <3> QED BY <2>1, <3>1 DEF Strangers
  <2> QED BY <1>1, <2>1, StrangersRequest
<1>2. ASSUME kind' = kind, server' = server, faults' = faults
      PROVE  (PlainVersions' <=> PlainVersions) /\ (AllPlain' <=> AllPlain)
  BY <1>2 DEF AllPlain, PlainVersions, Draft, Latest
<1>3. ASSUME kind' = kind, server' = server, faults' = faults, deaths' = deaths, client' = client
      PROVE  Strangers'
  <2>1. EntriesOf(client.key)' = EntriesOf(client.key)
    BY <1>3 DEF EntriesOf, Draft, Latest
  <2> QED BY <1>2, <1>3, <2>1 DEF Strangers, Stray, At
<1>4. ASSUME kind' = kind, server' = server, faults' = faults,
             (deaths' = deaths /\ Idle) \/ deaths' = deaths + 1,
             client'.pc \notin {"add", "find published"}
      PROVE  Strangers'
  <2>1. CASE kind = "dataverse"
    <3>1. faults' + deaths' <= 1 => faults + deaths <= 1 /\ ~Stray
      <4>1. faults \in Nat /\ deaths \in Nat /\ faults' = faults
        BY <1>4 DEF Shape
      <4>2. Stray => faults + deaths = 1 /\ ~Idle
        BY DEF Stray, Idle, At
      <4>3. CASE deaths' = deaths /\ Idle
        BY <1>4, <4>2, <4>3
      <4>4. CASE deaths' = deaths + 1
        <5>1. faults' + deaths' <= 1 => faults + deaths = 0
          BY <4>1, <4>4
        <5>2. faults + deaths = 0 => faults + deaths <= 1 /\ faults + deaths # 1
          OBVIOUS
        <5> QED BY <4>2, <5>1, <5>2
      <4> QED BY <1>4, <4>3, <4>4
    <3>2. faults' + deaths' <= 1 => AllPlain
      BY <2>1, <3>1 DEF Strangers
    <3> QED BY <1>2, <1>4, <2>1, <3>2, StrangersTo
  <2>2. CASE kind # "dataverse"
    BY <1>2, <1>4, <2>2 DEF Strangers
  <2> QED BY <2>1, <2>2
<1>5. CASE Begin \/ Retry
  <2>1. BeginsSome
    BY <1>5, BeginIs DEF BeginsSome
  <2> QED BY <1>4, <2>1, BeginsMoves, BeginsPlaces DEF Rest
<1>6. CASE Finalize
  BY <1>6, StrangersFinalize
<1>7. CASE Edit \/ UNCHANGED vars
  BY <1>3, <1>7, EditIs DEF vars
<1>8. CASE Death
  <2>1. kind' = kind /\ server' = server /\ faults' = faults /\ deaths' = deaths + 1
        /\ client'.pc = "idle"
    BY <1>8, DeathIs DEF Dies
  <2> QED BY <1>4, <2>1
<1> QED BY <1>1, <1>5, <1>6, <1>7, <1>8 DEF Next

-----------------------------------------------------------------------------
(* The theorems.                                                           *)

Inductive ==
    /\ Shape /\ Placed /\ Settled /\ Sending /\ Current /\ Publishing /\ Strangers
    /\ UploadDelivers /\ PublishTrue /\ (kind # "dataverse" => AbsenceIsReal)

LEMMA InductiveInit == Init => Inductive
<1> SUFFICES ASSUME Init PROVE Inductive
  OBVIOUS
<1>1. /\ kind \in Kinds /\ server = NoRecord /\ client = Fresh
      /\ faults = 0 /\ edits = 0 /\ deaths = 0
  BY DEF Init
<1>2. /\ kind \in {"invenio", "figshare", "dataverse"}
      /\ server.versions = << >> /\ ~server.open /\ server.files = {} /\ ~server.releasing
      /\ DOMAIN server = {"versions", "open", "files", "releasing"}
      /\ server.open \in BOOLEAN /\ server.releasing \in BOOLEAN
  BY <1>1, KindsAssumption DEF NoRecord
<1>3. /\ DOMAIN client = Fields /\ client.pc = "idle" /\ client.op = "none"
      /\ client.result = "none" /\ client.multi = FALSE /\ client.draft = 0
  BY <1>1 DEF Fresh, Fields
<1>4. IsSequence(server.versions) /\ Len(server.versions) = 0
  BY <1>2 DEF IsSequence
<1>5. Shape
  BY <1>1, <1>2, <1>3, <1>4 DEF Shape
<1>6. Placed
  BY <1>3 DEF Placed, Fits, OfInvenio, OfFigshare, OfDataverse
<1>7. Settled /\ Sending /\ Current
  BY <1>2, <1>3 DEF Settled, Quiet, OfDataverse, Ended, Sending, Sent, At, Uploads, Current,
     Opens
<1>8. Publishing /\ PublishTrue /\ UploadDelivers /\ AbsenceIsReal
  BY <1>3 DEF Publishing, OnInvenio, OnFigshare, OnDataverse, PublishTrue, UploadDelivers,
     AbsenceIsReal, Ended, At
<1>9. Draft = {}
  BY <1>2 DEF Draft
<1>10. Strangers
  BY <1>2, <1>3, <1>4, <1>9 DEF Strangers, AllPlain, PlainVersions, Plain, At
<1> QED BY <1>5, <1>6, <1>7, <1>8, <1>10 DEF Inductive

LEMMA InductiveAlways == Spec => []Inductive
<1>1. Inductive /\ [Next]_vars => Inductive'
  BY ShapeNext, PlacedNext, SettledNext, SendingNext, CurrentNext, PublishingNext, StrangersNext,
     DeliversNext, AbsenceNext DEF Inductive
<1> QED BY <1>1, InductiveInit, PTL DEF Spec

(* An upload that reports success has put the file in the draft, complete, *)
(* under its own name and with the bytes that were hashed, however many    *)
(* replies were lost, requests repeated and files edited on the way; only  *)
(* a multipart upload the instance reports no MD5 of may differ, if the    *)
(* file was edited.                                                        *)
THEOREM UploadDeliversAlways == Spec => []UploadDelivers
<1>1. Inductive => UploadDelivers
  BY DEF Inductive
<1> QED BY <1>1, InductiveAlways, PTL

(* A publish on InvenioRDM or Dataverse that reports success made the      *)
(* newest version, of the draft it was called on; one on InvenioRDM or     *)
(* Figshare that was refused made none; and what a delete there reports    *)
(* absent is absent, whatever was lost or repeated.                        *)
THEOREM ReportsTrueAlways == Spec => []ReportsTrue
<1>1. Inductive => ReportsTrue
  BY DEF Inductive, PublishTrue, ReportsTrue
<1> QED BY <1>1, InductiveAlways, PTL

(* A file that Dataverse renamed is left behind only by two failures or    *)
(* deaths: with one at most, no call that ended leaves one in the draft,   *)
(* and none is in a version.                                               *)
THEOREM NoStrangersAlways == Spec => []NoStrangers
<1>1. Inductive => NoStrangers
  <2> SUFFICES ASSUME Inductive, Idle, faults + deaths <= 1
               PROVE  \A f \in UNION ({Draft} \union
                                     {server.versions[i] : i \in DOMAIN server.versions}) : f.n = 0
    BY DEF NoStrangers
  <2>1. DOMAIN server.versions = 1..Len(server.versions)
    BY HistoryIs DEF Inductive, Shape
  <2>2. Plain(Draft) /\ PlainVersions
    BY DEF Inductive, Strangers, AllPlain, Stray, Idle, At, Plain, Draft
  <2> QED BY <2>1, <2>2 DEF Plain, PlainVersions
<1> QED BY <1>1, InductiveAlways, PTL
=============================================================================

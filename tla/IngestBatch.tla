---------------------------- MODULE IngestBatch ----------------------------
(***************************************************************************)
(* The ingest commands of the command line (sage-cli/src/main.rs): each    *)
(* line of a file goes through the LLM (LlmArms), the writer's policy      *)
(* (WriterPolicy) and apply (sage-writer/src/apply.rs) into the persistent *)
(* store (SledGraphStore).  The process may die at any step and the        *)
(* command be given again.  The command "library" stands for a program     *)
(* that has no batch and uses the client from several tasks.               *)
(***************************************************************************)
EXTENDS LlmArms, WriterPolicy, TLC

CONSTANTS
    Batch,         \* the caller that is the batch
    Entities, Docs,
    IdOf,          \* name_to_id: [Names -> Entities]
    TextOf,        \* [Docs -> Texts]: the user content of the prompt for a document
    Programs,      \* what is run: records command, kind, env, file
    Envelopes,     \* what a good answer holds: sequences of raw triples
    MaxRuns,       \* bound on how often a command is given
    MaxFaults,     \* bound on errors of the store
    MaxCrashes,    \* bound on crashes
    MaxRequests    \* bound on requests of a library user

Lines == Docs \cup {"blank", "bad", "unreadable"}

ASSUME BatchAssumption ==
    /\ Batch \in Callers
    /\ Entities \subseteq Nat
    /\ Docs # {} /\ Docs \cap {"blank", "bad", "unreadable"} = {}
    /\ IdOf \in [Names -> Entities]
    /\ TextOf \in [Docs -> Texts]
    /\ \A p \in Programs : /\ p.command \in {"ingest-batch", "ingest", "ingest-stub", "library"}
                           /\ p.kind \in Kinds /\ p.env \in Envs
                           /\ p.file \in Seq(Lines)
    /\ Envelopes \subseteq Seq(RawTriples)
    /\ {MaxRuns, MaxFaults, MaxCrashes, MaxRequests} \subseteq Nat

VARIABLES
    db, disk, call, calls, crashes,   \* the store, as in SledGraphStore
    program,   \* the element of Programs that is run
    batch,     \* where the command is
    runs, faults   \* how many so far, for the bounds

storeVars == <<db, disk, call, calls, crashes>>
boundVars == <<runs, faults>>
vars == <<armVars, storeVars, program, batch, boundVars>>

Store == INSTANCE SledGraphStore WITH
    Clients <- {Batch},
    Opened <- {}, OpenedSources <- Docs, SourceSets <- SUBSET Docs,
    Edges <- [src: Entities, dst: Entities, rel: Relations, provenance: Docs],
    Fails <- TRUE, MaxCalls <- 100

-----------------------------------------------------------------------------
\* The graph as `sage stats` counts it.  Some of the edges may not be numbered:
\* they have the number the next edge will take, because an error or a crash
\* came between writing them and writing the counter.
Held(tree) ==
    LET edges == Store!Table(tree.rows, Store!K_OUT) IN
    [entities |-> Cardinality(Store!Table(tree.rows, Store!K_ENT)),
     edges |-> Cardinality(edges),
     numbered |-> Cardinality({k \in edges : k[3] < tree.meta.next_edge_seq})]

NoReport == [entities |-> 0, edges |-> 0, skipped |-> 0]

Sum(r, s) == [f \in DOMAIN r |-> r[f] + s[f]]

(***************************************************************************)
(* pc of the command:                                                      *)
(*   read     at the next line                                             *)
(*   step     about to ask the LLM for the document of a line              *)
(*   asked    the LLM is at work                                           *)
(*   resolve  apply looks up the next name of the triple at the head       *)
(*   upsert   upsert_entity for that name is under way                     *)
(*   link     apply is about to link the two entities of the triple        *)
(*   upsert_edge   and does so                                             *)
(*   done, error, dead   the summary is printed; it gave up; it crashed    *)
(***************************************************************************)
Begin(tree) ==
    [pc |-> "read", rest |-> program.file, doc |-> "none",
     triples |-> <<>>, ids |-> <<>>, local |-> {}, created |-> FALSE,
     report |-> NoReport,         \* of the current line
     seen |-> 0, ok |-> 0, totals |-> NoReport, failures |-> <<>>,
     base |-> Held(tree),    \* history: what was there when the command began
     named |-> {}, linked |-> {}, \* history: what the current line stored,
     landed |-> [named |-> {}, linked |-> {}]]   \* ... and every line counted ok

Ended == {"done", "error", "dead"}

\* The command cannot do anything without a client.
Hopeless == program.command \in {"ingest", "ingest-batch"} /\ client = NoClient

Init ==
    /\ \E p \in Programs : program = p
    /\ InitArms(program.kind, program.env)
    /\ Store!Init
    /\ batch = [Begin(db) EXCEPT
          !.pc = CASE program.command = "library" -> "done"
                   [] Hopeless -> "error"
                   [] OTHER -> @]
    /\ runs = 1 /\ faults = 0

At(pc) == batch.pc = pc

\* A step of the command that leaves the LLM and the store alone.
Go(b) ==
    /\ batch' = b
    /\ UNCHANGED <<armVars, storeVars, program, boundVars>>

\* Seeded fault: a line that cannot be parsed is not recorded.
Failed_parse_unrecorded(b, stage) ==
    IF program.command # "ingest-batch" THEN [b EXCEPT !.pc = "error"]
    ELSE IF stage = "parse" THEN [b EXCEPT !.pc = "read"]
    ELSE [b EXCEPT !.pc = "read",
                   !.failures = Append(@, [stage |-> stage,
                       tried |-> Len(request[Batch].tried)])]

\* A batch records the failure and goes on, the other commands give up.
Failed(b, stage) ==
    IF program.command # "ingest-batch" THEN [b EXCEPT !.pc = "error"]
    ELSE [b EXCEPT !.pc = "read",
                   !.failures = Append(@, [stage |-> stage,
                       tried |-> Len(request[Batch].tried)])]

\* Seeded fault: the loop comes back to a blank line.
Skipped_stays(b) == b

Skipped(b) == [b EXCEPT !.rest = Tail(@)]

\* Blank lines do not count; a line that is no text ends the command.
read_line ==
    LET line == Head(batch.rest)
        next == [batch EXCEPT !.rest = Tail(@), !.seen = @ + 1] IN
    /\ At("read") /\ batch.rest # <<>>
    /\ Go(CASE line = "blank"      -> Skipped(batch)
            [] line = "unreadable" -> [batch EXCEPT !.pc = "error"]
            [] line = "bad"        -> Failed([next EXCEPT !.doc = "none"], "parse")
            [] OTHER               -> [next EXCEPT !.doc = line, !.pc = "step"])

summary ==
    /\ At("read") /\ batch.rest = <<>>
    /\ Go([batch EXCEPT !.pc = "done"])

-----------------------------------------------------------------------------
(***************************************************************************)
(* The policy.                                                             *)
(***************************************************************************)

policy_step ==
    /\ At("step") /\ program.command # "ingest-stub"
    /\ Call(Batch, "complete", TextOf[batch.doc])
    /\ batch' = [batch EXCEPT !.pc = "asked"]
    /\ UNCHANGED <<storeVars, program, boundVars>>

\* Seeded fault: the report of a line goes on to count in the next.
RowDone_keeps_report(b) ==
    [b EXCEPT !.pc = "read", !.ok = @ + 1,
              !.totals = Sum(@, b.report),
              !.landed = [named |-> @.named \cup (b.named \X {b.doc}),
                          linked |-> @.linked \cup b.linked],
              !.named = {}, !.linked = {}, !.local = {}]

RowDone(b) ==
    [b EXCEPT !.pc = "read", !.ok = @ + 1,
              !.totals = Sum(@, b.report),
              !.landed = [named |-> @.named \cup (b.named \X {b.doc}),
                          linked |-> @.linked \cup b.linked],
              !.report = NoReport, !.named = {}, !.linked = {}, !.local = {}]

\* Apply goes on with these triples, or is through.
Apply(b, triples) ==
    IF triples = <<>> THEN RowDone([b EXCEPT !.triples = <<>>, !.ids = <<>>])
    ELSE [b EXCEPT !.triples = triples, !.ids = <<>>, !.pc = "resolve"]

Answered(a) == At("asked") /\ request[Batch].pc = "done" /\ (request[Batch].answer = "good") = a

\* The answer is dropped with the request.
Taken(b) ==
    /\ batch' = b
    /\ request' = [request EXCEPT ![Batch] = Unasked]
    /\ UNCHANGED <<client, threshold, hits, asked, storeVars, program, boundVars>>

policy_action(triples) == Answered(TRUE) /\ Taken(Apply(batch, Extracted(triples)))

\* The LLM failed, or its answer is not JSON.
policy_fails == Answered(FALSE) /\ Taken(Failed(batch, "llm"))

\* ingest-stub takes triples from its input, and takes them as they are.
run_ingest_stub(triples) ==
    /\ At("step") /\ program.command = "ingest-stub"
    /\ Go(Apply(batch, triples))

-----------------------------------------------------------------------------
(***************************************************************************)
(* Apply, on the store.                                                    *)
(***************************************************************************)

Name == IF batch.ids = <<>> THEN Head(batch.triples).src ELSE Head(batch.triples).dst
Id == IdOf[Name]

Sources == db.rows[Store!ent_key(Id)]

\* Seeded fault: both ends are known, and it goes on resolving.
Resolved_on_and_on(b) ==
    [b EXCEPT !.ids = Append(@, Id), !.local = @ \cup {Name}, !.named = @ \cup {Id},
              !.report.entities = IF b.created THEN @ + 1 ELSE @,
              !.created = FALSE, !.pc = "resolve"]

Resolved(b) ==
    [b EXCEPT !.ids = Append(@, Id), !.local = @ \cup {Name}, !.named = @ \cup {Id},
              !.report.entities = IF b.created THEN @ + 1 ELSE @,
              !.created = FALSE,
              !.pc = IF b.ids = <<>> THEN "resolve" ELSE "link"]

\* Seeded fault: an entity that exists is taken as it is.
Known_if_stored(name, id) == name \in batch.local \/ Store!Has(id)

\* Known in this call, or stored with this document: nothing to write.
Known(name, id) ==
    \/ name \in batch.local
    \/ Store!Has(id) /\ batch.doc \in db.rows[Store!ent_key(id)]

resolve_known == At("resolve") /\ Known(Name, Id) /\ Go(Resolved(batch))

\* The entity is new, or gets one more source.
resolve ==
    /\ At("resolve") /\ ~Known(Name, Id)
    /\ Store!upsert_entity(Batch, Id, {batch.doc} \cup (IF Store!Has(Id) THEN Sources ELSE {}))
    /\ batch' = [batch EXCEPT !.pc = "upsert", !.created = ~Store!Has(Id)]
    /\ UNCHANGED <<armVars, program, boundVars>>

\* The store fails, at the first access of a call or at a later one: what this
\* line stored so far stays, and so does what the call itself wrote.
Fault(b) ==
    /\ faults < MaxFaults
    /\ faults' = faults + 1
    /\ batch' = b
    /\ UNCHANGED <<armVars, program, runs>>

resolve_fails ==
    /\ \/ At("resolve") /\ Name \notin batch.local /\ UNCHANGED storeVars
       \/ At("upsert") /\ Store!fails(Batch)
    /\ Fault(Failed([batch EXCEPT !.triples = <<>>, !.ids = <<>>, !.report = NoReport,
                                  !.created = FALSE,
                                  !.local = {}, !.named = {}, !.linked = {}], "apply"))

resolved == At("upsert") /\ call[Batch].pc = "idle" /\ Go(Resolved(batch))

Edge == [src |-> batch.ids[1], dst |-> batch.ids[2], rel |-> Head(batch.triples).rel,
         provenance |-> batch.doc]

link ==
    /\ At("link")
    /\ Store!upsert_edge(Batch, Edge)
    /\ batch' = [batch EXCEPT !.pc = "upsert_edge"]
    /\ UNCHANGED <<armVars, program, boundVars>>

Linked(b) == Apply([b EXCEPT !.report.edges = @ + 1, !.linked = @ \cup {Edge}], Tail(b.triples))

linked == At("upsert_edge") /\ call[Batch].pc = "idle" /\ Go(Linked(batch))

\* An edge that fails is counted as skipped, although its row may be there.
link_fails ==
    /\ \/ At("link") /\ UNCHANGED storeVars
       \/ At("upsert_edge") /\ Store!fails(Batch)
    /\ Fault(Apply([batch EXCEPT !.report.skipped = @ + 1], Tail(batch.triples)))

\* The store's call goes on.
store_step ==
    /\ \/ Store!put_docs(Batch) \/ Store!put_entity(Batch)
       \/ Store!check_dst(Batch) \/ Store!read_meta(Batch)
       \/ Store!put_edge(Batch) \/ Store!put_meta(Batch)
    /\ UNCHANGED <<armVars, program, batch, boundVars>>

-----------------------------------------------------------------------------
(***************************************************************************)
(* Around the command.                                                     *)
(***************************************************************************)

Restarted ==
    /\ request' = [c \in Callers |-> Unasked]
    /\ hits' = Fresh(client).hits /\ asked' = Fresh(client).asked
    /\ UNCHANGED <<client, threshold, program>>

crash ==
    /\ batch.pc \notin Ended
    /\ Store!crash
    /\ batch' = [Begin(db') EXCEPT !.pc = "dead"]
    /\ Restarted
    /\ UNCHANGED boundVars

flush ==
    /\ batch.pc \notin Ended
    /\ Store!flush
    /\ UNCHANGED <<armVars, program, batch, boundVars>>

\* The same command again.  A store that was closed has been flushed.
rerun ==
    /\ batch.pc \in Ended /\ ~Hopeless /\ program.command # "library"
    /\ runs < MaxRuns
    /\ runs' = runs + 1
    /\ batch' = Begin(db)
    /\ disk' = db
    /\ Restarted
    /\ UNCHANGED <<db, call, calls, crashes, faults>>

library_request(c, op, text) ==
    /\ program.command = "library"
    /\ client # NoClient
    /\ asked[<<>>] + Cardinality({d \in Callers : request[d].pc = "enter" /\ request[d].at = <<>>})
          < MaxRequests
    /\ Call(c, op, text)
    /\ UNCHANGED <<storeVars, program, batch, boundVars>>

-----------------------------------------------------------------------------
ProceedBatch ==
    \/ read_line \/ summary
    \/ policy_step \/ policy_fails
    \/ \E triples \in Envelopes : policy_action(triples) \/ run_ingest_stub(triples)
    \/ resolve_known \/ resolve \/ resolve_fails \/ resolved
    \/ link \/ linked \/ link_fails \/ store_step

ProceedRequest(c) == Answering(c) /\ UNCHANGED <<storeVars, program, batch, boundVars>>

Next ==
    \/ ProceedBatch
    \/ \E c \in Callers :
          \/ ProceedRequest(c)
          \/ \E text \in Texts : library_request(c, "complete", text)
          \/ library_request(c, "judge", <<>>)
    \/ crash \/ flush \/ rerun

Spec == Init /\ [][Next]_vars

\* The runtime polls what is ready, every backend answers or fails within its
\* timeouts, and the tree never blocks for good.
Fairness == WF_vars(ProceedBatch) /\ \A c \in Callers : WF_vars(ProceedRequest(c))

FairSpec == Spec /\ Fairness

-----------------------------------------------------------------------------
(***************************************************************************)
(* Properties.                                                             *)
(***************************************************************************)

TypeOK ==
    /\ ArmsTypeOK
    /\ batch.pc \in Ended \cup {"read", "step", "asked", "resolve", "upsert", "link", "upsert_edge"}
    /\ batch.rest \in Seq(Lines)
    /\ batch.triples \in Seq(RawTriples)
    /\ batch.ids \in Seq(Entities) /\ Len(batch.ids) <= 2
    /\ \A f \in DOMAIN NoReport : {batch.report[f], batch.totals[f]} \subseteq Nat

NonBlank == {i \in DOMAIN program.file : program.file[i] # "blank"}

\* Every line the batch has behind it is counted once, as ingested or as a
\* failure, whatever failed and at which stage; at the end none is left out
\* ("recorded in the summary but do not abort the batch").
SummaryAddsUp ==
    LET pending == IF batch.pc \in Ended \cup {"read"} THEN 0 ELSE 1 IN
    program.command = "ingest-batch" /\ batch.pc # "dead" =>
        /\ batch.seen = batch.ok + Len(batch.failures) + pending
        /\ batch.pc = "done" => batch.seen = Cardinality(NonBlank)

\* What a line stored and was counted ok for is in the store as long as the
\* process lives: its entities with the document in both places a reader
\* looks, and its edges, however later lines extend the same entities and
\* whatever an earlier crash left behind.
OkLinesStored ==
    /\ \A item \in batch.landed.named :
          /\ Store!Has(item[1])
          /\ item[2] \in db.rows[Store!ent_key(item[1])]
          /\ item[2] \in db.rows[Store!doc_key(item[1])]
    /\ \A edge \in batch.landed.linked :
          \E a \in db.acked : a[2] = edge /\ db.rows[a[1]] = edge

\* Between lines the totals tell how the graph has grown, also when the store
\* fails between the writes of a call and when the command goes over a file that
\* was half ingested before a crash.  The difference is accounted for: an edge
\* may be there for each triple that was counted as skipped; one edge of the
\* totals may have replaced an edge that was there unnumbered when the command
\* began; and what a line stored before it failed in apply is in no total.
TotalsTellGrowth ==
    (At("read") \/ At("done")) /\ program.command # "library" =>
        LET now == Held(db)
            entities == batch.base.entities + batch.totals.entities
            edges == batch.base.edges + batch.totals.edges
            replaced == IF batch.base.numbered < batch.base.edges THEN 1 ELSE 0
            partial == \E i \in DOMAIN batch.failures : batch.failures[i].stage = "apply" IN
        /\ now.entities >= entities
        /\ now.edges >= edges - replaced
        /\ ~partial => /\ now.entities = entities
                       /\ now.edges <= edges + batch.totals.skipped

\* The triples some answer holds in which the sanitizer has nothing to reject.
Unobjectionable ==
    {raw \in UNION {{s[i] : i \in DOMAIN s} : s \in Envelopes} :
        /\ {raw.src, raw.dst} \subseteq ValidNames \ (EmptyNames \cup LongNames)
        /\ raw.rel \notin EmptyRelations
        /\ {raw.src, raw.rel, raw.dst} \cap Blocked = {}
        /\ Coerce \/ raw.rel \in Vocabulary}

\* Nothing gets into the graph through a triple that the sanitizer rejects,
\* neither its relation nor its ends, except through ingest-stub ("All
\* LLM-emitted triples MUST pass through this layer"); and a relation that is
\* not in the vocabulary only as related_to.
OnlyCleanStored ==
    program.command # "ingest-stub" =>
        /\ \A k \in Store!Table(db.rows, Store!K_ENT) :
              \E raw \in Unobjectionable : k[2] \in {IdOf[raw.src], IdOf[raw.dst]}
        /\ \A k \in Store!Table(db.rows, Store!K_OUT) :
              \E raw \in Unobjectionable :
                 /\ db.rows[k].src = IdOf[raw.src] /\ db.rows[k].dst = IdOf[raw.dst]
                 /\ db.rows[k].rel = IF raw.rel \in Vocabulary THEN raw.rel ELSE related_to

\* The documentation of the fallback ("empty or unparseable JSON ... the ~7%
\* slop falls through", "so we never lose a doc"): a line fails at the LLM
\* only after every backend was asked.
SlopFallsThrough ==
    \A i \in DOMAIN batch.failures :
        batch.failures[i].stage = "llm" => batch.failures[i].tried = Cardinality(Backends)

\* Every command ends and every request is answered.
EverythingReturns ==
    /\ batch.pc \notin Ended ~> batch.pc \in Ended
    /\ \A c \in Callers : ~Settled(c) ~> Settled(c)
=============================================================================

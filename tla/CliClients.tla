----------------------------- MODULE CliClients -----------------------------
(***************************************************************************)
(* The clients that run a command: ClaudeCliLlm, CodexCliLlm and           *)
(* GeminiCliLlm (sage-llm/src/*_cli.rs).  complete hands the work to a     *)
(* blocking job and waits for it with a timeout; the job starts a child,   *)
(* writes the whole prompt to its stdin, and only then reads its output.   *)
(* Three parties per call, and a timeout stops only the first: the caller, *)
(* the job on its thread, and the child.                                   *)
(***************************************************************************)
EXTENDS Naturals, Sequences, FiniteSets

CONSTANTS
    Calls,      \* calls, which may overlap
    Requests,   \* the backend that is asked, and the messages with their lengths
    Directive,  \* length of what the Gemini client puts before every prompt
    Outputs,    \* what a child may leave: records, see Output
    PipeCap,    \* what fits into a pipe
    Burst,      \* what a child writes while it still has to read
    Threads     \* threads for blocking jobs

\* ok is the exit status; marker where a quota marker is found; docs the JSON
\* documents of stdout, each by its first field that is there; file what
\* codex writes to the -o file.
Output == [ok : BOOLEAN, utf8 : BOOLEAN, marker : {"none", "stdout", "stderr"},
           docs : Seq({"none", "", "text"}), file : {"none", "", "text"}]

Roles == {"system", "user", "assistant"}
Messages == [role : Roles, length : Nat]

ASSUME CliAssumption ==
    /\ Requests \subseteq [backend : {"claude", "codex", "gemini"}, messages : Seq(Messages)]
    /\ Directive \in Nat
    /\ Outputs \subseteq Output
    /\ {PipeCap, Burst, Threads} \subseteq Nat \ {0}
    /\ IsFiniteSet(Calls)

VARIABLES
    caller,     \* caller[c]: the future of complete
    job,        \* job[c]: the closure of spawn_blocking
    child,      \* child[c]: the process, with the pipes to it
    file        \* file[c]: what temp_out_path names, "none" when it is not there

vars == <<caller, job, child, file>>

-----------------------------------------------------------------------------
(***************************************************************************)
(* How much of the messages goes through stdin, markers left out.          *)
(***************************************************************************)
Length(messages, roles) ==
    LET total[n \in 0..Len(messages)] ==
            IF n = 0 THEN 0
            ELSE total[n - 1] + IF messages[n].role \in roles THEN messages[n].length ELSE 0
    IN total[Len(messages)]

\* claude: what is not from the system, which goes on the command line.
split_messages(messages) == Length(messages, Roles \ {"system"})

\* codex: everything, the system part first.
build_prompt(messages) == Length(messages, Roles)

\* gemini: the same, behind a directive.
directed_prompt(messages) == Directive + build_prompt(messages)

Stdin(q) ==
    CASE q.backend = "claude" -> split_messages(q.messages)
      [] q.backend = "codex"  -> build_prompt(q.messages)
      [] q.backend = "gemini" -> directed_prompt(q.messages)

-----------------------------------------------------------------------------
(***************************************************************************)
(* What the job makes of a child that has exited.                          *)
(***************************************************************************)
Ok(content) == [tag |-> "ok", content |-> content]
Err(tag) == [tag |-> tag, content |-> ""]

\* The last document that says something; empty when none does.
parse_envelope(docs) ==
    LET said == {i \in DOMAIN docs : docs[i] = "text"} IN
    IF Len(docs) = 1 /\ docs[1] # "none" THEN docs[1]
    ELSE IF said # {} THEN "text" ELSE ""

claude(o) ==
    IF ~o.ok \/ ~o.utf8 THEN Err("err")
    ELSE Ok(IF Len(o.docs) = 1 /\ o.docs[1] # "none" THEN o.docs[1] ELSE "raw")

\* What says that no call will succeed for now: codex looks in both streams,
\* and so in a good answer too, gemini only where errors are written.
QUOTA_MARKERS == [codex |-> {"stdout", "stderr"}, gemini |-> {"stderr"}]

codex(o, text) ==
    IF o.marker \in QUOTA_MARKERS.codex THEN Err("quota")
    ELSE IF text = "text" THEN Ok("text")
    ELSE IF o.ok THEN Ok("raw") ELSE Err("err")

gemini(o) ==
    IF ~o.ok THEN Err(IF o.marker \in QUOTA_MARKERS.gemini THEN "quota" ELSE "err")
    ELSE Ok(IF parse_envelope(o.docs) = "text" THEN "text" ELSE "raw")

Outcome(c) ==
    LET o == child[c].leaves IN
    CASE caller[c].backend = "claude" -> claude(o)
      [] caller[c].backend = "codex"  -> codex(o, file[c])
      [] caller[c].backend = "gemini" -> gemini(o)

-----------------------------------------------------------------------------
Quiet == [ok |-> TRUE, utf8 |-> TRUE, marker |-> "none", docs |-> <<>>, file |-> "none"]

NoJob == [pc |-> "none", left |-> 0, result |-> Err("none")]

\* pc is none, reading, writing (a burst, or at the end), exited or killed.
NoChild == [pc |-> "none", in |-> 0, eof |-> FALSE, listens |-> TRUE, out |-> 0, burst |-> 0,
            final |-> FALSE, stalled |-> FALSE, leaves |-> Quiet]

Init ==
    /\ caller \in [Calls -> {[pc |-> "idle", backend |-> q.backend, prompt |-> Stdin(q),
                               result |-> Err("none")] : q \in Requests}]
    /\ job = [c \in Calls |-> NoJob]
    /\ child = [c \in Calls |-> NoChild]
    /\ file = [c \in Calls |-> "none"]

Lives(c) == child[c].pc \in {"reading", "writing"}
Runs(c) == job[c].pc \in {"write", "wait"}

\* The caller hands everything to the job and waits for it.
complete(c) ==
    /\ caller[c].pc = "idle"
    /\ caller' = [caller EXCEPT ![c].pc = "await"]
    /\ job' = [job EXCEPT ![c].pc = "queued", ![c].left = caller[c].prompt]
    /\ UNCHANGED <<child, file>>

\* The timeout covers the join; the -o file goes before the result is looked at.
Return(c, result) ==
    /\ caller[c].pc = "await"
    /\ caller' = [caller EXCEPT ![c].pc = "done", ![c].result = result]
    /\ file' = [file EXCEPT ![c] = "none"]
    /\ UNCHANGED <<job, child>>

\* Seeded fault: an error is returned before the -o file is removed.
joined_early_return(c) ==
    /\ job[c].pc = "over" /\ caller[c].pc = "await"
    /\ caller' = [caller EXCEPT ![c].pc = "done", ![c].result = job[c].result]
    /\ file' = IF job[c].result.tag = "ok" THEN [file EXCEPT ![c] = "none"] ELSE file
    /\ UNCHANGED <<job, child>>

joined(c) == job[c].pc = "over" /\ Return(c, job[c].result)

\* Neither the job nor its child is told.
timeout(c) == Return(c, Err("timeout"))

-----------------------------------------------------------------------------
(***************************************************************************)
(* The job.                                                                *)
(***************************************************************************)
Over(c, result) == [job EXCEPT ![c] = [pc |-> "over", left |-> 0, result |-> result]]

\* A queued job gets a thread when one is free, waited for or not.
Starts(c) == job[c].pc = "queued" /\ Cardinality({d \in Calls : Runs(d)}) < Threads

spawn(c) ==
    /\ Starts(c)
    /\ job' = [job EXCEPT ![c].pc = "write"]
    /\ child' = [child EXCEPT ![c].pc = "reading"]
    /\ UNCHANGED <<caller, file>>

spawn_fails(c) ==
    /\ Starts(c)
    /\ job' = Over(c, Err("err"))
    /\ UNCHANGED <<caller, child, file>>

Broken(c) == ~child[c].listens \/ ~Lives(c)

\* Seeded fault: the prompt goes out at once, as if a pipe held anything.
write_stdin_at_once(c) ==
    /\ job[c].pc = "write" /\ job[c].left > 0 /\ ~Broken(c)
    /\ job' = [job EXCEPT ![c].left = 0]
    /\ child' = [child EXCEPT ![c].in = @ + job[c].left]
    /\ UNCHANGED <<caller, file>>

write_stdin(c) ==
    /\ job[c].pc = "write" /\ job[c].left > 0 /\ ~Broken(c)
    /\ child[c].in < PipeCap
    /\ job' = [job EXCEPT ![c].left = @ - 1]
    /\ child' = [child EXCEPT ![c].in = @ + 1]
    /\ UNCHANGED <<caller, file>>

\* Seeded fault: the child is left to itself.
write_fails_no_kill(c) ==
    /\ job[c].pc = "write" /\ job[c].left > 0 /\ Broken(c)
    /\ job' = Over(c, Err("err"))
    /\ UNCHANGED <<caller, child, file>>

write_fails(c) ==
    /\ job[c].pc = "write" /\ job[c].left > 0 /\ Broken(c)
    /\ job' = Over(c, Err("err"))
    /\ child' = [child EXCEPT ![c].pc = IF Lives(c) THEN "killed" ELSE @]
    /\ UNCHANGED <<caller, file>>

\* Seeded fault: stdin is borrowed, and stays open while the output is read.
drop_stdin_borrowed(c) ==
    /\ job[c].pc = "write" /\ job[c].left = 0
    /\ job' = [job EXCEPT ![c].pc = "wait"]
    /\ UNCHANGED <<caller, child, file>>

drop_stdin(c) ==
    /\ job[c].pc = "write" /\ job[c].left = 0
    /\ job' = [job EXCEPT ![c].pc = "wait"]
    /\ child' = [child EXCEPT ![c].eof = TRUE]
    /\ UNCHANGED <<caller, file>>

read_output(c) ==
    /\ job[c].pc = "wait" /\ child[c].out > 0
    /\ child' = [child EXCEPT ![c].out = @ - 1]
    /\ UNCHANGED <<caller, job, file>>

\* The wait itself may fail, whatever the child has left.
wait_with_output(c) ==
    /\ job[c].pc = "wait" /\ child[c].pc = "exited" /\ child[c].out = 0
    /\ \E result \in {Outcome(c), Err("err")} : job' = Over(c, result)
    /\ UNCHANGED <<caller, child, file>>

-----------------------------------------------------------------------------
(***************************************************************************)
(* The child, any program: it reads, may start writing before it has read  *)
(* everything, may close its stdin early, may stall for good.              *)
(***************************************************************************)
Moves(c, pc, next) ==
    /\ child[c].pc = pc /\ ~child[c].stalled
    /\ child' = [child EXCEPT ![c] = next]
    /\ UNCHANGED <<caller, job>>

child_reads(c) ==
    /\ child[c].in > 0
    /\ Moves(c, "reading", [child[c] EXCEPT !.in = @ - 1])
    /\ UNCHANGED file

\* It has something to say: at any time while more may come, and then as long
\* as it has some of the prompt to read.
child_talks(c) ==
    LET n == IF child[c].eof THEN 1 ELSE 0 IN
    /\ child[c].in >= n
    /\ Moves(c, "reading", [child[c] EXCEPT !.in = @ - n, !.pc = "writing", !.burst = Burst])
    /\ UNCHANGED file

child_closes(c) ==
    /\ child[c].listens
    /\ Moves(c, "reading", [child[c] EXCEPT !.listens = FALSE, !.in = 0])
    /\ UNCHANGED file

\* It has read to the end, or will read no more: now it answers.
child_answers(c) ==
    /\ child[c].in = 0 /\ (child[c].eof \/ ~child[c].listens)
    /\ Moves(c, "reading", [child[c] EXCEPT !.pc = "writing", !.burst = 1, !.final = TRUE])
    /\ UNCHANGED file

child_writes(c) ==
    /\ child[c].burst > 0 /\ child[c].out < PipeCap
    /\ Moves(c, "writing", [child[c] EXCEPT !.burst = @ - 1, !.out = @ + 1])
    /\ UNCHANGED file

child_resumes(c) ==
    /\ child[c].burst = 0 /\ ~child[c].final
    /\ Moves(c, "writing", [child[c] EXCEPT !.pc = "reading"])
    /\ UNCHANGED file

\* codex writes its last message to the path it was given, removed or not.
child_exits(c, o) ==
    /\ child[c].burst = 0 /\ child[c].final
    /\ Moves(c, "writing", [child[c] EXCEPT !.pc = "exited", !.leaves = o])
    /\ file' = IF caller[c].backend = "codex" /\ o.file # "none" THEN [file EXCEPT ![c] = o.file] ELSE file

child_stalls(c) ==
    /\ Lives(c)
    /\ Moves(c, child[c].pc, [child[c] EXCEPT !.stalled = TRUE])
    /\ UNCHANGED file

-----------------------------------------------------------------------------
JobStep(c) ==
    \/ spawn(c) \/ spawn_fails(c) \/ write_stdin(c) \/ write_fails(c)
    \/ drop_stdin(c) \/ read_output(c) \/ wait_with_output(c)

ChildStep(c) ==
    \/ child_reads(c) \/ child_answers(c) \/ child_writes(c) \/ child_resumes(c)
    \/ \E o \in Outputs : child_exits(c, o)

ChildWhim(c) == child_talks(c) \/ child_closes(c) \/ child_stalls(c)

Next ==
    \E c \in Calls : complete(c) \/ joined(c) \/ timeout(c) \/ JobStep(c) \/ ChildStep(c) \/ ChildWhim(c)

Spec == Init /\ [][Next]_vars

\* The runtime's timer fires, its threads run, and so does a child.
Fairness ==
    \A c \in Calls : /\ WF_vars(joined(c) \/ timeout(c))
                     /\ WF_vars(JobStep(c)) /\ WF_vars(ChildStep(c))

FairSpec == Spec /\ Fairness

-----------------------------------------------------------------------------
TypeOK ==
    \A c \in Calls :
        /\ caller[c].pc \in {"idle", "await", "done"}
        /\ job[c].pc \in {"none", "queued", "write", "wait", "over"}
        /\ job[c].left \in 0..caller[c].prompt
        /\ child[c].pc \in {"none", "reading", "writing", "exited", "killed"}
        /\ {child[c].in, child[c].out} \subseteq 0..PipeCap /\ child[c].burst \in 0..Burst
        /\ file[c] \in {"none", "", "text"}
        /\ job[c].result.tag \in {"none", "ok", "err", "quota"}

\* When a job has come to an end its child has, too: "a half-spawned child
\* never lingers", also when it stopped listening and works on, and an answer
\* is what a child left that has exited.
NoChildOutlivesItsJob ==
    \A c \in Calls :
        job[c].pc = "over" => /\ ~Lives(c)
                              /\ job[c].result.tag = "ok" => child[c].pc = "exited"

\* A file of codex stays behind only when the call timed out: then the child
\* may write it after it was removed.  A call that ends otherwise, well or
\* badly, leaves nothing, now or later.
FileLeftOnlyByTimeout ==
    \A c \in Calls :
        caller[c].pc = "done" /\ file[c] # "none" => caller[c].result.tag = "timeout"

\* The writer waits for the reader of the other pipe, and the other way round.
PipesFull(c) ==
    /\ job[c].pc = "write" /\ job[c].left > 0 /\ child[c].in = PipeCap
    /\ child[c].pc = "writing" /\ child[c].burst > 0 /\ child[c].out = PipeCap

Stuck(c) == Runs(c) /\ (child[c].stalled \/ (PipesFull(c) /\ caller[c].prompt > PipeCap))

\* Every call returns.  Its job ends, too, and gives its thread back, unless
\* its child stalls, or the prompt does not fit into the pipe and the child
\* talks before it has read it, or all threads are held by such jobs.
CallsAndJobsEnd ==
    \A c \in Calls :
        /\ caller[c].pc = "await" ~> caller[c].pc = "done"
        /\ job[c].pc # "none" ~>
              \/ job[c].pc = "over" \/ Stuck(c)
              \/ job[c].pc = "queued" /\ Cardinality({d \in Calls : Stuck(d)}) >= Threads
=============================================================================
